------------------------------ MODULE ChatPair ------------------------------
(***************************************************************************)
(* The chat programs of TCP_Scripts/test_tcp_1 and test_tcp_2: a client    *)
(* and a server that take turns.  Each reads a piece of a line from its    *)
(* keyboard, writes it to the socket without its last character, and       *)
(* blocks until the peer's answer arrives; the client begins.              *)
(*                                                                         *)
(* Of the bytes only their number is kept: nothing depends on the text.    *)
(***************************************************************************)
EXTENDS Integers

CONSTANTS
    BufSize,       \* sizeof(buf)
    Lengths,       \* lengths of the lines users enter, without the newline
    MaxLines       \* bound: lines entered

ASSUME ChatAssumption ==
    /\ BufSize \in Nat /\ BufSize > 2
    /\ Lengths \subseteq Nat
    /\ MaxLines \in Nat

VARIABLES
    pc,            \* where each program blocks: "type", "wait", or "done"
    keyboard,      \* bytes of the line entered that are still to be read
    stream,        \* bytes on the way to each program
    (* history: the lines entered, their number, whether a read of the socket
       returned only part of what was on the way *)
    entered, lines, split

vars == <<pc, keyboard, stream, entered, lines, split>>

Sides == {"client", "server"}
Peer(s) == IF s = "client" THEN "server" ELSE "client"

\* The most a read of the keyboard returns: sizeof(buf)-1.
Room == BufSize - 1

\* The most a read of the socket returns: the client leaves no byte free.
SocketRoom(s) == IF s = "client" THEN BufSize ELSE Room

\* Mutant of Piece: a full buffer is taken for granted.
PieceFull(n) == Room

\* What a read of the keyboard returns of the n bytes there.
Piece(n) == IF n < Room THEN n ELSE Room

\* The connection is accepted; the server reads the socket first.
Init ==
    /\ pc = [s \in Sides |-> IF s = "client" THEN "type" ELSE "wait"]
    /\ keyboard = [s \in Sides |-> 0]
    /\ stream = [s \in Sides |-> 0]
    /\ entered = {} /\ lines = 0 /\ split = FALSE

----------------------------------------------------------------------------
\* A user enters a line, and the program's read of the keyboard can return.
Enter(s) ==
    /\ pc[s] = "type" /\ keyboard[s] = 0 /\ lines < MaxLines
    /\ \E n \in Lengths :
         /\ keyboard' = [keyboard EXCEPT ![s] = n + 1]
         /\ entered' = entered \cup {n}
    /\ lines' = lines + 1
    /\ UNCHANGED <<pc, stream, split>>

\* What Write changes, with the bytes put on the wire and where it blocks next.
WriteAs(s, bytes, next) ==
    /\ pc[s] = "type" /\ keyboard[s] > 0
    /\ keyboard' = [keyboard EXCEPT ![s] = @ - Piece(keyboard[s])]
    /\ stream' = [stream EXCEPT ![Peer(s)] = @ + bytes]
    /\ pc' = [pc EXCEPT ![s] = next]
    /\ UNCHANGED <<entered, lines, split>>

\* Mutants of Write: one more character is cut off; the program does not wait
\* for its peer while there is more of the line.
WriteCut(s) ==
    WriteAs(s, IF Piece(keyboard[s]) > 1 THEN Piece(keyboard[s]) - 2 ELSE 0, "wait")
WriteOn(s) ==
    WriteAs(s, Piece(keyboard[s]) - 1, IF keyboard[s] > Room THEN "type" ELSE "wait")

\* read(0,...); buf[size-1]='\0'; write(...,strlen(buf)).
Write(s) == WriteAs(s, Piece(keyboard[s]) - 1, "wait")

\* The user ends the input.
EndOfInput(s) ==
    /\ pc[s] = "type" /\ keyboard[s] = 0
    /\ pc' = [pc EXCEPT ![s] = "done"]
    /\ UNCHANGED <<keyboard, stream, entered, lines, split>>

\* The socket's read returns some of the bytes on the way; it is s's turn.  A
\* client that fills its buffer to the last byte ends the text one byte beyond,
\* which is taken to be of no use to the program.
Receive(s) ==
    /\ pc[s] = "wait" /\ stream[s] > 0
    /\ \E n \in 1..stream[s] :
         /\ n <= SocketRoom(s)
         /\ stream' = [stream EXCEPT ![s] = @ - n]
         /\ split' = (split \/ n < stream[s])
    /\ pc' = [pc EXCEPT ![s] = "type"]
    /\ UNCHANGED <<keyboard, entered, lines>>

\* Mutant of PeerGone: an empty read is tried again.
PeerGoneRetry(s) == pc[s] = "wait" /\ pc[Peer(s)] = "done" /\ UNCHANGED vars

\* The peer has ended: the read returns 0, or -1 when the connection was reset
\* (then even with bytes still on the way).
PeerGone(s) ==
    /\ pc[s] = "wait" /\ pc[Peer(s)] = "done"
    /\ pc' = [pc EXCEPT ![s] = "done"]
    /\ UNCHANGED <<keyboard, stream, entered, lines, split>>

Next == \E s \in Sides : Enter(s) \/ Write(s) \/ EndOfInput(s) \/ Receive(s)
                           \/ PeerGone(s)

\* A read of the socket that can return does; users need not type.
Fairness == \A s \in Sides : WF_vars(Receive(s) \/ PeerGone(s))

Spec == Init /\ [][Next]_vars
FairSpec == Spec /\ Fairness

----------------------------------------------------------------------------
(* Properties *)

TypeOK ==
    /\ pc \in [Sides -> {"type", "wait", "done"}]
    /\ keyboard \in [Sides -> Nat] /\ stream \in [Sides -> Nat]
    /\ entered \subseteq Nat /\ lines \in Nat /\ split \in BOOLEAN

Stuck == \A s \in Sides : pc[s] = "wait" /\ stream[s] = 0

\* Each program waits for the other, for ever, only after somebody entered a
\* line whose length is a multiple of sizeof(buf)-1, the empty line among them:
\* its newline is read alone and nothing is written.
StuckOnlyAfterMultiple ==
    Stuck => \E n \in entered : \E k \in 0..n : n = k * Room

\* The two users are asked for a line at the same time only after TCP has
\* delivered a message in pieces.
InTurn == ~split => \E s \in Sides : pc[s] # "type"

\* A program whose peer has ended does not stay blocked on the socket.
EndsWithPeer == \A s \in Sides : pc[Peer(s)] = "done" ~> pc[s] # "wait"

----------------------------------------------------------------------------
(* What makes StuckOnlyAfterMultiple and InTurn inductive *)

\* n bytes are what whole pieces leave of a line that was entered.
LeftOver(n) == \E m \in entered : \E k \in 0..m : n + k * Room = m + 1

BlockedInv ==
    /\ \A s \in Sides : keyboard[s] > 0 => LeftOver(keyboard[s])
    /\ StuckOnlyAfterMultiple

\* Until a message is split, whose turn it is tells what is on the way.
TurnInv ==
    ~split => /\ \A s \in Sides : pc[s] = "type" => /\ pc[Peer(s)] # "type"
                                                    /\ \A r \in Sides : stream[r] = 0
              /\ \E s \in Sides : stream[s] = 0
=============================================================================
