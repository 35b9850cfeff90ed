------------------------------- MODULE Framing --------------------------------
(***************************************************************************)
(* One direction of a connection: send and recv of src/io.rs, and the loop *)
(* that calls recv.  The client calls it as a branch of tokio::select!     *)
(* beside its terminal, the server's reader task calls it alone: those are *)
(* the behaviours without TypeLine and EndInput.                           *)
(*                                                                         *)
(* The byte stream is counted in units.  A message is PartsPerMsg units:   *)
(* the pieces its JSON may be cut into on its way, and the newline, which  *)
(* send writes apart from the JSON.  The unit at position p belongs to     *)
(* message MsgOf(p) and ends it when EndsLine(p).                          *)
(***************************************************************************)
EXTENDS Naturals, Sequences

CONSTANTS
    Messages,       \* how many messages the sender has to send
    PartsPerMsg     \* units of a message, the newline included

ASSUME FramingAssumption ==
    /\ Messages \in Nat
    /\ PartsPerMsg \in Nat \ {0, 1}

VARIABLES
    written,    \* units the sender has written
    arrived,    \* units that have reached the receiver's socket and BufReader
    taken,      \* units read_line has taken out of the BufReader
    start,      \* where the line of the recv in progress starts
    dropped,    \* history: part of a line was dropped with a recv
    handled,    \* the messages recv has returned, oldest first
    sender,     \* "open" or "closed"
    stdin,      \* "open" or "closed": the client's terminal
    loop        \* "running", or why the receiver left its loop

wireVars == <<written, arrived, sender>>
vars == <<written, arrived, taken, start, dropped, handled, sender, stdin, loop>>

Units == Messages * PartsPerMsg
MsgOf(p) == (p + PartsPerMsg - 1) \div PartsPerMsg
EndsLine(p) == p % PartsPerMsg = 0

Init ==
    /\ written = 0
    /\ arrived = 0
    /\ taken = 0
    /\ start = 0
    /\ dropped = FALSE
    /\ handled = <<>>
    /\ sender = "open"
    /\ stdin = "open"
    /\ loop = "running"

-----------------------------------------------------------------------------
\* One of the two write_all of send gets a unit out.
Write ==
    /\ sender = "open"
    /\ written < Units
    /\ written' = written + 1
    /\ UNCHANGED <<arrived, taken, start, dropped, handled, sender, stdin, loop>>

\* The sender closes the connection or dies, also in the middle of a message.
Close ==
    /\ sender = "open"
    /\ sender' = "closed"
    /\ UNCHANGED <<written, arrived, taken, start, dropped, handled, stdin, loop>>

\* The network brings one or more units.
Arrive ==
    /\ \E n \in (arrived + 1) .. written : arrived' = n
    /\ UNCHANGED <<written, taken, start, dropped, handled, sender, stdin, loop>>

-----------------------------------------------------------------------------
(***************************************************************************)
(* recv is polled.  read_line takes what there is up to the end of the     *)
(* line; while neither the end of the line nor that of the stream is       *)
(* there, the future stays pending with its part of the line.              *)
(***************************************************************************)
LineEnd == {p \in (taken + 1) .. arrived : EndsLine(p)}

\* A reader that begins a new line at every part.
TakePartForgetting ==
    /\ loop = "running"
    /\ LineEnd = {}
    /\ taken < arrived
    /\ taken' = arrived
    /\ start' = arrived
    /\ UNCHANGED <<wireVars, dropped, handled, stdin, loop>>

TakePart ==
    /\ loop = "running"
    /\ LineEnd = {}
    /\ taken < arrived
    /\ taken' = arrived
    /\ UNCHANGED <<wireVars, start, dropped, handled, stdin, loop>>

StartsMsg(p) == start = (MsgOf(p) - 1) * PartsPerMsg

\* A receiver that prints a bad line and reads on.
ParseSkipping(p) ==
    /\ loop' = loop
    /\ handled' = IF StartsMsg(p) THEN Append(handled, MsgOf(p)) ELSE handled

\* A receiver that wants the newline of the last line too.
ParseWithNewline(p) ==
    IF StartsMsg(p) /\ EndsLine(p)
    THEN /\ handled' = Append(handled, MsgOf(p))
         /\ loop' = loop
    ELSE /\ loop' = "bad line"
         /\ handled' = handled

(***************************************************************************)
(* The line from start to p is parsed.  It is the JSON of a message when   *)
(* it begins where the message begins and has all of its JSON, with or     *)
(* without the newline; no proper suffix or prefix of the JSON parses.     *)
(***************************************************************************)
Parse(p) ==
    IF StartsMsg(p) /\ p >= MsgOf(p) * PartsPerMsg - 1
    THEN /\ handled' = Append(handled, MsgOf(p))
         /\ loop' = loop
    ELSE /\ loop' = "bad line"
         /\ handled' = handled

TakeLine ==
    /\ loop = "running"
    /\ \E p \in LineEnd :
           /\ \A q \in LineEnd : p <= q
           /\ Parse(p)
           /\ taken' = p
           /\ start' = p
    /\ UNCHANGED <<wireVars, dropped, stdin>>

\* The stream has ended: what is left is a line, and nothing is an error.
TakeEnd ==
    /\ loop = "running"
    /\ sender = "closed"
    /\ arrived = written
    /\ LineEnd = {}
    /\ taken' = arrived
    /\ start' = arrived
    /\ IF arrived > start
       THEN Parse(arrived)
       ELSE loop' = "eof" /\ handled' = handled
    /\ UNCHANGED <<wireVars, dropped, stdin>>

(***************************************************************************)
(* The terminal's branch of select! wins: a line was typed.  The other     *)
(* branch's future is dropped, and with it the part of the line it had     *)
(* taken.  Unless sending what was typed fails, the next iteration starts  *)
(* a new recv, with an empty line.                                         *)
(***************************************************************************)
TypeLine ==
    /\ loop = "running"
    /\ start' = taken
    /\ dropped' = (dropped \/ start < taken)
    /\ \/ loop' = loop
       \/ sender = "closed" /\ loop' = "send failed"
    /\ UNCHANGED <<wireVars, taken, handled, stdin>>

\* The end of the terminal's input ends the client's loop.
EndInput ==
    /\ loop = "running"
    /\ stdin' = "closed"
    /\ loop' = "stdin"
    /\ UNCHANGED <<wireVars, taken, start, dropped, handled>>

\* The receiver has left its loop.
Stopped ==
    /\ loop # "running"
    /\ UNCHANGED vars

Next ==
    \/ Write
    \/ Close
    \/ Arrive
    \/ TakePart
    \/ TakeLine
    \/ TakeEnd
    \/ TypeLine
    \/ EndInput
    \/ Stopped

Spec == Init /\ [][Next]_vars

Receive == TakePart \/ TakeLine \/ TakeEnd

\* The sender writes on, the network delivers, the receiver's task is polled.
FairSpec ==
    /\ Spec
    /\ WF_vars(Write)
    /\ WF_vars(Arrive)
    /\ WF_vars(Receive)

-----------------------------------------------------------------------------
(***************************************************************************)
(* What recv returned is the beginning of what was sent: no message is     *)
(* skipped, repeated or put together from parts of two, however the stream *)
(* is cut and whenever a recv is cancelled.                                *)
(***************************************************************************)
HandledInOrder ==
    /\ handled = [i \in 1 .. Len(handled) |-> i]
    /\ Len(handled) <= MsgOf(taken)

(***************************************************************************)
(* As long as no recv is dropped with a part of a line -- never at the     *)
(* server -- a bad line is a message in the middle of which the sender     *)
(* broke off, and every message before it has been handled.                *)
(***************************************************************************)
BadLineIsTruncation ==
    loop = "bad line" /\ ~dropped =>
        /\ sender = "closed"
        /\ taken = written
        /\ written < MsgOf(written) * PartsPerMsg - 1
        /\ Len(handled) = MsgOf(written) - 1

(***************************************************************************)
(* As long as no recv is dropped with a part of a line, a receiver that    *)
(* reads on owes nothing of what it has taken: every message whose newline *)
(* is among it has been handled.  And one that the stream brought out of   *)
(* its loop has handled all that was sent whole, also a last message that  *)
(* came without its newline.                                               *)
(***************************************************************************)
WholeIsHandled ==
    ~dropped => \A m \in 1 .. Messages :
        /\ loop = "running" /\ taken >= m * PartsPerMsg => m <= Len(handled)
        /\ loop \in {"eof", "bad line"} /\ written >= m * PartsPerMsg - 1
               => m <= Len(handled)

(***************************************************************************)
(* Every message sent whole is handled, unless the receiver's own terminal *)
(* ends its loop or drops a part of a line.                                *)
(***************************************************************************)
SentIsHandled ==
    \A m \in 1 .. Messages :
        (written >= m * PartsPerMsg - 1)
            ~> (Len(handled) >= m \/ loop \in {"stdin", "send failed"} \/ dropped)

(***************************************************************************)
(* src/net/client.rs:217 tells the user: "Type `/tx your-message` to       *)
(* submit a transaction; plain text still sends App messages."  Typing     *)
(* sends, and does nothing else: the client leaves its loop only when its  *)
(* terminal or the server's stream has ended.                              *)
(***************************************************************************)
TypingOnlySends ==
    loop # "running" => stdin = "closed" \/ sender = "closed"

=============================================================================
