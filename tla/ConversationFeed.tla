-------------------------- MODULE ConversationFeed --------------------------
(* What a session's event stream promises a reader: the envelopes of the   *)
(* log that show something, each exactly once, in the log's order and with *)
(* nothing left out.  A reader may forget everything and start over.       *)
EXTENDS Integers, Sequences

CONSTANT Widths  \* how many frames one envelope may translate to

VARIABLES
    log,   \* frames per committed envelope
    read   \* the seqs the reader has applied, in order

vars == <<log, read>>

LastRead == IF read = <<>> THEN -1 ELSE read[Len(read)]

Unread == {s \in LastRead + 1 .. Len(log) - 1 : log[s + 1] > 0}

Init == log = <<>> /\ read = <<>>

Commit == (\E w \in Widths : log' = Append(log, w)) /\ UNCHANGED read

Apply ==
    /\ \E s \in Unread :
         /\ \A t \in Unread : s <= t
         /\ read' = Append(read, s)
    /\ UNCHANGED log

StartOver == read' = <<>> /\ UNCHANGED log

Next == Commit \/ Apply \/ StartOver

Spec == Init /\ [][Next]_vars

=============================================================================
