---------------------------- MODULE FifoChannels ----------------------------
(***************************************************************************)
(* What a connection promises to the main loops at its two ends: messages  *)
(* numbered in the order they are sent are handled in that order, each at  *)
(* most once, and on a channel that loses nothing each one in turn.        *)
(***************************************************************************)
EXTENDS Naturals, Sequences

CONSTANT Channel   \* one per direction of a connection

VARIABLES
  lossy,     \* the channels that may skip a message
  sent,      \* number of messages sent on a channel
  handled    \* the numbers of those handled, in the order they were

LastHandled(ch) == IF handled[ch] = <<>> THEN 0 ELSE handled[ch][Len(handled[ch])]

FifoInit ==
  /\ lossy \subseteq Channel
  /\ sent = [ch \in Channel |-> 0]
  /\ handled = [ch \in Channel |-> <<>>]

Sends(ch) ==
  /\ sent' = [sent EXCEPT ![ch] = @ + 1]
  /\ UNCHANGED <<lossy, handled>>

\* What a batch may consist of on one channel: nothing, or messages after the
\* last one handled.
Follows(ch, batch) ==
  /\ \A i \in DOMAIN batch : batch[i] <= sent[ch]
  /\ \A i \in DOMAIN batch :
       LET before == IF i = 1 THEN LastHandled(ch) ELSE batch[i - 1]
       IN IF ch \in lossy THEN batch[i] > before ELSE batch[i] = before + 1

\* A loop takes a batch, of messages of any of the channels that lead to it.
Handles ==
  /\ UNCHANGED <<lossy, sent>>
  /\ \A ch \in Channel :
       /\ Len(handled'[ch]) >= Len(handled[ch])
       /\ SubSeq(handled'[ch], 1, Len(handled[ch])) = handled[ch]
       /\ Follows(ch, SubSeq(handled'[ch], Len(handled[ch]) + 1, Len(handled'[ch])))

FifoNext == Handles \/ \E ch \in Channel : Sends(ch)

FifoSpec == FifoInit /\ [][FifoNext]_<<lossy, sent, handled>>
=============================================================================
