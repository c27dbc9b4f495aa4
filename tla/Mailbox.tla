------------------------------ MODULE Mailbox -------------------------------
(***************************************************************************)
(* What the command bus promises to the people who send commands, whatever   *)
(* waits the mission is in: a command that was published is kept, in its     *)
(* place and as it was sent, until it is taken; it is taken once; and no     *)
(* command is acted upon while an ABORT that came before it is still waiting. *)
(* Only the end of the process loses commands.                              *)
(***************************************************************************)
EXTENDS Naturals, Sequences

CONSTANT Kinds

VARIABLES box, sent     \* the commands kept, oldest first; how many were sent

Init == box = <<>> /\ sent = 0

Publish ==
    \E kind \in Kinds : /\ sent' = sent + 1
                        /\ box' = Append(box, [id |-> sent + 1, kind |-> kind])

\* A wait may take what it understands past what it does not, except an ABORT.
Take ==
    \E i \in 1 .. Len(box) :
        /\ \A j \in 1 .. i - 1 : box[j].kind # "abort"
        /\ box' = SubSeq(box, 1, i - 1) \o SubSeq(box, i + 1, Len(box))
        /\ sent' = sent

Lose == box' = <<>> /\ sent' = sent

Next == Publish \/ Take \/ Lose

Spec == Init /\ [][Next]_<<box, sent>>
=============================================================================
