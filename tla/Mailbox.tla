------------------------------- MODULE Mailbox -------------------------------
(***************************************************************************)
(* What panels may rely on when tasks are queued for them: each window has *)
(* a mailbox; tasks are handed out by priority, then by age; only the last *)
(* resize counts; a closed window has no mail.                             *)
(***************************************************************************)
EXTENDS Integers

CONSTANTS Window, Priority

VARIABLES
    open,       \* windows that take mail
    box,        \* Window -> undelivered tasks
    ticket      \* number of the last task

mailVars == <<open, box, ticket>>

Resize == 3

Init == open = {} /\ box = [w \in Window |-> {}] /\ ticket = 0

Open(w) == w \notin open /\ open' = open \cup {w} /\ UNCHANGED <<box, ticket>>

Close(w) ==
    /\ w \in open
    /\ open' = open \ {w}
    /\ box' = [box EXCEPT ![w] = {}]
    /\ UNCHANGED ticket

Post(w, prio) ==
    /\ w \in open
    /\ ticket' = ticket + 1
    /\ box' = [box EXCEPT ![w] =
                 {t \in @ : prio # Resize \/ t.prio # Resize}
                   \cup {[num |-> ticket + 1, prio |-> prio]}]
    /\ UNCHANGED open

MoreUrgent(t, u) == t.prio > u.prio \/ (t.prio = u.prio /\ t.num < u.num)

Deliver(w) ==
    /\ w \in open
    /\ \E t \in box[w] :
         /\ \A u \in box[w] \ {t} : MoreUrgent(t, u)
         /\ box' = [box EXCEPT ![w] = @ \ {t}]
    /\ UNCHANGED <<open, ticket>>

Next == \E w \in Window :
    Open(w) \/ Close(w) \/ Deliver(w) \/ \E p \in Priority : Post(w, p)

Spec == Init /\ [][Next]_mailVars

=============================================================================
