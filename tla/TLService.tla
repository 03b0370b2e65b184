------------------------------ MODULE TLService ------------------------------
(***************************************************************************)
(* What the chain from netsim_manager through the MOOS gateways, iBellhop  *)
(* and netsim_postprocess promises to the display: every transmission loss *)
(* request taken is answered once, those for one environment in the order  *)
(* in which they were taken, and every session connected at that moment is *)
(* told, all of them the same answers in the same order.                   *)
(***************************************************************************)
EXTENDS Naturals, Sequences

CONSTANTS Environments, Sessions, Ids

VARIABLES
    waiting,   \* environment -> requests taken and not answered, oldest first
    answered,  \* the requests answered
    news,      \* connected session -> answers it has not been told, oldest first
    told       \* session -> the last answer told to it while connected, or <<>>

service_vars == <<waiting, answered, news, told>>

ServiceInit ==
    /\ waiting = [e \in Environments |-> <<>>]
    /\ answered = {}
    /\ news = [s \in {} |-> <<>>]
    /\ told = [s \in Sessions |-> <<>>]

\* A session is told nothing of what was answered before it connected.
Connect(s) ==
    /\ s \notin DOMAIN news
    /\ news' = [t \in DOMAIN news \cup {s} |-> IF t = s THEN <<>> ELSE news[t]]
    /\ UNCHANGED <<waiting, answered, told>>

Leave(s) ==
    /\ s \in DOMAIN news
    /\ news' = [t \in DOMAIN news \ {s} |-> news[t]]
    /\ told' = [told EXCEPT ![s] = <<>>]
    /\ UNCHANGED <<waiting, answered>>

\* One request more, which is neither waiting nor answered.
Ask(e) ==
    /\ UNCHANGED <<answered, news, told>>
    /\ Len(waiting'[e]) = Len(waiting[e]) + 1
    /\ \E i \in Ids \ answered :
          /\ \A f \in Environments : \A k \in DOMAIN waiting[f] : waiting[f][k] # i
          /\ waiting' = [waiting EXCEPT ![e] = Append(@, i)]

Answer(e) ==
    /\ answered' # answered
    /\ waiting[e] # <<>>
    /\ waiting' = [waiting EXCEPT ![e] = Tail(@)]
    /\ answered' = answered \cup {Head(waiting[e])}
    /\ news' = [s \in DOMAIN news |-> Append(news[s], Head(waiting[e]))]
    /\ UNCHANGED told

Tell(s) ==
    /\ s \in DOMAIN news
    /\ news[s] # <<>>
    /\ told' = [told EXCEPT ![s] = Head(news[s])]
    /\ news' = [news EXCEPT ![s] = Tail(@)]
    /\ UNCHANGED <<waiting, answered>>

ServiceNext ==
    \/ \E s \in Sessions : Connect(s) \/ Leave(s) \/ Tell(s)
    \/ \E e \in Environments : Ask(e) \/ Answer(e)

ServiceSpec == ServiceInit /\ [][ServiceNext]_service_vars
=============================================================================
