---------------------------- MODULE SignInTickets ----------------------------
(* What the sign-in flow promises, without handlers, goroutines or locks: a   *)
(* sign-in is a ticket.  It is opened, verified as the deployment's one owner *)
(* or refused, exchanged for at most one token, and that token's secret is    *)
(* handed over at most once.  A ticket may be closed at any moment before the *)
(* exchange; nothing reopens it.  LoginGrants implements this module.         *)
EXTENDS Naturals

CONSTANTS Ticket, Token, Login, NoTicket, NoLogin

VARIABLES
    phase,    \* how far each ticket is
    owner,    \* who owns the deployment
    soldFor,  \* the ticket that each token was exchanged for
    copies    \* how often each token's secret was handed over

vars == <<phase, owner, soldFor, copies>>

Phase == {"none", "open", "verified", "refused", "exchanged", "closed"}

TicketTypeOK ==
    /\ phase \in [Ticket -> Phase]
    /\ owner \in Login \cup {NoLogin}
    /\ soldFor \in [Token -> Ticket \cup {NoTicket}]
    /\ copies \in [Token -> {0, 1}]

Init ==
    /\ phase = [k \in Ticket |-> "none"]
    /\ owner = NoLogin
    /\ soldFor = [t \in Token |-> NoTicket]
    /\ copies = [t \in Token |-> 0]

Open(k) ==
    /\ phase[k] = "none"
    /\ phase' = [phase EXCEPT ![k] = "open"]
    /\ UNCHANGED <<owner, soldFor, copies>>

\* The deployment is claimed once, for good.
Claim(who) ==
    /\ owner = NoLogin
    /\ owner' = who
    /\ UNCHANGED <<phase, soldFor, copies>>

\* Only a claimed deployment has anybody to verify a ticket as.
Verify(k) ==
    /\ phase[k] = "open"
    /\ owner # NoLogin
    /\ phase' = [phase EXCEPT ![k] = "verified"]
    /\ UNCHANGED <<owner, soldFor, copies>>

Refuse(k) ==
    /\ phase[k] = "open"
    /\ phase' = [phase EXCEPT ![k] = "refused"]
    /\ UNCHANGED <<owner, soldFor, copies>>

Exchange(k, t) ==
    /\ phase[k] = "verified"
    /\ soldFor[t] = NoTicket
    /\ phase' = [phase EXCEPT ![k] = "exchanged"]
    /\ soldFor' = [soldFor EXCEPT ![t] = k]
    /\ UNCHANGED <<owner, copies>>

HandOver(t) ==
    /\ soldFor[t] # NoTicket
    /\ copies[t] = 0
    /\ copies' = [copies EXCEPT ![t] = 1]
    /\ UNCHANGED <<phase, owner, soldFor>>

\* Tickets run out, alone or together.
Close(K) ==
    /\ \A k \in K : phase[k] \in {"open", "verified", "refused"}
    /\ phase' = [k \in Ticket |-> IF k \in K THEN "closed" ELSE phase[k]]
    /\ UNCHANGED <<owner, soldFor, copies>>

Next ==
    \/ \E k \in Ticket : Open(k) \/ Verify(k) \/ Refuse(k)
    \/ \E who \in Login : Claim(who)
    \/ \E k \in Ticket, t \in Token : Exchange(k, t)
    \/ \E t \in Token : HandOver(t)
    \/ \E K \in SUBSET Ticket : Close(K)

Spec == Init /\ [][Next]_vars

==============================================================================
