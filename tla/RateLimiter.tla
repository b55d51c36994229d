----------------------------- MODULE RateLimiter -----------------------------
(***************************************************************************)
(* SlidingWindowCounter behind the two request filters.  The address and   *)
(* the API filter have a counter each with its own limits; this is one of  *)
(* them.  check reads the clock before it waits for the mutex, so stamps   *)
(* enter a client's deque out of order.                                    *)
(*                                                                         *)
(* A request that waits is taken to wait no longer than MaxDelay.          *)
(* "admitted", "exempted" and "refused" are not in the code: when each     *)
(* client's requests were received and really let through by check, which  *)
(* clients had requests let through without it, and whether the last check *)
(* said no.                                                                *)
(***************************************************************************)
EXTENDS Integers, Sequences, SequencesExt

CONSTANTS Peers,        \* addresses of TCP peers and in X-Forwarded-For
          Loopback,     \* those of the host itself, which are exempt
          TrustProxy,   \* trust_proxy
          Proxies,      \* trusted_proxies
          NoHeader,     \* no usable X-Forwarded-For
          Threads,      \* threads of the HTTP server
          MaxRequests, Window,
          MaxDelay,     \* longest wait between clock and mutex
          MaxTime       \* bound: the clock

ASSUME RateAssumption ==
    /\ Loopback \subseteq Peers /\ Proxies \subseteq Peers /\ NoHeader \notin Peers
    /\ TrustProxy \in BOOLEAN
    /\ MaxRequests \in Nat \ {0} /\ Window \in Nat \ {0} /\ MaxTime \in Nat
    /\ MaxDelay \in 0..Window

VARIABLES clock,
          clients,     \* clients_, from addresses to deques of stamps
          last_sweep,  \* last_sweep_, Unset before the first
          pc, ip, now, \* where each thread is in check, and its arguments
          admitted, exempted, refused

vars == <<clock, clients, last_sweep, pc, ip, now, admitted, exempted, refused>>

Unset == -1

Init == /\ clock = 0 /\ last_sweep = Unset
        /\ clients = [p \in {} |-> << >>]
        /\ pc = [t \in Threads |-> "idle"]
        /\ ip = [t \in Threads |-> NoHeader] /\ now = [t \in Threads |-> 0]
        /\ admitted = [p \in Peers |-> << >>] /\ exempted = {} /\ refused = FALSE

-----------------------------------------------------------------------------

\* get_client_ip: the header counts only if it comes from a trusted proxy.
ClientIp(peer, forwarded) ==
    IF TrustProxy /\ peer \in Proxies /\ forwarded # NoHeader THEN forwarded ELSE peer

\* Mutant: nothing leaves the deque.
AllStamps(s, cutoff) == s

\* A deque after pop_front has removed what is outside the window.
InWindow(s, cutoff) == LET i == SelectInSeq(s, LAMBDA r : r >= cutoff)
                       IN  IF i = 0 THEN << >> ELSE SubSeq(s, i, Len(s))

Tick == /\ clock < MaxTime
        /\ \A t \in Threads : pc[t] = "waits" => clock - now[t] < MaxDelay
        /\ clock' = clock + 1
        /\ UNCHANGED <<clients, last_sweep, pc, ip, now, admitted, exempted, refused>>

\* doFilter of a request whose TCP peer is the host itself: it goes on without
\* check, and before X-Forwarded-For is read.  Its client is then the one a
\* trusted proxy on this host names.
LetThrough == /\ \E peer \in Loopback, forwarded \in Peers \cup {NoHeader} :
                    exempted' = exempted \cup {ClientIp(peer, forwarded)}
              /\ UNCHANGED <<clock, clients, last_sweep, pc, ip, now, admitted, refused>>

\* doFilter of any other request, up to the reading of the clock.
Enter(t) == /\ pc[t] = "idle"
            /\ \E peer \in Peers \ Loopback, forwarded \in Peers \cup {NoHeader} :
                  ip' = [ip EXCEPT ![t] = ClientIp(peer, forwarded)]
            /\ pc' = [pc EXCEPT ![t] = "waits"] /\ now' = [now EXCEPT ![t] = clock]
            /\ UNCHANGED <<clock, clients, last_sweep, admitted, exempted, refused>>

\* Mutant: a record goes when its oldest request is outside the window.
OldestGone(s, cutoff) == s = << >> \/ Head(s) < cutoff

Idle(s, cutoff) == s = << >> \/ Last(s) < cutoff

\* evict_stale
Kept(cutoff) == {p \in DOMAIN clients : ~Idle(clients[p], cutoff)}

\* Mutant: the sweep comes only in the second window after the last.
SweepLater(n) == last_sweep = Unset \/ n - last_sweep > 2 * Window

SweepDue(n) == last_sweep = Unset \/ n - last_sweep >= Window

\* The clients after the sweep, with a record of the client p.
Records(p, n) == LET kept == IF SweepDue(n) THEN Kept(n - Window) ELSE DOMAIN clients
                 IN  [q \in kept \cup {p} |->
                         IF q \in kept THEN clients[q] ELSE << >>]

Full(s) == Len(s) >= MaxRequests

Check(t) ==
    /\ pc[t] = "waits"
    /\ LET p       == ip[t]
           records == Records(p, now[t])
           stamps  == InWindow(records[p], now[t] - Window)
       IN  /\ refused' = Full(stamps)
           /\ \/ /\ Full(stamps)
                 /\ clients' = [records EXCEPT ![p] = stamps]
                 /\ UNCHANGED admitted
              \/ /\ ~Full(stamps)
                 /\ clients' = [records EXCEPT ![p] = Append(stamps, now[t])]
                 /\ admitted' = [admitted EXCEPT ![p] =
                        Append(@, [received |-> now[t], passed |-> clock])]
    /\ last_sweep' = IF SweepDue(now[t]) THEN now[t] ELSE last_sweep
    /\ pc' = [pc EXCEPT ![t] = "idle"] /\ ip' = [ip EXCEPT ![t] = NoHeader]
    /\ now' = [now EXCEPT ![t] = 0]
    /\ UNCHANGED <<clock, exempted>>

Next == Tick \/ LetThrough \/ \E t \in Threads : Enter(t) \/ Check(t)

Spec == Init /\ [][Next]_vars

-----------------------------------------------------------------------------
(* What a sliding window promises.                                         *)

\* Of MaxRequests + 1 requests of a client that check let through one after the
\* other, one was received more than a window before the last was let through.
WithinLimit(p) ==
    \A i, j \in DOMAIN admitted[p] :
        j - i >= MaxRequests =>
            \E k \in i..j : admitted[p][k].received < admitted[p][j].passed - Window

\* However requests overtake each other between clock and mutex, and whatever the
\* sweep removes: no client has more than MaxRequests in a row both received and let
\* through in one window.  A client whose requests, or some of them, come over the
\* loopback interface is excepted, since those are not counted at all; with a trusted
\* proxy on this host (trusted_proxies is 127.0.0.1,::1 by default) that is every
\* client behind it, although inzyght.conf.example:219-228 has their
\* X-Forwarded-For "honoured" for limiting them.
NeverTooMany == \A p \in Peers \ exempted : WithinLimit(p)

\* A request is refused only if MaxRequests others of its client were let through
\* since its window began.
RefusesOnlyFull ==
    [][\A t \in Threads :
          pc[t] = "waits" /\ pc'[t] = "idle" /\ refused' =>
             LET past == admitted[ip[t]]
             IN  /\ Len(past) >= MaxRequests
                 /\ \A i \in (Len(past) - MaxRequests + 1)..Len(past) :
                        past[i].passed >= now[t] - Window]_vars

\* The map does not keep idle clients for long: after a check every one in it had a
\* request less than two windows before.  Two, not one: RateLimiter.cc:113-114 says
\* that "an idle IP doesn't linger past one window" and RateLimiter.h:15-16 that "a
\* record is dropped as soon as its last request falls outside the window", but the
\* sweep runs once per window, and only when a request comes.
IdleClientsGo ==
    [][\A t \in Threads :
          pc[t] = "waits" /\ pc'[t] = "idle" =>
             \A p \in DOMAIN clients' : Last(clients'[p]) > now[t] - 2 * Window]_vars
=============================================================================
