-------------------------- MODULE CircuitBreaker ---------------------------
(***************************************************************************)
(* YClientsClient._request (app/services/yclients_client.py): the calls    *)
(* that share one client of one process, its loop on HTTP 429 and its      *)
(* circuit breaker on consecutive HTTP 5xx.                                *)
(*                                                                         *)
(* Time appears as the rest of the pause.  The 5xx counter, which the code *)
(* compares with the threshold only, is counted up to that threshold.      *)
(***************************************************************************)
EXTENDS Integers, Sequences

CONSTANTS
    Calls,      \* callers that may be in _request at the same time
    Threshold,  \* consecutive 5xx that open the circuit: 3
    Pause,      \* ticks the circuit stays open: 300 seconds
    MaxSends    \* requests of one call: 5

ASSUME CircuitAssumption ==
    /\ Threshold \in Nat \ {0}
    /\ Pause \in Nat \ {0}
    /\ MaxSends \in Nat \ {0}

VARIABLES
    counter,   \* _consecutive_5xx
    pause,     \* what is left until _circuit_open_until, 0 when it has passed
    pc,        \* where each call is
    sends,     \* requests the call has sent
    result,    \* how the latest call ended
    recent,    \* history: the latest answers other than 429, oldest first
    caught,    \* history: calls in flight when the present pause began
    strays     \* history: requests each call sent during the present pause

breaker == <<counter, pause>>
hist    == <<recent, caught, strays>>
vars    == <<breaker, pc, sends, result, hist>>

Open == pause > 0

(* Outside _request, waiting for an answer, or sleeping after a 429.       *)
Steps == {"idle", "inflight", "backoff"}

(* A definite answer "ok" or "client" (4xx); YClientsAPIError after a 5xx  *)
(* ("server") or after the last 429 ("limited"); CircuitBreakerOpen at the *)
(* check ("refused") or after the 5xx that opened it ("opened"); an        *)
(* exception of the transport or a cancellation ("broken").                *)
Result ==
    {"none", "ok", "client", "server", "limited", "refused", "opened", "broken"}

Init ==
    /\ counter = 0
    /\ pause = 0
    /\ pc = [c \in Calls |-> "idle"]
    /\ sends = [c \in Calls |-> 0]
    /\ result = "none"
    /\ recent = <<>>
    /\ caught = {}
    /\ strays = [c \in Calls |-> 0]

----------------------------------------------------------------------------
(* A definition whose name has an underscore part, as Admits_Always, is a  *)
(* faulty variant of the definition that follows it, used to show that a   *)
(* property can fail.                                                      *)

InFlight == {c \in Calls : pc[c] # "idle"}

End(c, r) ==
    /\ pc' = [pc EXCEPT ![c] = "idle"]
    /\ sends' = [sends EXCEPT ![c] = 0]
    /\ result' = r

SendRequest(c) ==
    /\ pc' = [pc EXCEPT ![c] = "inflight"]
    /\ sends' = [sends EXCEPT ![c] = @ + 1]
    /\ strays' = IF Open THEN [strays EXCEPT ![c] = @ + 1] ELSE strays
    /\ UNCHANGED <<result, recent, caught>>

Remember(kind) ==
    recent' = IF Len(recent) < Threshold THEN Append(recent, kind)
                                         ELSE Append(Tail(recent), kind)

(* The check at the start of _request.                                     *)
Admits_Always == TRUE
Admits        == ~Open

(* The counter after one more 5xx, up to the threshold.                    *)
Counted_TooSoon == IF counter + 2 < Threshold THEN counter + 1 ELSE Threshold
Counted         == IF counter + 1 < Threshold THEN counter + 1 ELSE Threshold

(* A 429 is answered by another request as long as there are attempts.     *)
AttemptsLeft_Unlimited(c) == TRUE
AttemptsLeft(c)           == sends[c] < MaxSends

Begin(c) ==
    /\ pc[c] = "idle"
    /\ Admits
    /\ SendRequest(c)
    /\ UNCHANGED breaker

(* Faulty: a refused call counts as a failure.                             *)
Refused_Renews(c) ==
    /\ pc[c] = "idle"
    /\ ~Admits
    /\ pause' = Pause
    /\ End(c, "refused")
    /\ UNCHANGED <<counter, hist>>

Refused(c) ==
    /\ pc[c] = "idle"
    /\ ~Admits
    /\ End(c, "refused")
    /\ UNCHANGED <<breaker, hist>>

(* HTTP 429: the call sleeps, also after its last attempt.                 *)
Answer429(c) ==
    /\ pc[c] = "inflight"
    /\ pc' = [pc EXCEPT ![c] = "backoff"]
    /\ UNCHANGED <<breaker, sends, result, hist>>

(* The loop does not look at the circuit again.                            *)
SendAgain(c) ==
    /\ pc[c] = "backoff"
    /\ AttemptsLeft(c)
    /\ SendRequest(c)
    /\ UNCHANGED breaker

GiveUp(c) ==
    /\ pc[c] = "backoff"
    /\ ~AttemptsLeft(c)
    /\ End(c, "limited")
    /\ UNCHANGED <<breaker, hist>>

(* HTTP 5xx.  An answer that finds the circuit open renews the pause.      *)
Answer5xx(c) ==
    /\ pc[c] = "inflight"
    /\ counter' = Counted
    /\ IF counter' = Threshold
         THEN /\ pause' = Pause
              /\ End(c, "opened")
              /\ caught' = IF Open THEN caught ELSE InFlight \ {c}
         ELSE End(c, "server") /\ UNCHANGED <<pause, caught>>
    /\ Remember("5xx")
    /\ UNCHANGED strays

(* Any other answer resets the counter and leaves a running pause alone.   *)
Answer(c) ==
    /\ pc[c] = "inflight"
    /\ counter' = 0
    /\ \E r \in {"ok", "client"} : End(c, r)
    /\ Remember("other")
    /\ UNCHANGED <<pause, caught, strays>>

(* The connection fails, or the caller is cancelled where it waits.        *)
Break(c) ==
    /\ pc[c] # "idle"
    /\ End(c, "broken")
    /\ UNCHANGED <<breaker, hist>>

Tick ==
    /\ Open
    /\ pause' = pause - 1
    /\ IF pause = 1 THEN caught' = {} /\ strays' = [c \in Calls |-> 0]
                    ELSE UNCHANGED <<caught, strays>>
    /\ UNCHANGED <<counter, pc, sends, result, recent>>

Leave(c) ==
    GiveUp(c) \/ Answer5xx(c) \/ Answer(c) \/ Break(c) \/ Answer429(c) \/ SendAgain(c)

Next ==
    \/ \E c \in Calls : Begin(c) \/ Refused(c) \/ Leave(c)
    \/ Tick

Spec == Init /\ [][Next]_vars

(* Time passes, and a call comes to its end: the request has a timeout of  *)
(* 30 seconds and the sleeps are bounded.  Nobody has to call.             *)
Fairness == WF_vars(Tick) /\ \A c \in Calls : WF_vars(Leave(c))

FairSpec == Spec /\ Fairness

----------------------------------------------------------------------------
(* The type invariant.                                                     *)
TypeOK ==
    /\ counter \in 0 .. Threshold
    /\ pause \in 0 .. Pause
    /\ pc \in [Calls -> Steps]
    /\ sends \in [Calls -> 0 .. MaxSends]
    /\ result \in Result
    /\ recent \in Seq({"5xx", "other"}) /\ Len(recent) <= Threshold
    /\ caught \subseteq Calls
    /\ strays \in [Calls -> 0 .. MaxSends]
    /\ \A c \in Calls : pc[c] = "idle" <=> sends[c] = 0

(* What the pause spares YClients: while the circuit is open, requests     *)
(* come only from calls that were already past the check when it opened,   *)
(* and fewer of each than one call may send.                               *)
OnlyStrays ==
    \A c \in Calls :
        /\ c \notin caught => strays[c] = 0
        /\ strays[c] < MaxSends

(* The circuit reacts to the answers in the order they are processed, of   *)
(* whichever calls: a 5xx raises CircuitBreakerOpen and starts a full      *)
(* pause exactly if the latest Threshold answers other than 429 were 5xx.  *)
Answered(c, r) == pc[c] = "inflight" /\ pc'[c] = "idle" /\ result' \in r

OpensOnStreak ==
    [][ \A c \in Calls :
          Answered(c, {"server", "opened"}) =>
            (Answered(c, {"opened"}) /\ pause' = Pause
               <=> recent' = [i \in 1 .. Threshold |-> "5xx"]) ]_vars

(* However YClients answers, and however often the pause is renewed by     *)
(* answers that come late, YClients is tried again: the circuit closes.    *)
ClosesAgain == []<>~Open
=============================================================================
