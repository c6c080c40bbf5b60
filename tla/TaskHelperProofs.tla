---------------------------- MODULE TaskHelperProofs ----------------------------
(***************************************************************************)
(* One client of the helper lane, for any number of calls and helpers.     *)
(*                                                                         *)
(* First the tables of the client (HelperInv), which hold whatever the     *)
(* helpers answer: who waits for which request, and when a call is sent    *)
(* again.  Then where every request is, in the pipes and the tables of its *)
(* helper (PlacesInv), how many there are (Counts), what the calls are     *)
(* told (OutcomesInv), and the idle timer.                                 *)
(***************************************************************************)
EXTENDS TaskHelper, InductionLemmas, FiniteSetTheorems

-----------------------------------------------------------------------------
(* Types, as far as the proofs need them: outcomes are left open.           *)

Places == {"unborn", "waiting", "rejected", "settled"}

IsCall(d) == d \in [place: Places, request: Nat, attempt: {0, 1}, aborted: BOOLEAN,
                    outcome: {d.outcome}]

AreCalls(cs) == cs = [c \in Calls |-> cs[c]] /\ \A c \in Calls : IsCall(cs[c])

SentRequests == Seq([call: Calls, helper: Nat])

Clients == [current: Nat, spawned: Nat, lost: SUBSET Nat, pending: SUBSET Nat,
            unacked: SUBSET Nat, idleTimer: BOOLEAN,
            phase: {"open", "closing", "closed"}, closing: SUBSET Nat]

-----------------------------------------------------------------------------
(* The inductive invariant, of calls cs, requests rq and client cl.         *)

Types(cs, rq, cl) == AreCalls(cs) /\ rq \in SentRequests /\ cl \in Clients

(* Pending requests and waiting calls belong together.                      *)
Paired(cs, rq, cl) ==
  /\ cl.pending \subseteq cl.unacked /\ cl.unacked \subseteq DOMAIN rq
  /\ \A r \in cl.pending : /\ cs[rq[r].call].place = "waiting"
                           /\ cs[rq[r].call].request = r
  /\ \A c \in Calls : cs[c].place = "waiting" => cs[c].request \in cl.pending
  /\ \A c \in Calls : cs[c].place \in {"waiting", "rejected"} =>
       cs[c].request \in DOMAIN rq /\ rq[cs[c].request].call = c

(* The client owes nothing to a helper it has lost.                         *)
Attached(rq, cl) ==
  /\ \A r \in DOMAIN rq : rq[r].helper \in 1..cl.spawned
  /\ \A r \in cl.unacked : rq[r].helper \notin cl.lost
  /\ cl.lost \subseteq 1..cl.spawned /\ cl.closing \subseteq 1..cl.spawned
  /\ cl.current \in 0..cl.spawned /\ cl.current \notin cl.lost

(* A call in its first attempt has sent one request.                        *)
Repeats(cs, rq, cl) ==
  /\ \A j \in DOMAIN rq :
       /\ cs[rq[j].call].place # "unborn"
       /\ cs[rq[j].call].place \in {"waiting", "rejected"} /\ cs[rq[j].call].attempt = 0
            => cs[rq[j].call].request = j
  /\ \A i, j \in DOMAIN rq :
       i < j /\ rq[i].call = rq[j].call => rq[i].helper \in cl.lost

Fit(cs, rq, cl) ==
  Types(cs, rq, cl) /\ Paired(cs, rq, cl) /\ Attached(rq, cl) /\ Repeats(cs, rq, cl)

-----------------------------------------------------------------------------
(* The operators of the client.                                             *)

LEMMA RejectedFacts ==
  ASSUME NEW cs, AreCalls(cs), NEW rs, NEW o
  PROVE  /\ AreCalls(Rejected(cs, rs, o))
         /\ \A c \in Calls :
              /\ Rejected(cs, rs, o)[c].place =
                   IF cs[c].place = "waiting" /\ cs[c].request \in rs THEN "rejected"
                   ELSE cs[c].place
              /\ Rejected(cs, rs, o)[c].request = cs[c].request
              /\ Rejected(cs, rs, o)[c].attempt = cs[c].attempt
<1> DEFINE new == Rejected(cs, rs, o)
<1>1. ASSUME NEW c \in Calls
      PROVE  /\ IsCall(new[c])
             /\ new[c].place = IF cs[c].place = "waiting" /\ cs[c].request \in rs
                               THEN "rejected" ELSE cs[c].place
             /\ new[c].request = cs[c].request /\ new[c].attempt = cs[c].attempt
  <2>1. IsCall(cs[c])
    BY DEF AreCalls
  <2>2. CASE cs[c].place = "waiting" /\ cs[c].request \in rs
    <3>1. new[c] = [cs[c] EXCEPT !.place = "rejected", !.outcome = o]
      BY <2>2 DEF Rejected
    <3> QED  BY <2>1, <2>2, <3>1 DEF IsCall, Places
  <2>3. CASE ~(cs[c].place = "waiting" /\ cs[c].request \in rs)
    BY <2>1, <2>3 DEF Rejected
  <2> QED  BY <2>2, <2>3
<1>2. new = [c \in Calls |-> new[c]]
  BY DEF Rejected
<1> QED  BY <1>1, <1>2 DEF AreCalls

LEMMA SettledFacts ==
  ASSUME NEW cs, AreCalls(cs), NEW c \in Calls, NEW o
  PROVE  /\ AreCalls(Settled(cs, c, o))
         /\ Settled(cs, c, o)[c].place = "settled"
         /\ Settled(cs, c, o)[c].request = cs[c].request
         /\ Settled(cs, c, o)[c].attempt = cs[c].attempt
         /\ \A d \in Calls \ {c} : Settled(cs, c, o)[d] = cs[d]
<1> DEFINE new == Settled(cs, c, o)
<1>1. IsCall(cs[c]) /\ cs = [d \in Calls |-> cs[d]]
  BY DEF AreCalls
<1>2. /\ new[c] = [cs[c] EXCEPT !.place = "settled", !.outcome = o]
      /\ \A d \in Calls \ {c} : new[d] = cs[d]
      /\ new = [d \in Calls |-> new[d]]
  BY <1>1 DEF Settled
<1>3. /\ IsCall(new[c]) /\ new[c].place = "settled"
      /\ new[c].request = cs[c].request /\ new[c].attempt = cs[c].attempt
  BY <1>1, <1>2 DEF IsCall, Places
<1> QED  BY <1>2, <1>3 DEF AreCalls

Asked(d, r, attempt) == [d EXCEPT !.place = "waiting", !.request = r,
                                  !.attempt = attempt, !.outcome = "none"]

LEMMA AskedFacts ==
  ASSUME NEW d, IsCall(d), NEW r \in Nat, NEW attempt \in {0, 1}
  PROVE  /\ IsCall(Asked(d, r, attempt)) /\ Asked(d, r, attempt).place = "waiting"
         /\ Asked(d, r, attempt).request = r /\ Asked(d, r, attempt).attempt = attempt
<1> DEFINE e == Asked(d, r, attempt)
           O == {d.outcome, "none"}
<1>1. d \in [place: Places, request: Nat, attempt: {0, 1}, aborted: BOOLEAN,
             outcome: O]
  BY DEF IsCall
<1> HIDE DEF O
<1>2. "none" \in O
  BY DEF O
<1>3. /\ e \in [place: Places, request: Nat, attempt: {0, 1}, aborted: BOOLEAN,
                outcome: O]
      /\ e.place = "waiting" /\ e.request = r /\ e.attempt = attempt
  BY <1>1, <1>2 DEF Places, Asked
<1> HIDE DEF e
<1>4. IsCall(e)
  BY <1>3 DEF IsCall
<1> QED  BY <1>3, <1>4 DEF e

LEMMA ForgetFacts ==
  ASSUME NEW cl \in Clients, NEW rs
  PROVE  LET f == Forget(cl, rs)
         IN  /\ f \in Clients
             /\ f.pending = cl.pending \ rs /\ f.unacked = cl.unacked \ rs
             /\ f.lost = cl.lost /\ f.current = cl.current
             /\ f.spawned = cl.spawned /\ f.closing = cl.closing
             /\ f.phase = cl.phase /\ f.idleTimer = cl.idleTimer
BY DEF Forget, Clients

(* Giving up a helper the client has spawned, with the calls that wait for  *)
(* it; for one that is lost already there are none.                         *)
LEMMA GiveUpFacts ==
  ASSUME NEW cl \in Clients, NEW n \in 1..cl.spawned, Attached(request, cl),
         cl.pending \subseteq cl.unacked, cl.unacked \subseteq DOMAIN request
  PROVE  LET left == GiveUp(cl, n)
         IN  /\ left \in Clients
             /\ left.pending = cl.pending \ SentTo(n)
             /\ left.unacked = cl.unacked \ SentTo(n)
             /\ left.lost = cl.lost \cup {n}
             /\ left.spawned = cl.spawned /\ left.closing = cl.closing
             /\ left.phase = cl.phase
             /\ left.current \in {0, cl.current} \ {n}
             /\ n \notin cl.lost => left.idleTimer = Idle(left)
<1> DEFINE left == GiveUp(cl, n)
<1>1. CASE n \in cl.lost
  <2>1. left = cl
    BY <1>1 DEF GiveUp
  <2>2. \A r \in cl.unacked : r \notin SentTo(n)
    BY <1>1 DEF Attached, SentTo, HelperOf
  <2> QED  BY <1>1, <2>1, <2>2 DEF Attached
<1>2. CASE n \notin cl.lost
  <2> DEFINE mid == [Forget(cl, SentTo(n)) EXCEPT
                       !.current = IF @ = n THEN 0 ELSE @, !.lost = @ \cup {n}]
  <2>1. left = [mid EXCEPT !.idleTimer = Idle(mid)]
    BY <1>2 DEF GiveUp
  <2>2. /\ mid \in Clients
        /\ mid.pending = cl.pending \ SentTo(n)
        /\ mid.unacked = cl.unacked \ SentTo(n)
        /\ mid.lost = cl.lost \cup {n}
        /\ mid.spawned = cl.spawned /\ mid.closing = cl.closing
        /\ mid.phase = cl.phase
        /\ mid.current = IF cl.current = n THEN 0 ELSE cl.current
    <3> DEFINE f == Forget(cl, SentTo(n))
    <3>1. /\ f \in Clients
          /\ f.pending = cl.pending \ SentTo(n) /\ f.unacked = cl.unacked \ SentTo(n)
          /\ f.lost = cl.lost /\ f.current = cl.current
          /\ f.spawned = cl.spawned /\ f.closing = cl.closing /\ f.phase = cl.phase
      BY ForgetFacts
    <3>2. n \in Nat
      BY DEF Clients
    <3>3. mid = [f EXCEPT !.current = IF f.current = n THEN 0 ELSE f.current,
                          !.lost = f.lost \cup {n}]
      OBVIOUS
    <3> HIDE DEF mid, f
    <3> QED  BY <3>1, <3>2, <3>3 DEF Clients
  <2> HIDE DEF mid
  <2>3. Idle(mid) \in BOOLEAN
    BY DEF Idle
  <2>4. /\ left \in Clients /\ left.idleTimer = Idle(mid)
        /\ left.pending = mid.pending /\ left.unacked = mid.unacked
        /\ left.lost = mid.lost /\ left.spawned = mid.spawned
        /\ left.closing = mid.closing /\ left.phase = mid.phase
        /\ left.current = mid.current
    BY <2>1, <2>2, <2>3 DEF Clients
  <2>5. Idle(left) = Idle(mid)
    BY <2>4 DEF Idle
  <2> QED  BY <2>2, <2>4, <2>5
<1> QED  BY <1>1, <1>2

LEMMA RequestFacts ==
  ASSUME NEW rq \in SentRequests
  PROVE  /\ Len(rq) \in Nat /\ DOMAIN rq = 1..Len(rq)
         /\ \A r \in DOMAIN rq : rq[r].call \in Calls /\ rq[r].helper \in Nat
<1> DEFINE S == [call: Calls, helper: Nat]
<1>1. rq \in Seq(S)
  BY DEF SentRequests
<1> HIDE DEF S
<1>2. Len(rq) \in Nat /\ DOMAIN rq = 1..Len(rq) /\ \A r \in DOMAIN rq : rq[r] \in S
  BY <1>1
<1> QED  BY <1>2 DEF S

-----------------------------------------------------------------------------
(* What keeps the invariant.                                                *)

(* Some calls settle or are rejected, and their requests are forgotten.     *)
LEMMA LeavingFit ==
  ASSUME NEW cs, NEW rq, NEW cl, NEW cs2, NEW cl2, Fit(cs, rq, cl),
         AreCalls(cs2), cl2 \in Clients, Attached(rq, cl2), cl.lost \subseteq cl2.lost,
         NEW rs, cl2.pending = cl.pending \ rs,
         cl2.pending \subseteq cl2.unacked, cl2.unacked \subseteq cl.unacked,
         \A c \in Calls :
           /\ cs2[c].request = cs[c].request /\ cs2[c].attempt = cs[c].attempt
           /\ IF cs[c].place = "waiting" /\ cs[c].request \in rs
                THEN cs2[c].place \in {"rejected", "settled"}
                ELSE \/ cs2[c].place = cs[c].place
                     \/ cs[c].place \in {"unborn", "rejected"} /\ cs2[c].place = "settled"
  PROVE  Fit(cs2, rq, cl2)
<1>1. Types(cs2, rq, cl2)
  BY DEF Fit, Types
<1>2. \A r \in DOMAIN rq : rq[r].call \in Calls
  BY RequestFacts DEF Fit, Types
<1>3. Paired(cs2, rq, cl2)
  <2>1. cl2.pending \subseteq cl2.unacked /\ cl2.unacked \subseteq DOMAIN rq
    BY DEF Fit, Paired
  <2>2. ASSUME NEW r \in cl2.pending
        PROVE  cs2[rq[r].call].place = "waiting" /\ cs2[rq[r].call].request = r
    <3>1. /\ r \in cl.pending /\ r \notin rs /\ r \in DOMAIN rq
      BY <2>1
    <3>2. cs[rq[r].call].place = "waiting" /\ cs[rq[r].call].request = r
      BY <3>1 DEF Fit, Paired
    <3> QED  BY <1>2, <3>1, <3>2
  <2>3. ASSUME NEW c \in Calls, cs2[c].place = "waiting" PROVE cs2[c].request \in cl2.pending
    <3>1. cs[c].place = "waiting" /\ cs[c].request \notin rs
      BY <2>3
    <3> QED  BY <3>1 DEF Fit, Paired
  <2>4. ASSUME NEW c \in Calls, cs2[c].place \in {"waiting", "rejected"}
        PROVE  cs2[c].request \in DOMAIN rq /\ rq[cs2[c].request].call = c
    <3>1. cs[c].place \in {"waiting", "rejected"}
      BY <2>4
    <3> QED  BY <3>1 DEF Fit, Paired
  <2> QED  BY <2>1, <2>2, <2>3, <2>4 DEF Paired
<1>4. Repeats(cs2, rq, cl2)
  <2>1. ASSUME NEW j \in DOMAIN rq
        PROVE  /\ cs2[rq[j].call].place # "unborn"
               /\ cs2[rq[j].call].place \in {"waiting", "rejected"}
                    /\ cs2[rq[j].call].attempt = 0 => cs2[rq[j].call].request = j
    <3> DEFINE c == rq[j].call
    <3>1. c \in Calls
      BY <1>2
    <3>2. /\ cs[c].place # "unborn"
          /\ cs[c].place \in {"waiting", "rejected"} /\ cs[c].attempt = 0
               => cs[c].request = j
      BY DEF Fit, Repeats
    <3> HIDE DEF c
    <3>3. /\ cs2[c].place # "unborn"
          /\ cs2[c].place \in {"waiting", "rejected"} /\ cs2[c].attempt = 0
               => cs2[c].request = j
      BY <3>1, <3>2
    <3> QED  BY <3>3 DEF c
  <2>2. \A i, j \in DOMAIN rq :
          i < j /\ rq[i].call = rq[j].call => rq[i].helper \in cl2.lost
    BY DEF Fit, Repeats
  <2> QED  BY <2>1, <2>2 DEF Repeats
<1> QED  BY <1>1, <1>3, <1>4 DEF Fit

(* A helper is given up, with the calls that wait for it.                   *)
LEMMA GivenUpFit ==
  ASSUME NEW cs, NEW cl, Fit(cs, request, cl), NEW n \in 1..cl.spawned, NEW o
  PROVE  Fit(Rejected(cs, SentTo(n), o), request, GiveUp(cl, n))
<1> DEFINE left == GiveUp(cl, n)
           new == Rejected(cs, SentTo(n), o)
<1>1. /\ cl \in Clients /\ Attached(request, cl) /\ AreCalls(cs)
      /\ cl.pending \subseteq cl.unacked /\ cl.unacked \subseteq DOMAIN request
  BY DEF Fit, Types, Paired
<1>2. /\ left \in Clients
      /\ left.pending = cl.pending \ SentTo(n)
      /\ left.unacked = cl.unacked \ SentTo(n)
      /\ left.lost = cl.lost \cup {n}
      /\ left.spawned = cl.spawned /\ left.closing = cl.closing
      /\ left.current \in {0, cl.current} \ {n}
  BY <1>1, GiveUpFacts
<1>3. /\ AreCalls(new)
      /\ \A c \in Calls :
           /\ new[c].place = IF cs[c].place = "waiting" /\ cs[c].request \in SentTo(n)
                             THEN "rejected" ELSE cs[c].place
           /\ new[c].request = cs[c].request /\ new[c].attempt = cs[c].attempt
  BY <1>1, RejectedFacts
<1>4. Attached(request, left)
  <2>1. \A r \in left.unacked : request[r].helper \notin left.lost
    BY <1>1, <1>2 DEF Attached, SentTo, HelperOf
  <2>2. cl.spawned \in Nat
    BY <1>1 DEF Clients
  <2>3. left.current \in 0..left.spawned /\ left.current \notin left.lost
    BY <1>1, <1>2, <2>2 DEF Attached
  <2> QED  BY <1>1, <1>2, <2>1, <2>3 DEF Attached
<1> HIDE DEF left, new
<1>5. left.pending \subseteq left.unacked /\ left.unacked \subseteq cl.unacked
  BY <1>1, <1>2
<1>6. Fit(new, request, left)
  BY <1>2, <1>3, <1>4, <1>5, LeavingFit
<1> QED  BY <1>6 DEF new, left

(* A call is sent, for the first time or after the helper of its first      *)
(* request is lost.                                                         *)
LEMMA SentFit ==
  ASSUME NEW cs, NEW cl, Fit(cs, request, cl), NEW c \in Calls,
         cs[c].place \in {"unborn", "rejected"},
         NEW attempt \in {0, 1}, attempt = 0 => cs[c].place = "unborn",
         \A j \in DOMAIN request : request[j].call = c => request[j].helper \in cl.lost,
         ExecuteOnce(c, attempt, cl, cs)
  PROVE  Fit(call', request', client')
<1> DEFINE n == IF Reusable(cl) THEN cl.current ELSE cl.spawned + 1
           r == Len(request) + 1
           ready == [cl EXCEPT !.current = n, !.idleTimer = FALSE,
                               !.spawned = IF n > @ THEN n ELSE @]
<1>1. /\ cl \in Clients /\ AreCalls(cs) /\ request \in SentRequests
      /\ Attached(request, cl) /\ Paired(cs, request, cl) /\ Repeats(cs, request, cl)
  BY DEF Fit, Types
<1>2. n \in Nat \ {0} /\ n \notin cl.lost /\ cl.spawned \in Nat
  <2>1. cl.spawned \in Nat /\ cl.current \in Nat
    BY <1>1 DEF Clients
  <2> QED  BY <1>1, <2>1 DEF Attached, Reusable
<1>3. /\ ready \in Clients /\ ready.pending = cl.pending /\ ready.unacked = cl.unacked
      /\ ready.lost = cl.lost /\ ready.closing = cl.closing
      /\ ready.current = n /\ ready.spawned = IF n > cl.spawned THEN n ELSE cl.spawned
  <2> HIDE DEF n
  <2> QED  BY <1>1, <1>2 DEF Clients
<1>4. Attached(request, ready)
  <2> HIDE DEF ready
  <2>1. n \in 0..ready.spawned /\ cl.spawned <= ready.spawned /\ ready.spawned \in Nat
    <3> HIDE DEF n
    <3> QED  BY <1>2, <1>3
  <2> HIDE DEF n
  <2> QED  BY <1>1, <1>2, <1>3, <2>1 DEF Attached
<1>5. CASE c \in Oversized
  <2>1. client' = ready /\ call' = Settled(cs, c, "tooLarge") /\ request' = request
    BY <1>5 DEF ExecuteOnce
  <2> HIDE DEF ready, n, r
  <2>2. /\ AreCalls(call') /\ call'[c].place = "settled"
        /\ call'[c].request = cs[c].request /\ call'[c].attempt = cs[c].attempt
        /\ \A d \in Calls \ {c} : call'[d] = cs[d]
    BY <1>1, <2>1, SettledFacts
  <2>3. ready.pending = cl.pending \ {} /\ ready.pending \subseteq ready.unacked
        /\ ready.unacked \subseteq cl.unacked /\ cl.lost \subseteq ready.lost
    BY <1>1, <1>3 DEF Paired
  <2>4. Fit(call', request, ready)
    <3> DEFINE forgotten == {}
    <3>1. /\ ready.pending = cl.pending \ forgotten
          /\ \A d \in Calls :
             /\ call'[d].request = cs[d].request /\ call'[d].attempt = cs[d].attempt
             /\ IF cs[d].place = "waiting" /\ cs[d].request \in forgotten
                  THEN call'[d].place \in {"rejected", "settled"}
                  ELSE \/ call'[d].place = cs[d].place
                       \/ cs[d].place \in {"unborn", "rejected"} /\ call'[d].place = "settled"
      BY <2>2, <2>3
    <3> HIDE DEF forgotten
    <3> QED  BY <1>3, <1>4, <2>2, <2>3, <3>1, LeavingFit
  <2> QED  BY <2>1, <2>4
<1>6. CASE c \notin Oversized
  <2> DEFINE to == [ready EXCEPT !.pending = @ \cup {r}, !.unacked = @ \cup {r}]
             new == [cs EXCEPT ![c] = [@ EXCEPT !.place = "waiting", !.request = r,
                                         !.attempt = attempt, !.outcome = "none"]]
             rq == Append(request, [call |-> c, helper |-> n])
  <2>1. client' = to /\ call' = new /\ request' = rq
    BY <1>6 DEF ExecuteOnce
  <2>2. /\ r \in Nat /\ r \notin DOMAIN request /\ \A j \in DOMAIN request : j < r
        /\ DOMAIN request \subseteq Nat
    BY <1>1, RequestFacts
  <2>3. /\ rq \in SentRequests /\ DOMAIN rq = DOMAIN request \cup {r}
        /\ rq[r].call = c /\ rq[r].helper = n
        /\ \A j \in DOMAIN request : rq[j] = request[j]
    <3> DEFINE e == [call |-> c, helper |-> n]
               S == [call: Calls, helper: Nat]
    <3>1. e \in S /\ e.call = c /\ e.helper = n
      BY <1>2
    <3>2. request \in Seq(S)
      BY <1>1 DEF SentRequests
    <3> HIDE DEF e, S, n
    <3>3. /\ Append(request, e) \in Seq(S)
          /\ DOMAIN Append(request, e) = DOMAIN request \cup {r}
          /\ Append(request, e)[r] = e
          /\ \A j \in DOMAIN request : Append(request, e)[j] = request[j]
      BY <3>1, <3>2
    <3>4. rq = Append(request, e)
      BY DEF e
    <3> QED  BY <3>1, <3>3, <3>4 DEF SentRequests, S
  <2>4. /\ AreCalls(new) /\ new[c].place = "waiting" /\ new[c].request = r
        /\ new[c].attempt = attempt /\ \A d \in Calls \ {c} : new[d] = cs[d]
    <3>1. IsCall(cs[c]) /\ cs = [d \in Calls |-> cs[d]]
      BY <1>1 DEF AreCalls
    <3> DEFINE mine == Asked(cs[c], r, attempt)
    <3>2. /\ IsCall(mine) /\ mine.place = "waiting" /\ mine.request = r
          /\ mine.attempt = attempt
      <4> HIDE DEF r
      <4> QED  BY <2>2, <3>1, AskedFacts
    <3>3. new[c] = mine /\ (\A d \in Calls \ {c} : new[d] = cs[d])
          /\ new = [d \in Calls |-> new[d]]
      BY <3>1 DEF Asked
    <3> HIDE DEF mine, new
    <3> QED  BY <1>1, <3>2, <3>3 DEF AreCalls
  <2>5. /\ to \in Clients /\ to.pending = cl.pending \cup {r}
        /\ to.unacked = cl.unacked \cup {r} /\ to.lost = ready.lost
        /\ to.closing = ready.closing /\ to.current = ready.current
        /\ to.spawned = ready.spawned
    <3> HIDE DEF ready
    <3> QED  BY <1>3, <2>2 DEF Clients
  <2> HIDE DEF to, new, rq, ready, r, n
  <2>6. Attached(rq, to)
    <3>1. n \in 1..ready.spawned
      BY <1>2, <1>3, <1>4 DEF Attached, Clients
    <3>2. \A j \in DOMAIN request : request[j].helper \in 1..ready.spawned
      BY <1>4 DEF Attached
    <3> QED  BY <1>1, <1>2, <1>3, <1>4, <2>3, <2>5, <3>1, <3>2 DEF Attached, Paired
  <2>7. Paired(new, rq, to)
    <3>1. to.pending \subseteq to.unacked /\ to.unacked \subseteq DOMAIN rq
      BY <1>1, <2>3, <2>5 DEF Paired
    <3>2. ASSUME NEW j \in to.pending
          PROVE  new[rq[j].call].place = "waiting" /\ new[rq[j].call].request = j
      <4>1. CASE j = r
        BY <2>3, <2>4, <4>1
      <4>2. CASE j # r
        <5>1. j \in cl.pending /\ j \in DOMAIN request /\ rq[j] = request[j]
          BY <1>1, <2>3, <2>5, <4>2 DEF Paired
        <5>2. cs[rq[j].call].place = "waiting" /\ cs[rq[j].call].request = j
          BY <1>1, <5>1 DEF Paired
        <5>3. rq[j].call \in Calls \ {c}
          BY <1>1, <5>1, <5>2, RequestFacts
        <5> QED  BY <2>4, <5>2, <5>3
      <4> QED  BY <4>1, <4>2
    <3>3. ASSUME NEW d \in Calls, new[d].place \in {"waiting", "rejected"}
          PROVE  /\ new[d].place = "waiting" => new[d].request \in to.pending
                 /\ new[d].request \in DOMAIN rq /\ rq[new[d].request].call = d
      <4>1. CASE d = c
        BY <2>3, <2>4, <2>5, <4>1
      <4>2. CASE d # c
        <5>1. new[d] = cs[d]
          BY <2>4, <4>2
        <5> QED  BY <1>1, <2>3, <2>5, <3>3, <5>1 DEF Paired
      <4> QED  BY <4>1, <4>2
    <3> QED  BY <3>1, <3>2, <3>3 DEF Paired
  <2>8. Repeats(new, rq, to)
    <3>1. ASSUME NEW j \in DOMAIN rq
          PROVE  /\ new[rq[j].call].place # "unborn"
                 /\ new[rq[j].call].place \in {"waiting", "rejected"}
                      /\ new[rq[j].call].attempt = 0 => new[rq[j].call].request = j
      <4>1. CASE j = r
        BY <2>3, <2>4, <4>1
      <4>2. CASE j # r /\ rq[j].call # c
        BY <1>1, <2>3, <2>4, <4>2, RequestFacts DEF Repeats
      <4>3. CASE j # r /\ rq[j].call = c
        <5>1. cs[c].place # "unborn"
          BY <1>1, <2>3, <4>3 DEF Repeats
        <5>2. attempt = 1
          BY <5>1
        <5> QED  BY <2>4, <4>3, <5>2
      <4> QED  BY <4>1, <4>2, <4>3
    <3>2. ASSUME NEW i \in DOMAIN rq, NEW j \in DOMAIN rq, i < j, rq[i].call = rq[j].call
          PROVE  rq[i].helper \in to.lost
      <4>1. i \in DOMAIN request
        BY <2>2, <2>3, <3>2
      <4>2. CASE j = r
        BY <1>3, <2>3, <2>5, <3>2, <4>1, <4>2
      <4>3. CASE j # r
        BY <1>1, <1>3, <2>3, <2>5, <3>2, <4>1, <4>3 DEF Repeats
      <4> QED  BY <4>2, <4>3
    <3> QED  BY <3>1, <3>2 DEF Repeats
  <2> QED  BY <2>1, <2>3, <2>4, <2>5, <2>6, <2>7, <2>8 DEF Fit, Types
<1> QED  BY <1>5, <1>6

-----------------------------------------------------------------------------
(* The steps.                                                               *)

HelperInv == Fit(call, request, client)

LEMMA InvFacts ==
  ASSUME HelperInv
  PROVE  /\ AreCalls(call) /\ request \in SentRequests /\ client \in Clients
         /\ Paired(call, request, client) /\ Attached(request, client)
         /\ Repeats(call, request, client)
BY DEF HelperInv, Fit, Types

(* The end of a call that waits for nothing any more.                       *)
LEMMA SettledFit ==
  ASSUME HelperInv, NEW c \in Calls, call[c].place \in {"unborn", "rejected"}, NEW o,
         call' = Settled(call, c, o), UNCHANGED <<request, client>>
  PROVE  HelperInv'
<1> DEFINE forgotten == {}
<1>1. /\ AreCalls(call') /\ call'[c].place = "settled"
      /\ call'[c].request = call[c].request /\ call'[c].attempt = call[c].attempt
      /\ \A d \in Calls \ {c} : call'[d] = call[d]
  BY InvFacts, SettledFacts
<1>2. /\ client.pending = client.pending \ forgotten
      /\ client.pending \subseteq client.unacked
      /\ \A d \in Calls :
           /\ call'[d].request = call[d].request /\ call'[d].attempt = call[d].attempt
           /\ IF call[d].place = "waiting" /\ call[d].request \in forgotten
                THEN call'[d].place \in {"rejected", "settled"}
                ELSE \/ call'[d].place = call[d].place
                     \/ call[d].place \in {"unborn", "rejected"}
                          /\ call'[d].place = "settled"
  BY <1>1, InvFacts DEF Paired
<1> HIDE DEF forgotten
<1>3. Fit(call', request, client)
  BY <1>1, <1>2, InvFacts, LeavingFit DEF HelperInv
<1> QED  BY <1>3 DEF HelperInv

LEMMA ExecuteFits ==
  ASSUME HelperInv, NEW c \in Calls, Execute(c)
  PROVE  HelperInv'
<1>1. CASE client.phase = "open"
  <2>1. call[c].place = "unborn" /\ ExecuteOnce(c, 0, client, call)
    BY <1>1 DEF Execute
  <2>2. \A j \in DOMAIN request : request[j].call # c
    BY <2>1, InvFacts DEF Repeats
  <2> QED  BY <2>1, <2>2, SentFit DEF HelperInv
<1>2. CASE client.phase # "open"
  BY <1>2, SettledFit DEF Execute
<1> QED  BY <1>1, <1>2

LEMMA RetryFits ==
  ASSUME HelperInv, NEW c \in Calls, Retry(c)
  PROVE  HelperInv'
<1>1. CASE MayRetry(c)
  <2> DEFINE failed == HelperOf(call[c].request)
             left == GiveUp(client, failed)
             cs == Rejected(call, SentTo(failed), call[c].outcome)
  <2>1. /\ call[c].place = "rejected" /\ call[c].attempt = 0
        /\ ExecuteOnce(c, call[c].attempt + 1, left, cs)
    BY <1>1 DEF Retry, MayRetry
  <2>2. ExecuteOnce(c, 1, left, cs)
    BY <2>1
  <2>3. call[c].request \in DOMAIN request /\ failed \in 1..client.spawned
    BY <2>1, InvFacts DEF Paired, Attached, HelperOf
  <2>4. Fit(cs, request, left)
    <3> HIDE DEF failed
    <3> QED  BY <2>3, GivenUpFit DEF HelperInv
  <2>5. cs[c].place = "rejected"
    BY <2>1, InvFacts, RejectedFacts
  <2>6. failed \in left.lost
    <3> HIDE DEF failed
    <3> QED  BY <2>3, InvFacts, GiveUpFacts DEF Paired
  <2>7. \A j \in DOMAIN request : request[j].call = c => request[j].helper \in left.lost
    BY <2>1, <2>6, InvFacts DEF Repeats, HelperOf
  <2> HIDE DEF left, cs
  <2> QED  BY <2>2, <2>4, <2>5, <2>7, SentFit DEF HelperInv
<1>2. CASE ~MayRetry(c)
  BY <1>2, SettledFit DEF Retry
<1> QED  BY <1>1, <1>2

LEMMA LoseFits ==
  ASSUME HelperInv, NEW n \in 1..client.spawned, NEW o, Lose(n, o)
  PROVE  HelperInv'
BY GivenUpFit DEF Lose, HelperInv

(* The request r is over for its call, which settles or is rejected.        *)
LEMMA RequestOverFits ==
  ASSUME HelperInv, NEW r, request' = request, AreCalls(call'), client' \in Clients,
         client'.pending = client.pending \ {r},
         client'.unacked \in {client.unacked, client.unacked \ {r}},
         /\ client'.lost = client.lost /\ client'.spawned = client.spawned
         /\ client'.closing = client.closing /\ client'.current = client.current,
         \A c \in Calls :
           /\ call'[c].request = call[c].request /\ call'[c].attempt = call[c].attempt
           /\ IF r \in client.pending /\ request[r].call = c
                THEN call'[c].place \in {"rejected", "settled"}
                ELSE call'[c].place = call[c].place
  PROVE  HelperInv'
<1>1. Attached(request, client')
  BY InvFacts DEF Attached
<1>2. client'.pending \subseteq client'.unacked /\ client'.unacked \subseteq client.unacked
  BY InvFacts DEF Paired
<1>3. \A c \in Calls : (call[c].place = "waiting" /\ call[c].request \in {r})
                         <=> (r \in client.pending /\ request[r].call = c)
  BY InvFacts DEF Paired
<1> DEFINE rs == {r}
<1>4. /\ client'.pending = client.pending \ rs
      /\ client.lost \subseteq client'.lost
      /\ \A c \in Calls :
           /\ call'[c].request = call[c].request /\ call'[c].attempt = call[c].attempt
           /\ IF call[c].place = "waiting" /\ call[c].request \in rs
                THEN call'[c].place \in {"rejected", "settled"}
                ELSE \/ call'[c].place = call[c].place
                     \/ call[c].place \in {"unborn", "rejected"}
                          /\ call'[c].place = "settled"
  BY <1>3
<1> HIDE DEF rs
<1>5. Fit(call', request, client')
  BY <1>1, <1>2, <1>4, LeavingFit DEF HelperInv
<1> QED  BY <1>5 DEF HelperInv

LEMMA AbortFits ==
  ASSUME HelperInv, NEW c \in Calls, Abort(c)
  PROVE  HelperInv'
<1>0. AreCalls(call) /\ IsCall(call[c]) /\ call = [d \in Calls |-> call[d]]
  BY InvFacts DEF AreCalls
<1>1. CASE call[c].place = "rejected"
  <2>1. call' = [call EXCEPT ![c].aborted = TRUE] /\ UNCHANGED <<client, request>>
    BY <1>1 DEF Abort
  <2>2. /\ IsCall(call'[c]) /\ call'[c].place = call[c].place
        /\ call'[c].request = call[c].request /\ call'[c].attempt = call[c].attempt
    BY <1>0, <2>1 DEF IsCall
  <2>3. /\ call' = [d \in Calls |-> call'[d]]
        /\ \A d \in Calls \ {c} : call'[d] = call[d]
    BY <1>0, <2>1
  <2>4. AreCalls(call')
    BY <1>0, <2>2, <2>3 DEF AreCalls
  <2>5. \A d \in Calls : /\ call'[d].place = call[d].place
                         /\ call'[d].request = call[d].request
                         /\ call'[d].attempt = call[d].attempt
    BY <2>2, <2>3
  <2>6. \A j \in DOMAIN request : request[j].call \in Calls
    BY InvFacts, RequestFacts
  <2> QED  BY <2>1, <2>4, <2>5, <2>6, InvFacts DEF HelperInv, Fit, Types, Paired, Repeats
<1>2. CASE call[c].place = "waiting"
  <2> DEFINE r == call[c].request
             over == Settled(call, c, "aborted")
  <2>1. /\ call' = [over EXCEPT ![c].aborted = TRUE]
        /\ client' = [client EXCEPT !.pending = @ \ {r}] /\ request' = request
    BY <1>2 DEF Abort
  <2>2. /\ AreCalls(over) /\ over[c].place = "settled"
        /\ over[c].request = call[c].request /\ over[c].attempt = call[c].attempt
        /\ \A d \in Calls \ {c} : over[d] = call[d]
    BY InvFacts, SettledFacts
  <2> HIDE DEF over
  <2>3. IsCall(over[c]) /\ over = [d \in Calls |-> over[d]]
    BY <2>2 DEF AreCalls
  <2>4. /\ IsCall(call'[c]) /\ call'[c].place = "settled"
        /\ call'[c].request = over[c].request /\ call'[c].attempt = over[c].attempt
    BY <2>1, <2>2, <2>3 DEF IsCall
  <2>5. /\ call' = [d \in Calls |-> call'[d]]
        /\ \A d \in Calls \ {c} : call'[d] = over[d]
    BY <2>1, <2>3
  <2>6. AreCalls(call')
    BY <2>2, <2>4, <2>5 DEF AreCalls
  <2>7. r \in client.pending /\ request[r].call = c
    BY <1>2, InvFacts DEF Paired
  <2>8. /\ client' \in Clients /\ client'.pending = client.pending \ {r}
        /\ client'.unacked \in {client.unacked, client.unacked \ {r}}
        /\ client'.lost = client.lost /\ client'.spawned = client.spawned
        /\ client'.closing = client.closing /\ client'.current = client.current
    BY <2>1, InvFacts DEF Clients
  <2> HIDE DEF r
  <2>9. \A d \in Calls :
           /\ call'[d].request = call[d].request /\ call'[d].attempt = call[d].attempt
           /\ IF r \in client.pending /\ request[r].call = d
                THEN call'[d].place \in {"rejected", "settled"}
                ELSE call'[d].place = call[d].place
    BY <2>2, <2>4, <2>5, <2>7
  <2>10. request' = request
    BY <2>1
  <2> HIDE DEF HelperInv, r
  <2> QED  BY <2>6, <2>8, <2>9, <2>10, RequestOverFits, Zenon
<1> QED  BY <1>1, <1>2 DEF Abort

LEMMA WriteFailsFits ==
  ASSUME HelperInv, NEW r \in DOMAIN request, NEW o, WriteFails(r, o)
  PROVE  HelperInv'
<1>1. /\ client' = Forget(client, {r}) /\ call' = Rejected(call, {r}, o)
      /\ request' = request
  BY DEF WriteFails
<1>2. /\ AreCalls(call')
      /\ \A c \in Calls :
           /\ call'[c].place = IF call[c].place = "waiting" /\ call[c].request \in {r}
                               THEN "rejected" ELSE call[c].place
           /\ call'[c].request = call[c].request /\ call'[c].attempt = call[c].attempt
  BY <1>1, InvFacts, RejectedFacts
<1>3. \A c \in Calls : (call[c].place = "waiting" /\ call[c].request \in {r})
                         <=> (r \in client.pending /\ request[r].call = c)
  BY InvFacts DEF Paired
<1>4. \A c \in Calls :
        /\ call'[c].request = call[c].request /\ call'[c].attempt = call[c].attempt
        /\ IF r \in client.pending /\ request[r].call = c
             THEN call'[c].place \in {"rejected", "settled"}
             ELSE call'[c].place = call[c].place
  BY <1>2, <1>3
<1>5. /\ client' \in Clients /\ client'.pending = client.pending \ {r}
      /\ client'.unacked \in {client.unacked, client.unacked \ {r}}
      /\ client'.lost = client.lost /\ client'.spawned = client.spawned
      /\ client'.closing = client.closing /\ client'.current = client.current
  BY <1>1, InvFacts, ForgetFacts
<1>6. AreCalls(call') /\ request' = request
  BY <1>1, <1>2
<1> HIDE DEF HelperInv
<1> QED  BY <1>4, <1>5, <1>6, RequestOverFits, Zenon

LEMMA AnswerFits ==
  ASSUME HelperInv, NEW n \in Helpers, Answer(n)
  PROVE  HelperInv'
<1> DEFINE r == Head(pipeOut[n])[1]
           answer == Head(pipeOut[n])[2]
           left == Forget(client, {r})
           timer == left.idleTimer \/ Idle(left)
<1>1. /\ client' = [left EXCEPT !.idleTimer = timer]
      /\ call' = IF r \notin client.pending THEN call
                 ELSE IF answer = "retiring" THEN Rejected(call, {r}, answer)
                 ELSE Settled(call, request[r].call, answer)
      /\ request' = request
  BY DEF Answer
<1> HIDE DEF r, answer
<1>2. /\ client' \in Clients /\ client'.pending = client.pending \ {r}
      /\ client'.unacked \in {client.unacked, client.unacked \ {r}}
      /\ client'.lost = client.lost /\ client'.spawned = client.spawned
      /\ client'.closing = client.closing /\ client'.current = client.current
  <2>1. /\ left \in Clients
        /\ left.pending = client.pending \ {r} /\ left.unacked = client.unacked \ {r}
        /\ left.lost = client.lost /\ left.current = client.current
        /\ left.spawned = client.spawned /\ left.closing = client.closing
    BY InvFacts, ForgetFacts
  <2>2. timer \in BOOLEAN
    BY DEF Idle
  <2> HIDE DEF left, timer
  <2> QED  BY <1>1, <2>1, <2>2 DEF Clients
<1> HIDE DEF left, timer
<1>3. /\ AreCalls(call')
      /\ \A c \in Calls :
           /\ call'[c].request = call[c].request /\ call'[c].attempt = call[c].attempt
           /\ IF r \in client.pending /\ request[r].call = c
                THEN call'[c].place \in {"rejected", "settled"}
                ELSE call'[c].place = call[c].place
  <2>1. CASE r \notin client.pending
    BY <1>1, <2>1, InvFacts
  <2>2. CASE r \in client.pending /\ answer = "retiring"
    <3>1. \A c \in Calls : (call[c].place = "waiting" /\ call[c].request \in {r})
                             <=> (r \in client.pending /\ request[r].call = c)
      BY InvFacts DEF Paired
    <3>2. call' = Rejected(call, {r}, answer)
      BY <1>1, <2>2
    <3>3. /\ AreCalls(call')
          /\ \A c \in Calls :
               /\ call'[c].place =
                    IF call[c].place = "waiting" /\ call[c].request \in {r}
                    THEN "rejected" ELSE call[c].place
               /\ call'[c].request = call[c].request
               /\ call'[c].attempt = call[c].attempt
      BY <3>2, InvFacts, RejectedFacts
    <3> QED  BY <3>1, <3>3
  <2>3. CASE r \in client.pending /\ answer # "retiring"
    <3> DEFINE d == request[r].call
    <3>1. call' = Settled(call, d, answer)
      BY <1>1, <2>3
    <3>2. d \in Calls
      BY <2>3, InvFacts, RequestFacts DEF Paired
    <3> HIDE DEF d
    <3>3. /\ AreCalls(call') /\ call'[d].place = "settled"
          /\ call'[d].request = call[d].request /\ call'[d].attempt = call[d].attempt
          /\ \A c \in Calls \ {d} : call'[c] = call[c]
      BY <3>1, <3>2, InvFacts, SettledFacts
    <3> QED  BY <2>3, <3>2, <3>3 DEF d
  <2> QED  BY <2>1, <2>2, <2>3
<1>4. request' = request
  BY <1>1
<1> HIDE DEF HelperInv, r
<1> QED  BY <1>2, <1>3, <1>4, RequestOverFits, Zenon

(* disposeInternal, whose second half rejects all that is pending.          *)
LEMMA DisposeFits ==
  ASSUME HelperInv, DisposeBegin \/ DisposeEnd
  PROVE  HelperInv'
<1>0. client.spawned \in Nat /\ client.current \in Nat
  BY InvFacts DEF Clients
<1>1. CASE DisposeBegin
  <2> DEFINE those == {HelperOf(r) : r \in client.unacked} \cup client.lost
                        \cup ({client.current} \ {0})
  <2>1. /\ client' = [client EXCEPT !.phase = "closing", !.idleTimer = FALSE,
                                    !.closing = those]
        /\ UNCHANGED <<call, request>>
    BY <1>1 DEF DisposeBegin
  <2>2. those \subseteq 1..client.spawned
    BY <1>0, InvFacts DEF Attached, Paired, HelperOf
  <2> HIDE DEF those
  <2>3. those \in SUBSET Nat
    BY <2>2
  <2>4. /\ client' \in Clients
        /\ client'.pending = client.pending /\ client'.unacked = client.unacked
        /\ client'.lost = client.lost /\ client'.spawned = client.spawned
        /\ client'.closing = those /\ client'.current = client.current
    BY <2>1, <2>3, InvFacts DEF Clients
  <2> QED  BY <2>1, <2>2, <2>4, InvFacts
           DEF HelperInv, Fit, Types, Paired, Attached, Repeats
<1>2. CASE DisposeEnd
  <2> DEFINE gone == client.lost \cup client.closing
             rs == client.pending
  <2>1. /\ client' = [client EXCEPT !.phase = "closed", !.pending = {}, !.unacked = {},
                                    !.current = 0, !.lost = gone]
        /\ call' = Rejected(call, rs, "closed") /\ request' = request
    BY <1>2 DEF DisposeEnd
  <2>2. gone \subseteq 1..client.spawned /\ gone \in SUBSET Nat
    BY <1>0, InvFacts DEF Attached
  <2>3. client.lost \subseteq gone
    OBVIOUS
  <2> HIDE DEF gone, rs
  <2>4. /\ client' \in Clients /\ client'.pending = {} /\ client'.unacked = {}
        /\ client'.lost = gone /\ client'.spawned = client.spawned
        /\ client'.closing = client.closing /\ client'.current = 0
    <3> DEFINE half == [client EXCEPT !.phase = "closed", !.pending = {}, !.unacked = {}]
    <3>1. /\ half \in Clients /\ half.pending = {} /\ half.unacked = {}
          /\ half.spawned = client.spawned /\ half.closing = client.closing
      BY InvFacts DEF Clients
    <3>2. client' = [half EXCEPT !.current = 0, !.lost = gone]
      BY <2>1, Zenon
    <3> HIDE DEF half
    <3> QED  BY <2>2, <3>1, <3>2 DEF Clients
  <2>5. Attached(request, client')
    BY <1>0, <2>2, <2>4, InvFacts DEF Attached
  <2>6. /\ AreCalls(call')
        /\ \A c \in Calls :
             /\ call'[c].place = IF call[c].place = "waiting" /\ call[c].request \in rs
                                 THEN "rejected" ELSE call[c].place
             /\ call'[c].request = call[c].request /\ call'[c].attempt = call[c].attempt
    BY <2>1, InvFacts, RejectedFacts
  <2>7. /\ client'.pending = client.pending \ rs
        /\ client'.pending \subseteq client'.unacked
        /\ client'.unacked \subseteq client.unacked
        /\ client.lost \subseteq client'.lost
    BY <2>3, <2>4 DEF rs
  <2>8. Fit(call', request, client')
    BY <2>4, <2>5, <2>6, <2>7, LeavingFit DEF HelperInv
  <2> QED  BY <2>1, <2>8 DEF HelperInv
<1> QED  BY <1>1, <1>2

LEMMA InitFits == Init => HelperInv
<1> SUFFICES ASSUME Init PROVE HelperInv
  OBVIOUS
<1>1. AreCalls(call) /\ \A c \in Calls : call[c].place = "unborn"
  BY DEF Init, AreCalls, IsCall, Places
<1>2. request \in SentRequests /\ DOMAIN request = {}
  BY DEF Init, SentRequests
<1>3. client \in Clients
  BY DEF Init, Clients
<1> QED  BY <1>1, <1>2, <1>3 DEF Init, HelperInv, Fit, Types, Paired, Attached, Repeats

LEMMA NextFits == HelperInv /\ [Next]_vars => HelperInv'
<1> SUFFICES ASSUME HelperInv, [Next]_vars PROVE HelperInv'
  OBVIOUS
<1>0. client.spawned \in Nat
  BY InvFacts DEF Clients
<1>1. ASSUME NEW c \in Calls, Execute(c) \/ Retry(c) \/ Abort(c) PROVE HelperInv'
  BY <1>1, ExecuteFits, RetryFits, AbortFits
<1>2. ASSUME NEW r \in DOMAIN request, FallbackFires(r) PROVE HelperInv'
  <2>1. HelperOf(r) \in 1..client.spawned
    BY InvFacts DEF Attached, HelperOf
  <2> QED  BY <1>2, <2>1, LoseFits DEF FallbackFires
<1>3. ASSUME NEW r \in DOMAIN request, NEW o, WriteFails(r, o) PROVE HelperInv'
  BY <1>3, WriteFailsFits
<1>4. ASSUME NEW n, LossNoticed(n) PROVE HelperInv'
  BY <1>4, LoseFits DEF LossNoticed
<1>5. ASSUME NEW n, LateEvent(n) PROVE HelperInv'
  <2>1. client' = [client EXCEPT !.idleTimer = TRUE] /\ UNCHANGED <<call, request>>
    BY <1>5 DEF LateEvent
  <2>2. /\ client' \in Clients
        /\ client'.pending = client.pending /\ client'.unacked = client.unacked
        /\ client'.lost = client.lost /\ client'.spawned = client.spawned
        /\ client'.closing = client.closing /\ client'.current = client.current
    BY <2>1, InvFacts DEF Clients
  <2> QED  BY <2>1, <2>2, InvFacts
           DEF HelperInv, Fit, Types, Paired, Attached, Repeats
<1>6. CASE IdleRecycle
  <2>1. client.current \in 1..client.spawned
    BY <1>0, <1>6, InvFacts DEF IdleRecycle, Idle, Attached
  <2> QED  BY <1>6, <2>1, LoseFits DEF IdleRecycle
<1>7. ASSUME UNCHANGED <<call, request, client>> PROVE HelperInv'
  BY <1>7 DEF HelperInv
<1>8. ASSUME NEW n \in Helpers,
             \/ Read(n) \/ StdinCloses(n) \/ HelperDies(n) \/ PipeBreaks(n)
             \/ \E r \in DOMAIN request :
                  \/ Respond(n, r)
                  \/ \E w \in BOOLEAN : Release(n, r, w)
                  \/ QueueTimeout(n, r)
      PROVE  HelperInv'
  <2>1. UNCHANGED <<call, request, client>>
    BY <1>8 DEF Read, ReadRun, ReadCancel, StdinCloses, HelperDies, PipeBreaks,
                Respond, Release, QueueTimeout, Becomes
  <2> QED  BY <1>7, <2>1
<1>9. CASE UNCHANGED vars
  BY <1>7, <1>9 DEF vars
<1> QED  BY <1>1, <1>2, <1>3, <1>4, <1>5, <1>6, <1>8, <1>9, AnswerFits, DisposeFits
         DEF Next

LEMMA HelperCorrect == Spec => []HelperInv
BY InitFits, NextFits, PTL DEF Spec

(* No answer, loss, abort or disposal leaves a caller waiting for a request *)
(* the client has forgotten, or a request nobody waits for as pending.      *)
THEOREM NobodyForgotten == Spec => []WaitingIsPending
<1>1. HelperInv => WaitingIsPending
  <2> SUFFICES ASSUME HelperInv PROVE WaitingIsPending
    OBVIOUS
  <2>1. \A r \in client.pending : request[r].call \in Calls
    BY InvFacts, RequestFacts DEF Paired
  <2> QED  BY <2>1, InvFacts DEF Paired, WaitingIsPending
<1> QED  BY <1>1, HelperCorrect, PTL

(* A call is sent a second time only after its first helper is given up.    *)
THEOREM RepeatsFollowLoss == Spec => []RepeatOnlyAfterLoss
<1>1. HelperInv => RepeatOnlyAfterLoss
  BY InvFacts DEF Repeats, RepeatOnlyAfterLoss, HelperOf
<1> QED  BY <1>1, HelperCorrect, PTL

-----------------------------------------------------------------------------
(* What Purged leaves of a sequence.                                        *)

(* f has what is left of the first elements of q.                           *)
Purges(S, q, gone, f) ==
  /\ f \in [0..Len(q) -> Seq(S)]
  /\ f[0] = <<>> /\ f[Len(q)] = Purged(q, gone)
  /\ \A k \in 1..Len(q) :
       f[k] = IF q[k] \in gone THEN f[k - 1] ELSE Append(f[k - 1], q[k])

LEMMA PurgeSteps ==
  ASSUME NEW S, NEW q \in Seq(S), NEW gone
  PROVE  \E f : Purges(S, q, gone, f)
<1> DEFINE n == Len(q)
           T == Seq(S)
           one(t, x) == IF x \in gone THEN t ELSE Append(t, x)
           step == [p \in T \X (1..n) |-> one(p[1], q[p[2]])]
           Iter(f) == [s \in SUBSET (DOMAIN q) |->
                        IF s = {} THEN <<>> ELSE one(f[s \ {Max(s)}], q[Max(s)])]
           iter == CHOOSE f : f = Iter(f)
<1>1. Purged(q, gone) = iter[DOMAIN q]
  BY DEF Purged, FoldLeft, MapThenFoldSet
<1>2. n \in Nat /\ DOMAIN q = 1..n
  BY LenProperties
<1>3. \A t \in T, k \in 1..n : one(t, q[k]) \in T
  <2>1. \A k \in 1..n : q[k] \in S
    BY <1>2, ElementOfSeq
  <2> QED  BY <2>1, AppendProperties
<1>4. <<>> \in T
  BY EmptySeq
<1> HIDE DEF n, T, one
<1>5. step \in [T \X (1..n) -> T]
  BY <1>3
<1>6. PICK f : IsFold(T, <<>>, n, step, f)
  <2> HIDE DEF step
  <2> QED  BY <1>2, <1>4, <1>5, FoldExists
<1>7. ASSUME NEW s \in SUBSET (1..n), s # {}
      PROVE  f[s] = one(f[s \ {Max(s)}], q[Max(s)])
  <2>1. Max(s) \in s
    BY <1>2, <1>7, MaxOfNumbers
  <2>2. <<f[s \ {Max(s)}], Max(s)>> \in T \X (1..n)
    BY <1>6, <2>1 DEF IsFold
  <2> QED  BY <1>6, <1>7, <2>2 DEF IsFold
<1>8. f = Iter(f)
  BY <1>2, <1>6, <1>7 DEF IsFold
<1>9. iter = Iter(iter)
  <2> HIDE DEF Iter
  <2> QED  BY <1>8
<1> HIDE DEF iter
<1>10. iter[{}] = <<>> /\ \A s \in SUBSET (1..n) :
         s # {} => iter[s] = one(iter[s \ {Max(s)}], q[Max(s)])
  <2>1. \A s \in SUBSET (1..n) :
          iter[s] = IF s = {} THEN <<>> ELSE one(iter[s \ {Max(s)}], q[Max(s)])
    BY <1>2, <1>9
  <2> QED  BY <2>1
<1> HIDE DEF Iter
<1>11. ASSUME NEW s \in SUBSET (1..n), s # {}, iter[s \ {Max(s)}] \in T
       PROVE  iter[s] = step[<<iter[s \ {Max(s)}], Max(s)>>]
  <2>1. Max(s) \in s
    BY <1>2, <1>11, MaxOfNumbers
  <2>2. <<iter[s \ {Max(s)}], Max(s)>> \in T \X (1..n)
    BY <1>11, <2>1
  <2> QED  BY <1>10, <1>11, <2>2
<1>12. PICK g : IsChain(T, <<>>, n, step, iter, g)
  <2> HIDE DEF step
  <2>1. StepsDown(T, <<>>, n, step, iter)
    BY <1>10, <1>11 DEF StepsDown
  <2> QED  BY <1>2, <1>4, <1>5, <2>1, FoldChain
<1>13. /\ g \in [0..n -> T] /\ g[0] = <<>> /\ g[n] = Purged(q, gone)
       /\ \A k \in 1..n : g[k] = step[<<g[k - 1], k>>]
  BY <1>1, <1>2, <1>12 DEF IsChain
<1>14. ASSUME NEW k \in 1..n PROVE g[k] = one(g[k - 1], q[k])
  <2>1. <<g[k - 1], k>> \in T \X (1..n)
    <3>1. k - 1 \in 0..n
      BY <1>2
    <3> QED  BY <1>13, <3>1
  <2> QED  BY <1>13, <2>1
<1> QED  BY <1>13, <1>14 DEF Purges, n, T, one

LEMMA PurgedEmpty ==
  ASSUME NEW S, NEW gone
  PROVE  Purged(<<>>, gone) = <<>>
<1>1. <<>> \in Seq(S) /\ Len(<<>>) = 0
  BY EmptySeq
<1>2. PICK f : Purges(S, <<>>, gone, f)
  BY <1>1, PurgeSteps
<1> QED  BY <1>1, <1>2 DEF Purges

LEMMA PurgedAppend ==
  ASSUME NEW S, NEW q \in Seq(S), NEW e \in S, NEW gone
  PROVE  /\ Purged(q, gone) \in Seq(S)
         /\ Purged(Append(q, e), gone) =
              IF e \in gone THEN Purged(q, gone) ELSE Append(Purged(q, gone), e)
<1> DEFINE a == Append(q, e)
           l == Len(q)
<1>1. /\ a \in Seq(S) /\ Len(a) = l + 1 /\ l \in Nat
      /\ \A i \in 1..l : a[i] = q[i]
      /\ a[l + 1] = e
  BY AppendProperties, LenProperties
<1>2. PICK f : Purges(S, a, gone, f)
  BY <1>1, PurgeSteps
<1>3. PICK g : Purges(S, q, gone, g)
  BY PurgeSteps
<1> HIDE DEF a
<1>4. /\ f[0] = <<>> /\ f[l + 1] = Purged(a, gone)
      /\ \A k \in 1..(l + 1) :
           f[k] = IF a[k] \in gone THEN f[k - 1] ELSE Append(f[k - 1], a[k])
  BY <1>1, <1>2 DEF Purges
<1>5. /\ g[0] = <<>> /\ g[l] = Purged(q, gone) /\ g \in [0..l -> Seq(S)]
      /\ \A k \in 1..l :
           g[k] = IF q[k] \in gone THEN g[k - 1] ELSE Append(g[k - 1], q[k])
  BY <1>3 DEF Purges
<1> HIDE DEF l
<1>6. ASSUME NEW k \in 1..l, f[k - 1] = g[k - 1] PROVE f[k] = g[k]
  <2>1. k \in 1..(l + 1) /\ a[k] = q[k]
    BY <1>1
  <2> QED  BY <1>4, <1>5, <1>6, <2>1
<1>7. f[l] = g[l]
  <2>1. f[0] = g[0]
    BY <1>4, <1>5
  <2> QED  BY <1>1, <1>6, <2>1, SameSteps
<1>8. l + 1 \in 1..(l + 1) /\ l + 1 - 1 = l /\ l \in 0..l
  BY <1>1
<1>9. f[l + 1] = IF a[l + 1] \in gone THEN f[l] ELSE Append(f[l], a[l + 1])
  <2>1. PICK k : k = l + 1
    OBVIOUS
  <2>2. k \in 1..(l + 1) /\ k - 1 = l
    BY <1>8, <2>1
  <2>3. f[k] = IF a[k] \in gone THEN f[k - 1] ELSE Append(f[k - 1], a[k])
    BY <1>4, <2>2
  <2> QED  BY <2>1, <2>2, <2>3
<1> QED  BY <1>1, <1>4, <1>5, <1>7, <1>8, <1>9 DEF a

(* At most one place of q has an element of X.                              *)
Sole(q, X) == \A i, j \in DOMAIN q : q[i] \in X /\ q[j] \in X => i = j

LEMMA SoleAppend ==
  ASSUME NEW S, NEW q \in Seq(S), NEW e \in S, NEW X
  PROVE  Sole(Append(q, e), X) <=> Sole(q, X) /\ (e \in X => ToSet(q) \cap X = {})
<1> DEFINE a == Append(q, e)
           l == Len(q)
<1>1. /\ l \in Nat /\ a \in Seq(S) /\ Len(a) = l + 1
      /\ \A i \in 1..l : a[i] = q[i]
      /\ a[l + 1] = e
      /\ DOMAIN q = 1..l
  BY AppendProperties, LenProperties
<1>2. DOMAIN a = 1..(l + 1)
  BY <1>1, LenProperties
<1> HIDE DEF a, l
<1>3. DOMAIN a = (1..l) \cup {l + 1} /\ l + 1 \notin 1..l
  BY <1>1, <1>2
<1>4. ASSUME Sole(a, X) PROVE Sole(q, X) /\ (e \in X => ToSet(q) \cap X = {})
  BY <1>1, <1>3, <1>4 DEF Sole, ToSet
<1>5. ASSUME Sole(q, X), e \in X => ToSet(q) \cap X = {} PROVE Sole(a, X)
  BY <1>1, <1>3, <1>5 DEF Sole, ToSet
<1> QED  BY <1>4, <1>5 DEF a

(* Purging keeps the other elements and duplicates none.                    *)
LEMMA PurgedFacts ==
  ASSUME NEW S, NEW q \in Seq(S), NEW gone
  PROVE  /\ Purged(q, gone) \in Seq(S)
         /\ ToSet(Purged(q, gone)) = ToSet(q) \ gone
         /\ \A X : Sole(q, X) => Sole(Purged(q, gone), X)
<1> DEFINE Facts(s) == /\ Purged(s, gone) \in Seq(S)
                       /\ ToSet(Purged(s, gone)) = ToSet(s) \ gone
                       /\ \A X : Sole(s, X) => Sole(Purged(s, gone), X)
           P == {s \in Seq(S) : Facts(s)}
<1>1. <<>> \in P
  <2>1. Purged(<<>>, gone) = <<>> /\ <<>> \in Seq(S)
    BY PurgedEmpty, EmptySeq
  <2>2. ToSet(<<>>) = {}
    BY DEF ToSet
  <2> QED  BY <2>1, <2>2
<1>2. ASSUME NEW s \in Seq(S), NEW e \in S, s \in P PROVE Append(s, e) \in P
  <2> DEFINE p == Purged(s, gone)
             a == Append(s, e)
  <2>1. p \in Seq(S) /\ ToSet(p) = ToSet(s) \ gone /\ \A X : Sole(s, X) => Sole(p, X)
    BY <1>2
  <2>2. Purged(a, gone) = IF e \in gone THEN p ELSE Append(p, e)
    BY PurgedAppend
  <2>3. a \in Seq(S) /\ ToSet(a) = ToSet(s) \cup {e}
    BY ToSetAppend, AppendProperties
  <2> HIDE DEF p
  <2>4. Append(p, e) \in Seq(S) /\ ToSet(Append(p, e)) = ToSet(p) \cup {e}
    BY <2>1, ToSetAppend, AppendProperties
  <2>5. ASSUME NEW X, Sole(a, X) PROVE Sole(Purged(a, gone), X)
    <3>1. Sole(s, X) /\ (e \in X => ToSet(s) \cap X = {})
      BY <2>5, SoleAppend
    <3>2. Sole(p, X) /\ (e \in X => ToSet(p) \cap X = {})
      BY <2>1, <3>1
    <3>3. Sole(Append(p, e), X)
      <4> HIDE DEF a
      <4> QED  BY <2>1, <3>2, SoleAppend
    <3> QED  BY <2>2, <3>2, <3>3
  <2>6. Purged(a, gone) \in Seq(S) /\ ToSet(Purged(a, gone)) = ToSet(a) \ gone
    <3> HIDE DEF a
    <3>1. CASE e \in gone
      BY <2>1, <2>2, <2>3, <3>1
    <3>2. CASE e \notin gone
      BY <2>1, <2>2, <2>3, <2>4, <3>2
    <3> QED  BY <3>1, <3>2
  <2> HIDE DEF a
  <2>7. Facts(a)
    BY <2>5, <2>6
  <2> QED  BY <2>3, <2>7 DEF a
<1>3. Seq(S) \subseteq P
  <2>1. \A s \in Seq(S), e \in S : s \in P => Append(s, e) \in P
    BY <1>2
  <2> HIDE DEF P
  <2> QED  BY <1>1, <2>1, SeqInduction
<1> QED  BY <1>3

LEMMA SoleTail ==
  ASSUME NEW S, NEW q \in Seq(S), q # <<>>, NEW X, Sole(q, X)
  PROVE  Sole(Tail(q), X) /\ (Head(q) \in X => ToSet(Tail(q)) \cap X = {})
<1> DEFINE t == Tail(q)
           l == Len(q)
<1>1. /\ l \in Nat \ {0} /\ DOMAIN q = 1..l
      /\ t \in Seq(S) /\ Len(t) = l - 1
      /\ \A i \in 1..Len(t) : t[i] = q[i + 1]
  BY LenProperties, EmptySeq, HeadTailProperties
<1>2. DOMAIN t = 1..(l - 1)
  BY <1>1, LenProperties
<1>3. Head(q) = q[1]
  OBVIOUS
<1> HIDE DEF t, l
<1>4. \A i \in 1..(l - 1) : i + 1 \in 1..l /\ i + 1 # 1
  BY <1>1
<1>5. \A i \in DOMAIN t : i + 1 \in DOMAIN q /\ i + 1 # 1 /\ t[i] = q[i + 1]
  BY <1>1, <1>2, <1>4
<1>6. ASSUME NEW i \in DOMAIN t, NEW j \in DOMAIN t, t[i] \in X, t[j] \in X PROVE i = j
  <2>1. i + 1 = j + 1
    BY <1>5, <1>6 DEF Sole
  <2>2. i \in Int /\ j \in Int
    BY <1>2
  <2> QED  BY <2>1, <2>2
<1>7. ASSUME Head(q) \in X, NEW x \in ToSet(t), x \in X PROVE FALSE
  <2>1. PICK i \in DOMAIN t : x = t[i]
    BY DEF ToSet
  <2>2. 1 \in DOMAIN q /\ q[1] \in X /\ q[i + 1] \in X
    BY <1>1, <1>3, <1>5, <1>7, <2>1
  <2> QED  BY <1>5, <2>1, <2>2 DEF Sole
<1> QED  BY <1>6, <1>7 DEF Sole, t

LEMMA ToSetConcat ==
  ASSUME NEW S, NEW p \in Seq(S), NEW q \in Seq(S)
  PROVE  ToSet(p \o q) = ToSet(p) \cup ToSet(q)
<1> DEFINE c == p \o q
           l == Len(p)
           m == Len(q)
<1>1. /\ l \in Nat /\ m \in Nat /\ DOMAIN p = 1..l /\ DOMAIN q = 1..m
      /\ c \in Seq(S) /\ Len(c) = l + m
      /\ \A i \in 1..(l + m) : c[i] = IF i <= l THEN p[i] ELSE q[i - l]
  BY LenProperties, ConcatProperties
<1>2. DOMAIN c = 1..(l + m)
  BY <1>1, LenProperties
<1> HIDE DEF c, l, m
<1>3. ASSUME NEW x \in ToSet(c) PROVE x \in ToSet(p) \cup ToSet(q)
  <2>1. PICK i \in 1..(l + m) : x = c[i]
    BY <1>2 DEF ToSet
  <2>2. i \in 1..l \/ (i - l \in 1..m /\ ~(i <= l))
    BY <1>1
  <2>3. i \in 1..l => i <= l
    BY <1>1
  <2> QED  BY <1>1, <2>1, <2>2, <2>3 DEF ToSet
<1>4. ASSUME NEW x \in ToSet(p) PROVE x \in ToSet(c)
  <2>1. PICK i \in 1..l : x = p[i]
    BY <1>1 DEF ToSet
  <2>2. i \in 1..(l + m) /\ i <= l
    BY <1>1
  <2> QED  BY <1>1, <1>2, <2>1, <2>2 DEF ToSet
<1>5. ASSUME NEW x \in ToSet(q) PROVE x \in ToSet(c)
  <2>1. PICK i \in 1..m : x = q[i]
    BY <1>1 DEF ToSet
  <2>2. i + l \in 1..(l + m) /\ ~(i + l <= l) /\ (i + l) - l = i
    BY <1>1
  <2>3. c[i + l] = q[i]
    BY <1>1, <2>2
  <2> QED  BY <1>2, <2>1, <2>2, <2>3 DEF ToSet
<1>6. ToSet(c) = ToSet(p) \cup ToSet(q)
  BY <1>3, <1>4, <1>5
<1> QED  BY <1>6 DEF c

LEMMA SoleConcat ==
  ASSUME NEW S, NEW p \in Seq(S), NEW q \in Seq(S), NEW X, Sole(p, X), Sole(q, X),
         ToSet(p) \cap X = {} \/ ToSet(q) \cap X = {}
  PROVE  Sole(p \o q, X)
<1> DEFINE c == p \o q
           l == Len(p)
           m == Len(q)
<1>1. /\ l \in Nat /\ m \in Nat /\ DOMAIN p = 1..l /\ DOMAIN q = 1..m
      /\ c \in Seq(S) /\ Len(c) = l + m
      /\ \A i \in 1..(l + m) : c[i] = IF i <= l THEN p[i] ELSE q[i - l]
  BY LenProperties, ConcatProperties
<1>2. DOMAIN c = 1..(l + m)
  BY <1>1, LenProperties
<1> HIDE DEF c, l, m
<1>3. ASSUME NEW i \in 1..(l + m)
      PROVE  \/ i \in DOMAIN p /\ c[i] = p[i]
             \/ i - l \in DOMAIN q /\ c[i] = q[i - l]
  <2>1. i \in 1..l \/ (i - l \in 1..m /\ ~(i <= l))
    BY <1>1
  <2>2. i \in 1..l => i <= l
    BY <1>1
  <2> QED  BY <1>1, <2>1, <2>2
<1>4. ASSUME NEW i \in 1..(l + m), NEW j \in 1..(l + m), c[i] \in X, c[j] \in X PROVE i = j
  <2>1. CASE ToSet(p) \cap X = {}
    <3>1. /\ i - l \in DOMAIN q /\ c[i] = q[i - l]
          /\ j - l \in DOMAIN q /\ c[j] = q[j - l]
      BY <1>3, <1>4, <2>1 DEF ToSet
    <3>2. i - l = j - l
      BY <1>4, <3>1 DEF Sole
    <3> QED  BY <1>1, <3>2
  <2>2. CASE ToSet(q) \cap X = {}
    <3>1. i \in DOMAIN p /\ c[i] = p[i] /\ j \in DOMAIN p /\ c[j] = p[j]
      BY <1>3, <1>4, <2>2 DEF ToSet
    <3> QED  BY <1>4, <3>1 DEF Sole
  <2> QED  BY <2>1, <2>2
<1>5. Sole(c, X)
  BY <1>2, <1>4 DEF Sole
<1> QED  BY <1>5 DEF c

-----------------------------------------------------------------------------
(* Where the requests sent to one helper are: with lines in unread, replies *)
(* out not read by the client, in the queue or in execution in helper hp.   *)

Lines(sent) == {"run", "cancel"} \X sent
Replies(sent) == sent \X Answers
HelperOn(sent) ==
  [up: BOOLEAN, broken: BOOLEAN, retiring: BOOLEAN, active: SUBSET sent,
   flushing: SUBSET sent, queue: Seq(sent)]

Unread(in) == {r \in Nat : <<"run", r>> \in ToSet(in)}
Answered(out) == {r \in Nat : \E a \in Answers : <<r, a>> \in ToSet(out)}
Refused(out) == {r \in Nat : \E a \in Answers \ {"done"} : <<r, a>> \in ToSet(out)}

(* A request is in one place, and started exactly when it is in none of     *)
(* those that come before its execution; what is refused has not started.   *)
Placed(unread, queued, active, flushing, answered, refused, st) ==
  /\ flushing \subseteq active /\ active \subseteq st
  /\ unread \cap queued = {} /\ (unread \cup queued) \cap (st \cup answered) = {}
  /\ active \cap answered \subseteq flushing
  /\ refused \subseteq answered /\ refused \cap st = {}

Held(in, hp, out, sent, st) ==
  /\ in \in Seq(Lines(sent)) /\ hp \in HelperOn(sent) /\ out \in Seq(Replies(sent))
  /\ \A r \in sent : /\ Sole(in, {<<"run", r>>}) /\ Sole(hp.queue, {r})
                     /\ Sole(out, {r} \X Answers)
  /\ Placed(Unread(in), ToSet(hp.queue), hp.active, hp.flushing,
            Answered(out), Refused(out), st)

(* The line a helper reads.                                                 *)
LEMMA LineRead ==
  ASSUME NEW sent \in SUBSET Nat, NEW in \in Seq(Lines(sent)), in # <<>>,
         \A x \in sent : Sole(in, {<<"run", x>>})
  PROVE  /\ Tail(in) \in Seq(Lines(sent)) /\ Head(in)[2] \in sent
         /\ Head(in)[1] \in {"run", "cancel"}
         /\ \A x \in sent : Sole(Tail(in), {<<"run", x>>})
         /\ Head(in)[1] = "run" => /\ Head(in)[2] \in Unread(in)
                                   /\ Unread(Tail(in)) = Unread(in) \ {Head(in)[2]}
         /\ Head(in)[1] = "cancel" => Unread(Tail(in)) = Unread(in)
<1> DEFINE m == Head(in)
           t == Tail(in)
<1>1. ToSet(in) = {m} \cup ToSet(t) /\ m \in Lines(sent) /\ t \in Seq(Lines(sent))
  BY ToSetTail
<1>2. \A x \in sent : /\ Sole(t, {<<"run", x>>})
                      /\ m \in {<<"run", x>>} => ToSet(t) \cap {<<"run", x>>} = {}
  BY SoleTail
<1> HIDE DEF m, t
<1>3. m[1] \in {"run", "cancel"} /\ m[2] \in sent /\ m = <<m[1], m[2]>>
  BY <1>1 DEF Lines
<1>4. ASSUME m[1] = "run" PROVE m[2] \in Unread(in) /\ Unread(t) = Unread(in) \ {m[2]}
  <2>1. PICK x \in sent : x = m[2] /\ m = <<"run", x>> /\ x \in Nat
    BY <1>3, <1>4
  <2>2. <<"run", x>> \notin ToSet(t)
    BY <1>2, <2>1
  <2>3. \A y \in Nat : <<"run", y>> \in ToSet(in) <=> (y = x \/ <<"run", y>> \in ToSet(t))
    BY <1>1, <2>1
  <2> QED  BY <2>1, <2>2, <2>3 DEF Unread
<1>5. ASSUME m[1] = "cancel" PROVE Unread(t) = Unread(in)
  <2>1. \A y \in Nat : <<"run", y>> # m
    BY <1>3, <1>5
  <2> QED  BY <1>1, <2>1 DEF Unread
<1> QED  BY <1>1, <1>2, <1>3, <1>4, <1>5 DEF m, t

(* Replies are written, to requests that have none.                         *)
Adds(sent, out, replies) ==
  \A x \in sent : /\ Sole(out, {x} \X Answers) /\ Sole(replies, {x} \X Answers)
                  /\ x \in Answered(out) => x \notin Answered(replies)

LEMMA Replied ==
  ASSUME NEW sent \in SUBSET Nat, NEW out \in Seq(Replies(sent)),
         NEW replies \in Seq(Replies(sent)), Adds(sent, out, replies)
  PROVE  /\ out \o replies \in Seq(Replies(sent))
         /\ \A x \in sent : Sole(out \o replies, {x} \X Answers)
         /\ Answered(out \o replies) = Answered(out) \cup Answered(replies)
         /\ Refused(out \o replies) = Refused(out) \cup Refused(replies)
<1> DEFINE both == out \o replies
<1>1. both \in Seq(Replies(sent)) /\ ToSet(both) = ToSet(out) \cup ToSet(replies)
  BY ToSetConcat, ConcatProperties
<1>2. ASSUME NEW x \in sent PROVE Sole(both, {x} \X Answers)
  <2> DEFINE X == {x} \X Answers
  <2>1. \A a : a \in X => \E answer \in Answers : a = <<x, answer>>
    OBVIOUS
  <2>2. ToSet(out) \cap X # {} => x \in Answered(out)
    BY <2>1 DEF Answered
  <2>3. ToSet(replies) \cap X # {} => x \in Answered(replies)
    BY <2>1 DEF Answered
  <2> HIDE DEF X
  <2>4. ToSet(out) \cap X = {} \/ ToSet(replies) \cap X = {}
    BY <2>2, <2>3 DEF Adds
  <2>5. Sole(out, X) /\ Sole(replies, X)
    BY DEF X, Adds
  <2>6. Sole(out \o replies, X)
    BY <2>4, <2>5, SoleConcat
  <2> QED  BY <2>6 DEF X
<1> HIDE DEF both
<1>3. Answered(both) = Answered(out) \cup Answered(replies)
  BY <1>1 DEF Answered
<1>4. Refused(both) = Refused(out) \cup Refused(replies)
  BY <1>1 DEF Refused
<1> QED  BY <1>1, <1>2, <1>3, <1>4 DEF both

LEMMA NoReply ==
  ASSUME NEW sent \in SUBSET Nat
  PROVE  /\ <<>> \in Seq(Replies(sent)) /\ \A x \in sent : Sole(<<>>, {x} \X Answers)
         /\ Answered(<<>>) = {} /\ Refused(<<>>) = {}
<1>1. DOMAIN <<>> = {} /\ <<>> \in Seq(Replies(sent))
  BY EmptySeq
<1>2. ToSet(<<>>) = {}
  BY DEF ToSet
<1> QED  BY <1>1, <1>2 DEF Sole, Answered, Refused

LEMMA OneReply ==
  ASSUME NEW sent \in SUBSET Nat, NEW r \in sent, NEW a \in Answers
  PROVE  /\ <<<<r, a>>>> \in Seq(Replies(sent))
         /\ \A x \in sent : Sole(<<<<r, a>>>>, {x} \X Answers)
         /\ Answered(<<<<r, a>>>>) = {r}
         /\ Refused(<<<<r, a>>>>) = IF a = "done" THEN {} ELSE {r}
<1> DEFINE e == <<r, a>>
           one == <<e>>
<1>1. e \in Replies(sent)
  BY DEF Replies
<1>2. \A y, b : <<y, b>> = e <=> y = r /\ b = a
  OBVIOUS
<1> HIDE DEF e
<1>3. one \in Seq(Replies(sent)) /\ DOMAIN one = {1} /\ one[1] = e
  BY <1>1
<1> HIDE DEF one
<1>4. ToSet(one) = {e}
  BY <1>3 DEF ToSet
<1>5. \A x \in sent : Sole(one, {x} \X Answers)
  BY <1>3 DEF Sole
<1>6. r \in Nat
  OBVIOUS
<1>7. Answered(one) = {r}
  BY <1>2, <1>4, <1>6 DEF Answered
<1>8. Refused(one) = IF a = "done" THEN {} ELSE {r}
  BY <1>2, <1>4, <1>6 DEF Refused
<1> QED  BY <1>3, <1>5, <1>7, <1>8 DEF one, e

LEMMA RefusalsReply ==
  ASSUME NEW sent \in SUBSET Nat, NEW hp \in HelperOn(sent),
         \A x \in sent : Sole(hp.queue, {x})
  PROVE  /\ Refusals(hp) \in Seq(Replies(sent))
         /\ \A x \in sent : Sole(Refusals(hp), {x} \X Answers)
         /\ Answered(Refusals(hp)) = ToSet(hp.queue)
         /\ Refused(Refusals(hp)) = ToSet(hp.queue)
<1> DEFINE q == hp.queue
           f == Refusals(hp)
<1>1. q \in Seq(sent)
  BY DEF HelperOn
<1>2. DOMAIN q = 1..Len(q) /\ Len(q) \in Nat /\ \A i \in DOMAIN q : q[i] \in sent
  BY <1>1, LenProperties, ElementOfSeq
<1>3. f = [i \in DOMAIN q |-> <<q[i], "retiring">>]
  BY DEF Refusals
<1> HIDE DEF q, f
<1>4. \A x \in sent : <<x, "retiring">> \in Replies(sent)
  BY DEF Replies, Answers
<1>5. f \in Seq(Replies(sent)) /\ DOMAIN f = DOMAIN q
  <2>1. f \in [1..Len(q) -> Replies(sent)]
    BY <1>2, <1>3, <1>4
  <2>2. f \in Seq(Replies(sent))
    BY <1>2, <2>1, IsASeq
  <2> QED  BY <1>3, <2>2
<1>6. ASSUME NEW x \in sent PROVE Sole(f, {x} \X Answers)
  <2>1. Sole(q, {x})
    BY DEF q
  <2>2. \A i \in DOMAIN q : f[i] \in {x} \X Answers => q[i] = x
    BY <1>3
  <2> QED  BY <1>5, <2>1, <2>2 DEF Sole
<1>7. ASSUME NEW x, NEW a
      PROVE  <<x, a>> \in ToSet(f) <=> x \in ToSet(q) /\ a = "retiring"
  <2>1. ASSUME <<x, a>> \in ToSet(f) PROVE x \in ToSet(q) /\ a = "retiring"
    <3>1. PICK i \in DOMAIN q : <<x, a>> = <<q[i], "retiring">>
      BY <1>3, <1>5, <2>1 DEF ToSet
    <3> QED  BY <3>1 DEF ToSet
  <2>2. ASSUME x \in ToSet(q), a = "retiring" PROVE <<x, a>> \in ToSet(f)
    <3>1. PICK i \in DOMAIN q : x = q[i]
      BY <2>2 DEF ToSet
    <3> QED  BY <1>3, <1>5, <2>2, <3>1 DEF ToSet
  <2> QED  BY <2>1, <2>2
<1>8. \A x \in ToSet(q) : x \in Nat
  BY <1>2 DEF ToSet
<1>9. "retiring" \in Answers \ {"done"} /\ "retiring" \in Answers
  BY DEF Answers
<1>10. Answered(f) = ToSet(q)
  BY <1>7, <1>8, <1>9 DEF Answered
<1>11. Refused(f) = ToSet(q)
  BY <1>7, <1>8, <1>9 DEF Refused
<1> QED  BY <1>5, <1>6, <1>10, <1>11 DEF q, f

-----------------------------------------------------------------------------
(* What a helper does with its requests.                                    *)

Spots(in, hp, out) ==
  Unread(in) \cup ToSet(hp.queue) \cup (hp.active \ hp.flushing) \cup Answered(out)
ToStart(in, hp) == Unread(in) \cup ToSet(hp.queue)

(* The helper goes on from in, hp, out and st to those with a 2.            *)
Works(in, hp, out, sent, st, in2, hp2, out2, st2) ==
  /\ Held(in2, hp2, out2, sent, st2)
  /\ hp2.up = hp.up /\ hp2.broken = hp.broken
  /\ Spots(in, hp, out) \subseteq Spots(in2, hp2, out2)
  /\ ToStart(in2, hp2) \subseteq ToStart(in, hp)
  /\ st \subseteq st2 /\ st2 \subseteq st \cup (ToStart(in, hp) \cap sent)

LEMMA StepWorks ==
  ASSUME NEW sent \in SUBSET Nat, NEW in, NEW hp, NEW out, NEW st,
         Held(in, hp, out, sent, st),
         NEW in2 \in Seq(Lines(sent)), NEW hp2 \in HelperOn(sent),
         NEW replies \in Seq(Replies(sent)),
         \A x \in sent : /\ Sole(in2, {<<"run", x>>}) /\ Sole(hp2.queue, {x})
                         /\ Sole(replies, {x} \X Answers),
         hp2.up = hp.up /\ hp2.broken = hp.broken,
         Answered(out) \cap Answered(replies) = {},
         Placed(Unread(in2), ToSet(hp2.queue), hp2.active, hp2.flushing,
                Answered(out) \cup Answered(replies), Refused(out) \cup Refused(replies),
                st \cup hp2.active),
         ToStart(in2, hp2) \subseteq ToStart(in, hp),
         hp2.active \subseteq st \cup ToStart(in, hp),
         Spots(in, hp, out) \subseteq Unread(in2) \cup ToSet(hp2.queue)
           \cup (hp2.active \ hp2.flushing) \cup Answered(out) \cup Answered(replies)
  PROVE  Works(in, hp, out, sent, st, in2, hp2, out \o replies, st \cup hp2.active)
<1> DEFINE out2 == out \o replies
<1>1. out \in Seq(Replies(sent)) /\ \A x \in sent : Sole(out, {x} \X Answers)
  BY DEF Held
<1>2. /\ out2 \in Seq(Replies(sent)) /\ \A x \in sent : Sole(out2, {x} \X Answers)
      /\ Answered(out2) = Answered(out) \cup Answered(replies)
      /\ Refused(out2) = Refused(out) \cup Refused(replies)
  <2>1. Adds(sent, out, replies)
    BY <1>1 DEF Adds
  <2> QED  BY <1>1, <2>1, Replied
<1> HIDE DEF out2
<1>3. Held(in2, hp2, out2, sent, st \cup hp2.active)
  BY <1>2 DEF Held
<1>4. Spots(in, hp, out) \subseteq Spots(in2, hp2, out2)
  BY <1>2 DEF Spots
<1>5. hp2.active \subseteq sent
  BY DEF HelperOn
<1>6. Works(in, hp, out, sent, st, in2, hp2, out2, st \cup hp2.active)
  BY <1>3, <1>4, <1>5 DEF Works
<1> QED  BY <1>6 DEF out2

(* Without a change of the tables: what is unread and what is answered may  *)
(* move, the tables of the helper stay.                                     *)
LEMMA HeldFacts ==
  ASSUME NEW in, NEW hp, NEW out, NEW sent, NEW st, Held(in, hp, out, sent, st)
  PROVE  /\ in \in Seq(Lines(sent)) /\ hp \in HelperOn(sent) /\ out \in Seq(Replies(sent))
         /\ \A r \in sent : /\ Sole(in, {<<"run", r>>}) /\ Sole(hp.queue, {r})
                            /\ Sole(out, {r} \X Answers)
         /\ Placed(Unread(in), ToSet(hp.queue), hp.active, hp.flushing,
                   Answered(out), Refused(out), st)
         /\ hp.queue \in Seq(sent) /\ hp.active \subseteq sent /\ hp.flushing \subseteq sent
         /\ st \cup hp.active = st
BY DEF Held, HelperOn, Placed

LEMMA QueueMembers ==
  ASSUME NEW sent, NEW q \in Seq(sent)
  PROVE  ToSet(q) \subseteq sent
BY LenProperties, ElementOfSeq DEF ToSet

(* handleLine, for a request.                                               *)
Takes(hp, r, hp2, replies) ==
  \/ hp2 = hp /\ replies = <<<<r, "retiring">>>>
  \/ hp2 = [hp EXCEPT !.active = @ \cup {r}] /\ replies = <<>>
  \/ hp2 = [hp EXCEPT !.queue = Append(@, r)] /\ replies = <<>>

LEMMA RunWorks ==
  ASSUME NEW sent \in SUBSET Nat, NEW in, NEW hp, NEW out, NEW st,
         Held(in, hp, out, sent, st), in # <<>>, Head(in)[1] = "run",
         NEW hp2, NEW replies, Takes(hp, Head(in)[2], hp2, replies)
  PROVE  Works(in, hp, out, sent, st, Tail(in), hp2, out \o replies, st \cup hp2.active)
<1> DEFINE r == Head(in)[2]
           t == Tail(in)
<1>1. /\ t \in Seq(Lines(sent)) /\ r \in sent /\ r \in Unread(in)
      /\ \A x \in sent : Sole(t, {<<"run", x>>})
      /\ Unread(t) = Unread(in) \ {r}
  BY HeldFacts, LineRead
<1>2. /\ hp \in HelperOn(sent) /\ hp.queue \in Seq(sent)
      /\ \A x \in sent : Sole(hp.queue, {x})
  BY HeldFacts
<1>3. Placed(Unread(in), ToSet(hp.queue), hp.active, hp.flushing, Answered(out),
             Refused(out), st)
  BY HeldFacts
<1>4. "retiring" \in Answers /\ "retiring" # "done"
  BY DEF Answers
<1>5. \/ hp2 = hp /\ replies = <<<<r, "retiring">>>>
      \/ hp2 = [hp EXCEPT !.active = @ \cup {r}] /\ replies = <<>>
      \/ hp2 = [hp EXCEPT !.queue = Append(@, r)] /\ replies = <<>>
  BY DEF Takes
<1> HIDE DEF r, t
<1>6. CASE hp2 = hp /\ replies = <<<<r, "retiring">>>>
  <2>1. /\ replies \in Seq(Replies(sent)) /\ \A x \in sent : Sole(replies, {x} \X Answers)
        /\ Answered(replies) = {r} /\ Refused(replies) = {r}
    BY <1>1, <1>4, <1>6, OneReply
  <2>2. Answered(out) \cap Answered(replies) = {}
    BY <1>1, <1>3, <2>1 DEF Placed
  <2>3. Placed(Unread(t), ToSet(hp2.queue), hp2.active, hp2.flushing,
               Answered(out) \cup Answered(replies), Refused(out) \cup Refused(replies),
               st \cup hp2.active)
    <3>1. hp2 = hp
      BY <1>6
    <3> HIDE <1>6
    <3> QED  BY <1>1, <1>3, <2>1, <3>1 DEF Placed
  <2>4. /\ ToStart(t, hp2) \subseteq ToStart(in, hp)
        /\ hp2.active \subseteq st \cup ToStart(in, hp)
        /\ Spots(in, hp, out) \subseteq Unread(t) \cup ToSet(hp2.queue)
             \cup (hp2.active \ hp2.flushing) \cup Answered(out) \cup Answered(replies)
    BY <1>1, <1>3, <1>6, <2>1 DEF ToStart, Spots, Placed
  <2>5. hp2 \in HelperOn(sent) /\ hp2.up = hp.up /\ hp2.broken = hp.broken
        /\ \A x \in sent : Sole(hp2.queue, {x})
    BY <1>2, <1>6
  <2> QED  BY <1>1, <2>1, <2>2, <2>3, <2>4, <2>5, StepWorks DEF t
<1>7. CASE hp2 = [hp EXCEPT !.active = @ \cup {r}] /\ replies = <<>>
  <2>1. /\ replies \in Seq(Replies(sent)) /\ \A x \in sent : Sole(replies, {x} \X Answers)
        /\ Answered(replies) = {} /\ Refused(replies) = {}
    BY <1>7, NoReply
  <2>2. /\ hp2 \in HelperOn(sent) /\ hp2.up = hp.up /\ hp2.broken = hp.broken
        /\ hp2.queue = hp.queue /\ hp2.active = hp.active \cup {r}
        /\ hp2.flushing = hp.flushing
    BY <1>1, <1>2, <1>7 DEF HelperOn
  <2>3. Placed(Unread(t), ToSet(hp2.queue), hp2.active, hp2.flushing,
               Answered(out) \cup Answered(replies), Refused(out) \cup Refused(replies),
               st \cup hp2.active)
    BY <1>1, <1>3, <2>1, <2>2 DEF Placed
  <2>4. /\ ToStart(t, hp2) \subseteq ToStart(in, hp)
        /\ hp2.active \subseteq st \cup ToStart(in, hp)
        /\ Spots(in, hp, out) \subseteq Unread(t) \cup ToSet(hp2.queue)
             \cup (hp2.active \ hp2.flushing) \cup Answered(out) \cup Answered(replies)
    BY <1>1, <1>3, <2>1, <2>2 DEF ToStart, Spots, Placed
  <2>5. Answered(out) \cap Answered(replies) = {} /\ \A x \in sent : Sole(hp2.queue, {x})
    BY <1>2, <2>1, <2>2
  <2> QED  BY <1>1, <2>1, <2>2, <2>3, <2>4, <2>5, StepWorks DEF t
<1>8. CASE hp2 = [hp EXCEPT !.queue = Append(@, r)] /\ replies = <<>>
  <2>1. /\ replies \in Seq(Replies(sent)) /\ \A x \in sent : Sole(replies, {x} \X Answers)
        /\ Answered(replies) = {} /\ Refused(replies) = {}
    BY <1>8, NoReply
  <2>2. Append(hp.queue, r) \in Seq(sent)
        /\ ToSet(Append(hp.queue, r)) = ToSet(hp.queue) \cup {r}
    BY <1>1, <1>2, ToSetAppend, AppendProperties
  <2>3. /\ hp2 \in HelperOn(sent) /\ hp2.up = hp.up /\ hp2.broken = hp.broken
        /\ hp2.queue = Append(hp.queue, r) /\ hp2.active = hp.active
        /\ hp2.flushing = hp.flushing
    <3> DEFINE more == Append(hp.queue, r)
    <3>1. hp2 = [hp EXCEPT !.queue = more] /\ more \in Seq(sent)
      BY <1>8, <2>2
    <3> HIDE DEF more
    <3>2. /\ hp2 \in HelperOn(sent) /\ hp2.up = hp.up /\ hp2.broken = hp.broken
          /\ hp2.queue = more /\ hp2.active = hp.active /\ hp2.flushing = hp.flushing
      BY <1>2, <3>1 DEF HelperOn
    <3> QED  BY <3>2 DEF more
  <2>4. Placed(Unread(t), ToSet(hp2.queue), hp2.active, hp2.flushing,
               Answered(out) \cup Answered(replies), Refused(out) \cup Refused(replies),
               st \cup hp2.active)
    BY <1>1, <1>3, <2>1, <2>2, <2>3 DEF Placed
  <2>5. /\ ToStart(t, hp2) \subseteq ToStart(in, hp)
        /\ hp2.active \subseteq st \cup ToStart(in, hp)
        /\ Spots(in, hp, out) \subseteq Unread(t) \cup ToSet(hp2.queue)
             \cup (hp2.active \ hp2.flushing) \cup Answered(out) \cup Answered(replies)
    BY <1>1, <1>3, <2>1, <2>2, <2>3 DEF ToStart, Spots, Placed
  <2>6. \A x \in sent : Sole(hp2.queue, {x})
    <3>1. r \notin ToSet(hp.queue)
      BY <1>1, <1>3 DEF Placed
    <3>2. ASSUME NEW x \in sent PROVE Sole(Append(hp.queue, r), {x})
      <4>1. r \in {x} => ToSet(hp.queue) \cap {x} = {}
        BY <3>1
      <4> QED  BY <1>1, <1>2, <4>1, SoleAppend
    <3> QED  BY <2>3, <3>2
  <2>7. Answered(out) \cap Answered(replies) = {}
    BY <2>1
  <2> QED  BY <1>1, <2>1, <2>3, <2>4, <2>5, <2>6, <2>7, StepWorks DEF t
<1> QED  BY <1>5, <1>6, <1>7, <1>8

(* A helper that reads nothing of a request.                                *)
SameUnread(in, in2, sent) ==
  /\ in2 \in Seq(Lines(sent)) /\ Unread(in2) = Unread(in)
  /\ \A x \in sent : Sole(in2, {<<"run", x>>})

LEMMA CancelRead ==
  ASSUME NEW sent \in SUBSET Nat, NEW in, NEW hp, NEW out, NEW st,
         Held(in, hp, out, sent, st), in # <<>>, Head(in)[1] # "run"
  PROVE  SameUnread(in, Tail(in), sent) /\ Head(in)[2] \in sent
<1>1. in \in Seq(Lines(sent)) /\ \A x \in sent : Sole(in, {<<"run", x>>})
  BY HeldFacts
<1> QED  BY <1>1, LineRead DEF SameUnread

(* ... and does nothing.                                                    *)
LEMMA IdleWorks ==
  ASSUME NEW sent \in SUBSET Nat, NEW in, NEW hp, NEW out, NEW st,
         Held(in, hp, out, sent, st), NEW in2, SameUnread(in, in2, sent)
  PROVE  Works(in, hp, out, sent, st, in2, hp, out \o <<>>, st \cup hp.active)
<1>1. /\ hp \in HelperOn(sent) /\ \A x \in sent : Sole(hp.queue, {x})
      /\ Placed(Unread(in), ToSet(hp.queue), hp.active, hp.flushing, Answered(out),
                Refused(out), st)
  BY HeldFacts
<1>2. /\ in2 \in Seq(Lines(sent)) /\ Unread(in2) = Unread(in)
      /\ \A x \in sent : Sole(in2, {<<"run", x>>})
  BY DEF SameUnread
<1> DEFINE replies == <<>>
<1>3. /\ replies \in Seq(Replies(sent)) /\ \A x \in sent : Sole(replies, {x} \X Answers)
      /\ Answered(replies) = {} /\ Refused(replies) = {}
  BY NoReply
<1> HIDE DEF replies
<1>4. Placed(Unread(in2), ToSet(hp.queue), hp.active, hp.flushing,
             Answered(out) \cup Answered(replies), Refused(out) \cup Refused(replies),
             st \cup hp.active)
  BY <1>1, <1>2, <1>3 DEF Placed
<1>5. /\ ToStart(in2, hp) \subseteq ToStart(in, hp)
      /\ hp.active \subseteq st \cup ToStart(in, hp)
      /\ Spots(in, hp, out) \subseteq Unread(in2) \cup ToSet(hp.queue)
           \cup (hp.active \ hp.flushing) \cup Answered(out) \cup Answered(replies)
      /\ Answered(out) \cap Answered(replies) = {}
  BY <1>1, <1>2, <1>3 DEF ToStart, Spots, Placed
<1>6. Works(in, hp, out, sent, st, in2, hp, out \o replies, st \cup hp.active)
  BY <1>1, <1>2, <1>3, <1>4, <1>5, StepWorks
<1> QED  BY <1>6 DEF replies

(* A queued request is answered and never executed.                         *)
LEMMA DequeueWorks ==
  ASSUME NEW sent \in SUBSET Nat, NEW in, NEW hp, NEW out, NEW st,
         Held(in, hp, out, sent, st), NEW in2, SameUnread(in, in2, sent),
         NEW r \in ToSet(hp.queue), NEW a \in Answers \ {"done"}
  PROVE  Works(in, hp, out, sent, st, in2, Dequeued(hp, r), out \o <<<<r, a>>>>,
               st \cup Dequeued(hp, r).active)
<1>1. /\ hp \in HelperOn(sent) /\ hp.queue \in Seq(sent)
      /\ \A x \in sent : Sole(hp.queue, {x})
      /\ Placed(Unread(in), ToSet(hp.queue), hp.active, hp.flushing, Answered(out),
                Refused(out), st)
  BY HeldFacts
<1>2. /\ in2 \in Seq(Lines(sent)) /\ Unread(in2) = Unread(in)
      /\ \A x \in sent : Sole(in2, {<<"run", x>>})
  BY DEF SameUnread
<1> DEFINE replies == <<<<r, a>>>>
           q == Purged(hp.queue, {r})
           hp2 == Dequeued(hp, r)
<1>3. r \in sent
  BY <1>1, QueueMembers
<1>4. /\ replies \in Seq(Replies(sent)) /\ \A x \in sent : Sole(replies, {x} \X Answers)
      /\ Answered(replies) = {r} /\ Refused(replies) = {r}
  BY <1>3, OneReply
<1>5. /\ q \in Seq(sent) /\ ToSet(q) = ToSet(hp.queue) \ {r}
      /\ \A X : Sole(hp.queue, X) => Sole(q, X)
  BY <1>1, PurgedFacts
<1>6. hp2 = [hp EXCEPT !.queue = q]
  BY DEF Dequeued
<1> HIDE DEF replies, q, hp2
<1>7. /\ hp2 \in HelperOn(sent) /\ hp2.up = hp.up /\ hp2.broken = hp.broken
      /\ hp2.queue = q /\ hp2.active = hp.active /\ hp2.flushing = hp.flushing
  BY <1>1, <1>5, <1>6 DEF HelperOn
<1>8. \A x \in sent : Sole(hp2.queue, {x})
  BY <1>1, <1>5, <1>7
<1>9. Placed(Unread(in2), ToSet(hp2.queue), hp2.active, hp2.flushing,
             Answered(out) \cup Answered(replies), Refused(out) \cup Refused(replies),
             st \cup hp2.active)
  BY <1>1, <1>2, <1>4, <1>5, <1>7 DEF Placed
<1>10. /\ ToStart(in2, hp2) \subseteq ToStart(in, hp)
       /\ hp2.active \subseteq st \cup ToStart(in, hp)
       /\ Spots(in, hp, out) \subseteq Unread(in2) \cup ToSet(hp2.queue)
            \cup (hp2.active \ hp2.flushing) \cup Answered(out) \cup Answered(replies)
       /\ Answered(out) \cap Answered(replies) = {}
  BY <1>1, <1>2, <1>4, <1>5, <1>7 DEF ToStart, Spots, Placed
<1>11. Works(in, hp, out, sent, st, in2, hp2, out \o replies, st \cup hp2.active)
  BY <1>2, <1>4, <1>7, <1>8, <1>9, <1>10, StepWorks
<1> QED  BY <1>11 DEF replies, hp2

(* The body of an active request ends.                                      *)
LEMMA RespondWorks ==
  ASSUME NEW sent \in SUBSET Nat, NEW in, NEW hp, NEW out, NEW st,
         Held(in, hp, out, sent, st), NEW r \in hp.active \ hp.flushing, NEW hp2,
         hp2 = [hp EXCEPT !.flushing = @ \cup {r}]
  PROVE  Works(in, hp, out, sent, st, in, hp2, out \o <<<<r, "done">>>>,
               st \cup hp2.active)
<1>1. /\ hp \in HelperOn(sent) /\ \A x \in sent : Sole(hp.queue, {x})
      /\ Placed(Unread(in), ToSet(hp.queue), hp.active, hp.flushing, Answered(out),
                Refused(out), st)
      /\ in \in Seq(Lines(sent)) /\ \A x \in sent : Sole(in, {<<"run", x>>})
      /\ r \in sent
  BY HeldFacts
<1> DEFINE replies == <<<<r, "done">>>>
<1>2. /\ replies \in Seq(Replies(sent)) /\ \A x \in sent : Sole(replies, {x} \X Answers)
      /\ Answered(replies) = {r} /\ Refused(replies) = {}
  <2>1. "done" \in Answers
    BY DEF Answers
  <2> QED  BY <1>1, <2>1, OneReply
<1> HIDE DEF replies
<1>3. /\ hp2 \in HelperOn(sent) /\ hp2.up = hp.up /\ hp2.broken = hp.broken
      /\ hp2.queue = hp.queue /\ hp2.active = hp.active
      /\ hp2.flushing = hp.flushing \cup {r}
  BY <1>1 DEF HelperOn
<1>4. \A x \in sent : Sole(hp2.queue, {x})
  BY <1>1, <1>3
<1>5. Placed(Unread(in), ToSet(hp2.queue), hp2.active, hp2.flushing,
             Answered(out) \cup Answered(replies), Refused(out) \cup Refused(replies),
             st \cup hp2.active)
  BY <1>1, <1>2, <1>3 DEF Placed
<1>6. /\ ToStart(in, hp2) \subseteq ToStart(in, hp)
      /\ hp2.active \subseteq st \cup ToStart(in, hp)
      /\ Spots(in, hp, out) \subseteq Unread(in) \cup ToSet(hp2.queue)
           \cup (hp2.active \ hp2.flushing) \cup Answered(out) \cup Answered(replies)
      /\ Answered(out) \cap Answered(replies) = {}
  BY <1>1, <1>2, <1>3 DEF ToStart, Spots, Placed
<1>7. Works(in, hp, out, sent, st, in, hp2, out \o replies, st \cup hp2.active)
  BY <1>1, <1>2, <1>3, <1>4, <1>5, <1>6, StepWorks
<1> QED  BY <1>7 DEF replies

(* The slots of a handler go to queued requests.                            *)
LEMMA DrainedFacts ==
  ASSUME NEW sent, IsFiniteSet(sent), NEW hp \in HelperOn(sent), NEW h \in Handlers
  PROVE  \E next \in SUBSET ToSet(hp.queue) :
           Drained(hp, h) = [hp EXCEPT !.active = @ \cup next, !.queue = Purged(@, next)]
<1> DEFINE queued == Purged(hp.queue, {r \in DOMAIN request : HandlerOf(r) # h})
           busy == {r \in hp.active : HandlerOf(r) = h}
           free == Slots[h] - Cardinality(busy)
           k == Min({free, Len(queued)})
           next == ToSet(SubSeq(queued, 1, k))
<1>1. Drained(hp, h) = [hp EXCEPT !.active = @ \cup next, !.queue = Purged(@, next)]
  BY DEF Drained
<1>2. queued \in Seq(sent) /\ ToSet(queued) \subseteq ToSet(hp.queue)
  BY PurgedFacts DEF HelperOn
<1>3. free \in Int
  <2>1. busy \subseteq sent
    BY DEF HelperOn
  <2>2. IsFiniteSet(busy)
    BY <2>1, FS_Subset
  <2>3. Cardinality(busy) \in Nat
    BY <2>2, FS_CardinalityType
  <2>4. Slots[h] \in Nat
    BY HandlersAssumption
  <2> HIDE DEF busy
  <2> QED  BY <2>3, <2>4
<1>4. Len(queued) \in Nat
  BY <1>2, LenProperties
<1> HIDE DEF queued, free
<1>5. k \in Int /\ k <= Len(queued)
  <2> DEFINE M == {free, Len(queued)}
  <2>1. \E x \in M : \A y \in M : x <= y
    BY <1>3, <1>4
  <2>2. Min(M) \in M /\ \A y \in M : Min(M) <= y
    BY <2>1 DEF Min
  <2>3. Len(queued) \in M
    OBVIOUS
  <2>4. Min(M) \in Int
    BY <1>3, <1>4, <2>2
  <2> HIDE DEF M
  <2>5. Min(M) \in Int /\ Min(M) <= Len(queued)
    BY <2>2, <2>3, <2>4
  <2> QED  BY <2>5 DEF M
<1> HIDE DEF k
<1>6. next \subseteq ToSet(queued)
  <2>1. CASE k < 1
    <3>1. SubSeq(queued, 1, k) = <<>>
      BY <1>2, <1>5, <2>1
    <3>2. ToSet(<<>>) = {}
      BY DEF ToSet
    <3> QED  BY <3>1, <3>2
  <2>2. CASE ~(k < 1)
    <3> DEFINE s == SubSeq(queued, 1, k)
    <3>1. /\ DOMAIN s = 1..k /\ \A i \in 1..k : s[i] = queued[i]
          /\ DOMAIN queued = 1..Len(queued)
      BY <1>2, <1>4, <1>5, <2>2
    <3> HIDE DEF s
    <3>2. \A i \in 1..k : i \in 1..Len(queued)
      BY <1>4, <1>5
    <3>3. ToSet(s) \subseteq ToSet(queued)
      BY <3>1, <3>2 DEF ToSet
    <3> QED  BY <3>3 DEF s
  <2> QED  BY <2>1, <2>2
<1> HIDE DEF next
<1> QED  BY <1>1, <1>2, <1>6

(* The metrics of an answered request are written: its slot is free.        *)
LEMMA ReleaseWorks ==
  ASSUME NEW sent \in SUBSET Nat, IsFiniteSet(sent), NEW in, NEW hp, NEW out, NEW st,
         Held(in, hp, out, sent, st), NEW r \in hp.flushing, NEW h \in Handlers, NEW hp2,
         hp2 = Drained([hp EXCEPT !.active = @ \ {r}, !.flushing = @ \ {r}], h)
  PROVE  Works(in, hp, out, sent, st, in, hp2, out \o <<>>, st \cup hp2.active)
<1> DEFINE freed == [hp EXCEPT !.active = @ \ {r}, !.flushing = @ \ {r}]
           replies == <<>>
<1>1. /\ hp \in HelperOn(sent) /\ \A x \in sent : Sole(hp.queue, {x})
      /\ Placed(Unread(in), ToSet(hp.queue), hp.active, hp.flushing, Answered(out),
                Refused(out), st)
      /\ in \in Seq(Lines(sent)) /\ \A x \in sent : Sole(in, {<<"run", x>>})
      /\ hp.queue \in Seq(sent)
  BY HeldFacts
<1>2. /\ freed \in HelperOn(sent) /\ freed.up = hp.up /\ freed.broken = hp.broken
      /\ freed.queue = hp.queue /\ freed.active = hp.active \ {r}
      /\ freed.flushing = hp.flushing \ {r}
  BY <1>1 DEF HelperOn
<1> HIDE DEF freed
<1>3. PICK next \in SUBSET ToSet(hp.queue) :
        hp2 = [freed EXCEPT !.active = @ \cup next, !.queue = Purged(@, next)]
  <2>1. hp2 = Drained(freed, h)
    BY DEF freed
  <2>2. PICK next \in SUBSET ToSet(freed.queue) :
          Drained(freed, h) = [freed EXCEPT !.active = @ \cup next,
                                            !.queue = Purged(@, next)]
    BY <1>2, DrainedFacts
  <2> QED  BY <1>2, <2>1, <2>2
<1> DEFINE q == Purged(hp.queue, next)
           busy == freed.active \cup next
<1>4. /\ q \in Seq(sent) /\ ToSet(q) = ToSet(hp.queue) \ next
      /\ \A X : Sole(hp.queue, X) => Sole(q, X)
  BY <1>1, PurgedFacts
<1>5. busy \subseteq sent
  <2>1. next \subseteq sent
    BY <1>1, QueueMembers
  <2> QED  BY <1>2, <2>1 DEF HelperOn
<1>6. hp2 = [freed EXCEPT !.active = busy, !.queue = q]
  BY <1>2, <1>3
<1> HIDE DEF q
<1>7. /\ hp2 \in HelperOn(sent) /\ hp2.up = hp.up /\ hp2.broken = hp.broken
      /\ hp2.queue = q /\ hp2.active = (hp.active \ {r}) \cup next
      /\ hp2.flushing = hp.flushing \ {r}
  <2> HIDE DEF busy
  <2>1. /\ hp2 \in HelperOn(sent) /\ hp2.up = hp.up /\ hp2.broken = hp.broken
        /\ hp2.queue = q /\ hp2.active = busy /\ hp2.flushing = hp.flushing \ {r}
    BY <1>2, <1>4, <1>5, <1>6 DEF HelperOn
  <2> QED  BY <1>2, <2>1 DEF busy
<1> HIDE DEF busy, replies
<1>8. /\ replies \in Seq(Replies(sent)) /\ \A x \in sent : Sole(replies, {x} \X Answers)
      /\ Answered(replies) = {} /\ Refused(replies) = {}
  BY NoReply DEF replies
<1>9. \A x \in sent : Sole(hp2.queue, {x})
  BY <1>1, <1>4, <1>7
<1>10. Placed(Unread(in), ToSet(hp2.queue), hp2.active, hp2.flushing,
              Answered(out) \cup Answered(replies), Refused(out) \cup Refused(replies),
              st \cup hp2.active)
  BY <1>1, <1>4, <1>7, <1>8 DEF Placed
<1>11. /\ ToStart(in, hp2) \subseteq ToStart(in, hp)
       /\ hp2.active \subseteq st \cup ToStart(in, hp)
       /\ Spots(in, hp, out) \subseteq Unread(in) \cup ToSet(hp2.queue)
            \cup (hp2.active \ hp2.flushing) \cup Answered(out) \cup Answered(replies)
       /\ Answered(out) \cap Answered(replies) = {}
  BY <1>1, <1>4, <1>7, <1>8 DEF ToStart, Spots, Placed
<1>12. Works(in, hp, out, sent, st, in, hp2, out \o replies, st \cup hp2.active)
  BY <1>1, <1>7, <1>8, <1>9, <1>10, <1>11, StepWorks
<1> QED  BY <1>12 DEF replies

(* A helper retires: its queued requests are refused.                       *)
LEMMA RetireWorks ==
  ASSUME NEW sent \in SUBSET Nat, NEW in, NEW hp, NEW out, NEW st,
         Held(in, hp, out, sent, st)
  PROVE  Works(in, hp, out, sent, st, in, Retired(hp), out \o Refusals(hp),
               st \cup Retired(hp).active)
<1> DEFINE replies == Refusals(hp)
           hp2 == Retired(hp)
<1>1. /\ hp \in HelperOn(sent) /\ \A x \in sent : Sole(hp.queue, {x})
      /\ Placed(Unread(in), ToSet(hp.queue), hp.active, hp.flushing, Answered(out),
                Refused(out), st)
      /\ in \in Seq(Lines(sent)) /\ \A x \in sent : Sole(in, {<<"run", x>>})
  BY HeldFacts
<1>2. /\ replies \in Seq(Replies(sent)) /\ \A x \in sent : Sole(replies, {x} \X Answers)
      /\ Answered(replies) = ToSet(hp.queue) /\ Refused(replies) = ToSet(hp.queue)
  BY <1>1, RefusalsReply
<1>3. /\ hp2 \in HelperOn(sent) /\ hp2.up = hp.up /\ hp2.broken = hp.broken
      /\ hp2.queue = <<>> /\ hp2.active = hp.active /\ hp2.flushing = hp.flushing
  <2>1. <<>> \in Seq(sent)
    BY EmptySeq
  <2>2. hp2 = [hp EXCEPT !.retiring = TRUE, !.queue = <<>>]
    BY DEF Retired
  <2> HIDE DEF hp2
  <2> QED  BY <1>1, <2>1, <2>2 DEF HelperOn
<1>4. ToSet(<<>>) = {} /\ \A x \in sent : Sole(<<>>, {x})
  BY DEF ToSet, Sole
<1> HIDE DEF replies, hp2
<1>5. Placed(Unread(in), ToSet(hp2.queue), hp2.active, hp2.flushing,
             Answered(out) \cup Answered(replies), Refused(out) \cup Refused(replies),
             st \cup hp2.active)
  BY <1>1, <1>2, <1>3, <1>4 DEF Placed
<1>6. /\ ToStart(in, hp2) \subseteq ToStart(in, hp)
      /\ hp2.active \subseteq st \cup ToStart(in, hp)
      /\ Spots(in, hp, out) \subseteq Unread(in) \cup ToSet(hp2.queue)
           \cup (hp2.active \ hp2.flushing) \cup Answered(out) \cup Answered(replies)
      /\ Answered(out) \cap Answered(replies) = {}
  BY <1>1, <1>2, <1>3, <1>4 DEF ToStart, Spots, Placed
<1>7. \A x \in sent : Sole(hp2.queue, {x})
  BY <1>3, <1>4
<1>8. Works(in, hp, out, sent, st, in, hp2, out \o replies, st \cup hp2.active)
  BY <1>1, <1>2, <1>3, <1>5, <1>6, <1>7, StepWorks
<1> QED  BY <1>8 DEF replies, hp2

-----------------------------------------------------------------------------
(* What client and pipes do with the requests of one helper, of which those *)
(* in owed are not acknowledged yet.                                        *)

Tracks(in, hp, out, sent, st, owed) ==
  /\ Held(in, hp, out, sent, st)
  /\ hp.up /\ ~hp.broken => owed \subseteq Spots(in, hp, out)

LEMMA WorksTrack ==
  ASSUME NEW in, NEW hp, NEW out, NEW sent, NEW st, NEW owed,
         Tracks(in, hp, out, sent, st, owed),
         NEW in2, NEW hp2, NEW out2, NEW st2,
         Works(in, hp, out, sent, st, in2, hp2, out2, st2)
  PROVE  Tracks(in2, hp2, out2, sent, st2, owed)
<1>1. hp.up /\ ~hp.broken => owed \subseteq Spots(in2, hp2, out2)
  BY DEF Tracks, Works
<1> QED  BY <1>1 DEF Tracks, Works

(* A helper that is lost, or not spawned yet, with nothing in its pipes.    *)
LEMMA UnusedTracks ==
  ASSUME NEW sent \in SUBSET Nat, NEW st, NEW up \in BOOLEAN
  PROVE  Tracks(<<>>, [Unused EXCEPT !.up = up], <<>>, sent, st, {})
<1> DEFINE hp == [Unused EXCEPT !.up = up]
<1>1. <<>> \in Seq(Lines(sent)) /\ <<>> \in Seq(sent) /\ <<>> \in Seq(Replies(sent))
  BY EmptySeq
<1>2. DOMAIN <<>> = {}
  BY EmptySeq
<1>3. ToSet(<<>>) = {} /\ \A X : Sole(<<>>, X)
  BY <1>2 DEF ToSet, Sole
<1>4. Unread(<<>>) = {} /\ Answered(<<>>) = {} /\ Refused(<<>>) = {}
  BY <1>3 DEF Unread, Answered, Refused
<1>5. /\ hp \in HelperOn(sent) /\ hp.queue = <<>> /\ hp.active = {} /\ hp.flushing = {}
  BY <1>1 DEF Unused, HelperOn
<1> HIDE DEF hp
<1>6. Placed({}, ToSet(hp.queue), hp.active, hp.flushing, {}, {}, st)
  BY <1>3, <1>5 DEF Placed
<1>7. Tracks(<<>>, hp, <<>>, sent, st, {})
  BY <1>1, <1>3, <1>4, <1>5, <1>6 DEF Tracks, Held
<1> QED  BY <1>7 DEF hp

(* The helper exits: what it wrote can still be read.                       *)
LEMMA DeadTracks ==
  ASSUME NEW in, NEW hp, NEW out, NEW sent, NEW st, NEW owed, NEW hp2,
         Tracks(in, hp, out, sent, st, owed),
         hp2 = [Unused EXCEPT !.broken = hp.broken]
  PROVE  Tracks(in, hp2, out, sent, st, owed)
<1>1. /\ in \in Seq(Lines(sent)) /\ hp \in HelperOn(sent) /\ out \in Seq(Replies(sent))
      /\ \A r \in sent : Sole(in, {<<"run", r>>}) /\ Sole(out, {r} \X Answers)
      /\ Placed(Unread(in), ToSet(hp.queue), hp.active, hp.flushing,
                Answered(out), Refused(out), st)
  BY HeldFacts DEF Tracks
<1>2. <<>> \in Seq(sent)
  BY EmptySeq
<1>3. /\ hp2 \in HelperOn(sent) /\ hp2.up = FALSE
      /\ hp2.queue = <<>> /\ hp2.active = {} /\ hp2.flushing = {}
  BY <1>1, <1>2 DEF Unused, HelperOn
<1>4. ToSet(<<>>) = {} /\ \A X : Sole(<<>>, X)
  BY DEF ToSet, Sole
<1>5. Placed(Unread(in), ToSet(hp2.queue), hp2.active, hp2.flushing,
             Answered(out), Refused(out), st)
  BY <1>1, <1>3, <1>4 DEF Placed
<1> QED  BY <1>1, <1>3, <1>4, <1>5 DEF Tracks, Held

LEMMA BrokenTracks ==
  ASSUME NEW in, NEW hp, NEW out, NEW sent, NEW st, NEW owed, NEW hp2,
         Tracks(in, hp, out, sent, st, owed), hp2 = [hp EXCEPT !.broken = TRUE]
  PROVE  Tracks(in, hp2, out, sent, st, owed)
<1>1. hp \in HelperOn(sent)
  BY HeldFacts DEF Tracks
<1>2. /\ hp2 \in HelperOn(sent) /\ hp2.broken = TRUE /\ hp2.queue = hp.queue
      /\ hp2.active = hp.active /\ hp2.flushing = hp.flushing
  BY <1>1 DEF HelperOn
<1> QED  BY <1>2 DEF Tracks, Held

(* A request is written to its standard input.                              *)
LEMMA SentTracks ==
  ASSUME NEW in, NEW hp, NEW out, NEW sent \in SUBSET Nat, NEW st \in SUBSET sent,
         NEW owed, Held(in, hp, out, sent, st), NEW r \in Nat \ sent,
         NEW hp2, NEW up \in BOOLEAN, hp2 = [hp EXCEPT !.up = up],
         owed \subseteq Spots(in, hp, out) \/ ~(hp2.up /\ ~hp2.broken)
  PROVE  Tracks(Append(in, <<"run", r>>), hp2, out, sent \cup {r}, st, owed \cup {r})
<1> DEFINE more == sent \cup {r}
           line == <<"run", r>>
           in2 == Append(in, line)
<1>1. /\ in \in Seq(Lines(sent)) /\ hp \in HelperOn(sent) /\ out \in Seq(Replies(sent))
      /\ \A x \in sent : /\ Sole(in, {<<"run", x>>}) /\ Sole(hp.queue, {x})
                         /\ Sole(out, {x} \X Answers)
      /\ Placed(Unread(in), ToSet(hp.queue), hp.active, hp.flushing,
                Answered(out), Refused(out), st)
      /\ hp.queue \in Seq(sent)
  BY HeldFacts
<1>2. /\ Lines(sent) \subseteq Lines(more) /\ Replies(sent) \subseteq Replies(more)
      /\ line \in Lines(more) /\ line \notin Lines(sent)
  BY DEF Lines, Replies
<1>3. \A y \in Nat : <<"run", y>> = line <=> y = r
  OBVIOUS
<1>4. \A x \in more : line \in {<<"run", x>>} => x = r
  OBVIOUS
<1> HIDE DEF line
<1>5. /\ in \in Seq(Lines(more)) /\ out \in Seq(Replies(more)) /\ hp.queue \in Seq(more)
  <2>1. sent \subseteq more
    OBVIOUS
  <2> HIDE DEF more
  <2> QED  BY <1>1, <1>2, <2>1, SeqMonotonic
<1>6. /\ ToSet(in) \subseteq Lines(sent) /\ ToSet(hp.queue) \subseteq sent
      /\ ToSet(out) \subseteq Replies(sent)
  BY <1>1, QueueMembers
<1>7. /\ hp2 \in HelperOn(more) /\ hp2.queue = hp.queue
      /\ hp2.active = hp.active /\ hp2.flushing = hp.flushing
  BY <1>1, <1>5 DEF HelperOn
<1>8. /\ in2 \in Seq(Lines(more)) /\ ToSet(in2) = ToSet(in) \cup {line}
  <2> HIDE DEF more
  <2> QED  BY <1>2, <1>5, ToSetAppend, AppendProperties
<1>9. Unread(in2) = Unread(in) \cup {r}
  <2>1. r \in Nat
    OBVIOUS
  <2> QED  BY <1>3, <1>8, <2>1 DEF Unread
<1>10. ASSUME NEW x \in more PROVE Sole(in2, {<<"run", x>>})
  <2>1. Sole(in, {<<"run", x>>})
    <3>1. CASE x \in sent
      BY <1>1, <3>1
    <3>2. CASE x \notin sent
      <4>1. <<"run", x>> \notin ToSet(in)
        BY <1>6, <3>2 DEF Lines
      <4> QED  BY <4>1 DEF Sole, ToSet
    <3> QED  BY <3>1, <3>2
  <2>2. line \in {<<"run", x>>} => ToSet(in) \cap {<<"run", x>>} = {}
    BY <1>2, <1>6
  <2> QED  BY <1>2, <1>5, <2>1, <2>2, SoleAppend
<1>11. ASSUME NEW x \in more PROVE Sole(hp2.queue, {x}) /\ Sole(out, {x} \X Answers)
  <2>1. CASE x \in sent
    BY <1>1, <1>7, <2>1
  <2>2. CASE x \notin sent
    <3>1. ToSet(hp.queue) \cap {x} = {}
      BY <1>6, <2>2
    <3>2. ToSet(out) \cap ({x} \X Answers) = {}
      BY <1>6, <2>2 DEF Replies
    <3> QED  BY <1>7, <3>1, <3>2 DEF Sole, ToSet
  <2> QED  BY <2>1, <2>2
<1>12. r \notin ToSet(hp.queue) /\ r \notin st /\ r \notin Answered(out)
  BY <1>6 DEF Answered, Replies
<1>13. Placed(Unread(in2), ToSet(hp2.queue), hp2.active, hp2.flushing,
              Answered(out), Refused(out), st)
  BY <1>1, <1>7, <1>9, <1>12 DEF Placed
<1>14. Spots(in2, hp2, out) = Spots(in, hp, out) \cup {r}
  BY <1>7, <1>9 DEF Spots
<1> HIDE DEF in2, more
<1>15. Tracks(in2, hp2, out, more, st, owed \cup {r})
  BY <1>5, <1>7, <1>8, <1>10, <1>11, <1>13, <1>14 DEF Tracks, Held
<1> QED  BY <1>15 DEF in2, more, line

(* The client reads an answer and forgets its request.                      *)
LEMMA AnsweredTracks ==
  ASSUME NEW in, NEW hp, NEW out, NEW sent \in SUBSET Nat, NEW st, NEW owed,
         Tracks(in, hp, out, sent, st, owed), out # <<>>
  PROVE  /\ Tracks(in, hp, Tail(out), sent, st, owed \ {Head(out)[1]})
         /\ Head(out) \in Replies(sent)
         /\ Head(out)[2] # "done" => Head(out)[1] \in Refused(out)
<1> DEFINE m == Head(out)
           t == Tail(out)
<1>1. /\ in \in Seq(Lines(sent)) /\ hp \in HelperOn(sent) /\ out \in Seq(Replies(sent))
      /\ \A x \in sent : /\ Sole(in, {<<"run", x>>}) /\ Sole(hp.queue, {x})
                         /\ Sole(out, {x} \X Answers)
      /\ Placed(Unread(in), ToSet(hp.queue), hp.active, hp.flushing,
                Answered(out), Refused(out), st)
  BY HeldFacts DEF Tracks
<1>2. ToSet(out) = {m} \cup ToSet(t) /\ m \in Replies(sent) /\ t \in Seq(Replies(sent))
  BY <1>1, ToSetTail
<1>3. \A x \in sent : Sole(t, {x} \X Answers)
  BY <1>1, SoleTail
<1> HIDE DEF m, t
<1>4. PICK x \in sent, a \in Answers : m = <<x, a>> /\ m[1] = x /\ m[2] = a
  <2>1. m \in sent \X Answers
    BY <1>2 DEF Replies
  <2>2. m[1] \in sent /\ m[2] \in Answers /\ m = <<m[1], m[2]>>
    BY <2>1
  <2> QED  BY <2>2, Zenon
<1>5. /\ Answered(t) \subseteq Answered(out) /\ Answered(out) \subseteq Answered(t) \cup {m[1]}
      /\ Refused(t) \subseteq Refused(out) /\ Refused(t) \subseteq Answered(t)
  <2>1. \A y, b : <<y, b>> \in ToSet(out) <=> (<<y, b>> \in ToSet(t) \/ (y = x /\ b = a))
    BY <1>2, <1>4
  <2>2. Answered(out) \subseteq Answered(t) \cup {x} /\ Answered(t) \subseteq Answered(out)
    BY <2>1 DEF Answered
  <2>3. Refused(t) \subseteq Refused(out) /\ Refused(t) \subseteq Answered(t)
    BY <2>1 DEF Refused, Answered
  <2> QED  BY <1>4, <2>2, <2>3
<1>6. Placed(Unread(in), ToSet(hp.queue), hp.active, hp.flushing,
             Answered(t), Refused(t), st)
  BY <1>1, <1>5 DEF Placed
<1>7. Spots(in, hp, out) \subseteq Spots(in, hp, t) \cup {m[1]}
  BY <1>5 DEF Spots
<1>8. Tracks(in, hp, t, sent, st, owed \ {m[1]})
  BY <1>1, <1>2, <1>3, <1>6, <1>7 DEF Tracks, Held
<1>9. m[2] # "done" => m[1] \in Refused(out)
  <2>1. x \in Nat /\ <<x, a>> \in ToSet(out)
    BY <1>2, <1>4
  <2> QED  BY <1>4, <2>1 DEF Refused
<1> QED  BY <1>2, <1>8, <1>9 DEF m, t

(* A line the helper will not read is dropped, and its request forgotten.   *)
LEMMA PurgedTracks ==
  ASSUME NEW in, NEW hp, NEW out, NEW sent \in SUBSET Nat, NEW st, NEW owed,
         Tracks(in, hp, out, sent, st, owed), NEW r
  PROVE  Tracks(Purged(in, {<<"run", r>>}), hp, out, sent, st, owed \ {r})
<1> DEFINE p == Purged(in, {<<"run", r>>})
<1>1. /\ in \in Seq(Lines(sent)) /\ hp \in HelperOn(sent) /\ out \in Seq(Replies(sent))
      /\ \A x \in sent : /\ Sole(in, {<<"run", x>>}) /\ Sole(hp.queue, {x})
                         /\ Sole(out, {x} \X Answers)
      /\ Placed(Unread(in), ToSet(hp.queue), hp.active, hp.flushing,
                Answered(out), Refused(out), st)
  BY HeldFacts DEF Tracks
<1>2. /\ p \in Seq(Lines(sent)) /\ ToSet(p) = ToSet(in) \ {<<"run", r>>}
      /\ \A x \in sent : Sole(p, {<<"run", x>>})
  BY <1>1, PurgedFacts
<1> HIDE DEF p
<1>3. Unread(p) = Unread(in) \ {r}
  BY <1>2 DEF Unread
<1>4. Placed(Unread(p), ToSet(hp.queue), hp.active, hp.flushing,
             Answered(out), Refused(out), st)
  BY <1>1, <1>3 DEF Placed
<1>5. Spots(in, hp, out) \subseteq Spots(p, hp, out) \cup {r}
  BY <1>3 DEF Spots
<1>6. Tracks(p, hp, out, sent, st, owed \ {r})
  BY <1>1, <1>2, <1>4, <1>5 DEF Tracks, Held
<1> QED  BY <1>6 DEF p

(* Cancels are written to its standard input.                               *)
LEMMA CancelsTrack ==
  ASSUME NEW in, NEW hp, NEW out, NEW sent \in SUBSET Nat, NEW st, NEW owed,
         Tracks(in, hp, out, sent, st, owed), NEW cancels \in Seq({"cancel"} \X sent)
  PROVE  Tracks(in \o cancels, hp, out, sent, st, owed)
<1> DEFINE in2 == in \o cancels
<1>1. /\ in \in Seq(Lines(sent)) /\ \A x \in sent : Sole(in, {<<"run", x>>})
  BY HeldFacts DEF Tracks
<1>2. cancels \in Seq(Lines(sent)) /\ ToSet(cancels) \subseteq {"cancel"} \X sent
  <2>1. {"cancel"} \X sent \subseteq Lines(sent)
    BY DEF Lines
  <2>2. cancels \in Seq(Lines(sent))
    BY <2>1, SeqMonotonic
  <2> QED  BY <2>2, QueueMembers
<1>3. \A x : ToSet(cancels) \cap {<<"run", x>>} = {}
  BY <1>2
<1>4. /\ in2 \in Seq(Lines(sent)) /\ ToSet(in2) = ToSet(in) \cup ToSet(cancels)
  BY <1>1, <1>2, ToSetConcat, ConcatProperties
<1>5. ASSUME NEW x \in sent PROVE Sole(in2, {<<"run", x>>})
  <2>1. Sole(cancels, {<<"run", x>>})
    BY <1>3 DEF Sole, ToSet
  <2> QED  BY <1>1, <1>2, <1>3, <2>1, SoleConcat
<1> HIDE DEF in2
<1>6. Unread(in2) = Unread(in)
  BY <1>3, <1>4 DEF Unread
<1>7. Tracks(in2, hp, out, sent, st, owed)
  BY <1>4, <1>5, <1>6 DEF Tracks, Held, Spots
<1> QED  BY <1>7 DEF in2

(* Fewer requests are owed.                                                 *)
LEMMA FewerTracks ==
  ASSUME NEW in, NEW hp, NEW out, NEW sent, NEW st, NEW owed,
         Tracks(in, hp, out, sent, st, owed), NEW owed2, owed2 \subseteq owed
  PROVE  Tracks(in, hp, out, sent, st, owed2)
BY DEF Tracks

-----------------------------------------------------------------------------
(* What the steps of the host do to the calls and the client.               *)

(* A call goes from d to e without a new request; only a call that is not   *)
(* settled gets a new outcome, which is o.                                  *)
Goes(d, e, o) ==
  /\ d.place # "unborn" => e.place # "unborn"
  /\ d.place = "settled" => e.place = "settled" /\ e.outcome = d.outcome
  /\ e.request = d.request /\ e.attempt = d.attempt
  /\ e.outcome \in {d.outcome, o}

LEMMA RejectedGoes ==
  ASSUME NEW cs, AreCalls(cs), NEW rs, NEW o
  PROVE  \A c \in Calls : Goes(cs[c], Rejected(cs, rs, o)[c], o)
<1> SUFFICES ASSUME NEW c \in Calls PROVE Goes(cs[c], Rejected(cs, rs, o)[c], o)
  OBVIOUS
<1> DEFINE d == cs[c]
           e == Rejected(cs, rs, o)[c]
<1>1. IsCall(d)
  BY DEF AreCalls
<1>2. \/ d.place = "waiting" /\ e = [d EXCEPT !.place = "rejected", !.outcome = o]
      \/ e = d
  BY DEF Rejected
<1> HIDE DEF d, e
<1>3. Goes(d, e, o)
  BY <1>1, <1>2 DEF Goes, IsCall
<1> QED  BY <1>3 DEF d, e

LEMMA SettledGoes ==
  ASSUME NEW cs, AreCalls(cs), NEW c \in Calls, NEW o,
         cs[c].place # "settled" \/ cs[c].outcome = o
  PROVE  \A d \in Calls : Goes(cs[d], Settled(cs, c, o)[d], o)
<1> SUFFICES ASSUME NEW d \in Calls PROVE Goes(cs[d], Settled(cs, c, o)[d], o)
  OBVIOUS
<1> DEFINE e == Settled(cs, c, o)[d]
           b == cs[d]
<1>1. IsCall(b) /\ cs = [x \in Calls |-> cs[x]]
  BY DEF AreCalls
<1>2. \/ c = d /\ e = [b EXCEPT !.place = "settled", !.outcome = o]
      \/ e = b
  BY <1>1 DEF Settled
<1>3. c = d => b.place # "settled" \/ b.outcome = o
  OBVIOUS
<1> HIDE DEF b, e
<1>4. Goes(b, e, o)
  BY <1>1, <1>2, <1>3 DEF Goes, IsCall
<1> QED  BY <1>4 DEF b, e

(* The host goes on, without a new request.                                 *)
ClientGoes(cl) ==
  /\ cl.spawned = client.spawned /\ client.lost \subseteq cl.lost
  /\ cl.unacked \subseteq client.unacked

Moves(o) ==
  /\ request' = request /\ ClientGoes(client')
  /\ \A c \in Calls : Goes(call[c], call'[c], o)

LEMMA StaysMoves ==
  ASSUME UNCHANGED <<call, request, client>>, NEW o
  PROVE  Moves(o)
BY DEF Moves, ClientGoes, Goes

LEMMA LoseMoves ==
  ASSUME HelperInv, NEW n \in 1..client.spawned, NEW o, Lose(n, o)
  PROVE  Moves(o)
<1>1. client' = GiveUp(client, n) /\ call' = Rejected(call, SentTo(n), o) /\ request' = request
  BY DEF Lose
<1>2. ClientGoes(client')
  BY <1>1, InvFacts, GiveUpFacts DEF Paired, ClientGoes
<1> QED  BY <1>1, <1>2, InvFacts, RejectedGoes DEF Moves

LEMMA WriteFailsMoves ==
  ASSUME HelperInv, NEW r, NEW o, WriteFails(r, o)
  PROVE  Moves(o)
<1>1. client' = Forget(client, {r}) /\ call' = Rejected(call, {r}, o) /\ request' = request
  BY DEF WriteFails
<1>2. ClientGoes(client')
  BY <1>1, InvFacts, ForgetFacts DEF ClientGoes
<1> QED  BY <1>1, <1>2, InvFacts, RejectedGoes DEF Moves

LEMMA AnswerMoves ==
  ASSUME HelperInv, NEW n, Answer(n)
  PROVE  Moves(Head(pipeOut[n])[2])
<1> DEFINE r == Head(pipeOut[n])[1]
           answer == Head(pipeOut[n])[2]
           left == Forget(client, {r})
           timer == left.idleTimer \/ Idle(left)
<1>1. /\ client' = [left EXCEPT !.idleTimer = timer]
      /\ call' = IF r \notin client.pending THEN call
                 ELSE IF answer = "retiring" THEN Rejected(call, {r}, answer)
                 ELSE Settled(call, request[r].call, answer)
      /\ request' = request
  BY DEF Answer
<1> HIDE DEF r, answer
<1>2. /\ left \in Clients /\ left.unacked = client.unacked \ {r}
      /\ left.lost = client.lost /\ left.spawned = client.spawned
  BY InvFacts, ForgetFacts
<1> HIDE DEF left, timer
<1>3. ClientGoes(client')
  BY <1>1, <1>2 DEF ClientGoes, Clients
<1>4. \A c \in Calls : Goes(call[c], call'[c], answer)
  <2>1. CASE r \notin client.pending
    BY <1>1, <2>1 DEF Goes
  <2>2. CASE r \in client.pending /\ answer = "retiring"
    BY <1>1, <2>2, InvFacts, RejectedGoes
  <2>3. CASE r \in client.pending /\ answer # "retiring"
    <3> DEFINE d == request[r].call
    <3>1. call' = Settled(call, d, answer) /\ d \in Calls /\ call[d].place # "settled"
      BY <1>1, <2>3, InvFacts, RequestFacts DEF Paired
    <3> HIDE DEF d
    <3> QED  BY <3>1, InvFacts, SettledGoes
  <2> QED  BY <2>1, <2>2, <2>3
<1>5. Moves(answer)
  BY <1>1, <1>3, <1>4 DEF Moves
<1> QED  BY <1>5 DEF answer

LEMMA AbortMoves ==
  ASSUME HelperInv, NEW c \in Calls, Abort(c)
  PROVE  Moves("aborted")
<1>0. IsCall(call[c]) /\ call = [d \in Calls |-> call[d]]
  BY InvFacts DEF AreCalls
<1>1. CASE call[c].place = "rejected"
  <2>1. call' = [call EXCEPT ![c].aborted = TRUE] /\ UNCHANGED <<client, request>>
    BY <1>1 DEF Abort
  <2>2. call'[c] = [call[c] EXCEPT !.aborted = TRUE] /\ \A d \in Calls \ {c} : call'[d] = call[d]
    BY <1>0, <2>1
  <2>3. Goes(call[c], call'[c], "aborted")
    BY <1>0, <2>2 DEF Goes, IsCall
  <2>4. \A d \in Calls \ {c} : Goes(call[d], call'[d], "aborted")
    BY <2>2 DEF Goes
  <2> QED  BY <2>1, <2>3, <2>4 DEF Moves, ClientGoes
<1>2. CASE call[c].place = "waiting"
  <2> DEFINE over == Settled(call, c, "aborted")
  <2>1. /\ call' = [over EXCEPT ![c].aborted = TRUE]
        /\ client' = [client EXCEPT !.pending = @ \ {call[c].request}] /\ request' = request
    BY <1>2 DEF Abort
  <2>2. ClientGoes(client')
    BY <2>1, InvFacts DEF ClientGoes, Clients
  <2>3. \A d \in Calls : Goes(call[d], over[d], "aborted")
    BY <1>2, InvFacts, SettledGoes
  <2>4. AreCalls(over)
    BY InvFacts, SettledFacts
  <2> HIDE DEF over
  <2>5. /\ IsCall(over[c]) /\ call'[c] = [over[c] EXCEPT !.aborted = TRUE]
        /\ \A d \in Calls \ {c} : call'[d] = over[d]
    BY <2>1, <2>4 DEF AreCalls
  <2>6. Goes(call[c], call'[c], "aborted")
    BY <2>3, <2>5 DEF Goes, IsCall
  <2>7. \A d \in Calls \ {c} : Goes(call[d], call'[d], "aborted")
    BY <2>3, <2>5
  <2> QED  BY <2>1, <2>2, <2>6, <2>7 DEF Moves
<1> QED  BY <1>1, <1>2 DEF Abort

LEMMA DisposeMoves ==
  ASSUME HelperInv, DisposeBegin \/ DisposeEnd
  PROVE  Moves("closed")
<1>1. CASE DisposeBegin
  BY <1>1, InvFacts DEF DisposeBegin, Moves, ClientGoes, Goes, Clients
<1>2. CASE DisposeEnd
  <2>1. /\ call' = Rejected(call, client.pending, "closed") /\ request' = request
        /\ client' = [client EXCEPT !.phase = "closed", !.pending = {}, !.unacked = {},
                                    !.current = 0, !.lost = @ \cup client.closing]
    BY <1>2 DEF DisposeEnd
  <2>2. ClientGoes(client')
    BY <2>1, InvFacts DEF ClientGoes, Clients
  <2> QED  BY <2>1, <2>2, InvFacts, RejectedGoes DEF Moves
<1> QED  BY <1>1, <1>2

LEMMA LateEventMoves ==
  ASSUME HelperInv, NEW n, LateEvent(n), NEW o
  PROVE  Moves(o)
BY InvFacts DEF LateEvent, Moves, ClientGoes, Goes, Clients

(* A call that is not sent, or not again, settles.                          *)
Ends(c, o) ==
  /\ \/ o = call[c].outcome
     \/ o = "closed" /\ call[c].place = "unborn"
  /\ call' = Settled(call, c, o)
  /\ UNCHANGED <<request, client, helper, pipeIn, pipeOut, started>>

LEMMA EndMoves ==
  ASSUME HelperInv, NEW c \in Calls, NEW o, Ends(c, o)
  PROVE  Moves(o)
<1>1. /\ call[c].place # "settled" \/ call[c].outcome = o
      /\ call' = Settled(call, c, o) /\ UNCHANGED <<request, client>>
  BY DEF Ends
<1> QED  BY <1>1, InvFacts, SettledGoes DEF Moves, ClientGoes

(* The host sends call c, where cs and cl are its calls and its client once *)
(* the helper of the first request is given up.                             *)
Sends(c, attempt, cl, cs) ==
  /\ ExecuteOnce(c, attempt, cl, cs) /\ started' = started
  /\ Fit(cs, request, cl) /\ ClientGoes(cl)
  /\ attempt \in {0, 1} /\ cs[c].place = IF attempt = 0 THEN "unborn" ELSE "rejected"
  /\ attempt = 1 => cs[c].attempt = 0
  /\ client.unacked \subseteq cl.unacked \cup {r \in DOMAIN request : HelperOf(r) \in cl.lost}
  /\ \E o \in {"retiring", "lost"} : \A d \in Calls : Goes(call[d], cs[d], o)

LEMMA ExecuteSends ==
  ASSUME HelperInv, NEW c \in Calls, Execute(c)
  PROVE  Sends(c, 0, client, call) \/ Ends(c, "closed")
<1>1. CASE client.phase = "open"
  <2>1. /\ call[c].place = "unborn" /\ ExecuteOnce(c, 0, client, call)
        /\ started' = started
    BY <1>1 DEF Execute
  <2>2. \A d \in Calls : Goes(call[d], call[d], "lost")
    BY DEF Goes
  <2> QED  BY <2>1, <2>2 DEF Sends, ClientGoes, HelperInv
<1>2. CASE client.phase # "open"
  BY <1>2 DEF Execute, Ends
<1> QED  BY <1>1, <1>2

LEMMA RetrySends ==
  ASSUME HelperInv, NEW c \in Calls, Retry(c)
  PROVE  \/ \E cl, cs : Sends(c, 1, cl, cs)
         \/ Ends(c, call[c].outcome)
<1>1. CASE MayRetry(c)
  <2> DEFINE failed == HelperOf(call[c].request)
             left == GiveUp(client, failed)
             o == call[c].outcome
             cs == Rejected(call, SentTo(failed), o)
  <2>1. /\ call[c].place = "rejected" /\ call[c].attempt = 0 /\ o \in {"retiring", "lost"}
        /\ ExecuteOnce(c, call[c].attempt + 1, left, cs) /\ started' = started
    BY <1>1 DEF Retry, MayRetry
  <2>2. ExecuteOnce(c, 1, left, cs)
    BY <2>1
  <2>3. failed \in 1..client.spawned
    BY <2>1, InvFacts DEF Paired, Attached, HelperOf
  <2> HIDE DEF failed, o
  <2>4. Fit(cs, request, left)
    BY <2>3, GivenUpFit DEF HelperInv
  <2>5. cs[c].place = "rejected" /\ cs[c].attempt = 0
    BY <2>1, InvFacts, RejectedFacts
  <2>6. \A d \in Calls : Goes(call[d], cs[d], o)
    BY InvFacts, RejectedGoes
  <2>7. /\ left.unacked = client.unacked \ SentTo(failed)
        /\ left.lost = client.lost \cup {failed} /\ left.spawned = client.spawned
    BY <2>3, InvFacts, GiveUpFacts DEF Paired
  <2> HIDE DEF left, cs
  <2>8. client.unacked \subseteq left.unacked \cup {r \in DOMAIN request : HelperOf(r) \in left.lost}
    BY <2>7 DEF SentTo
  <2>9. ClientGoes(left)
    BY <2>7 DEF ClientGoes
  <2>10. Sends(c, 1, left, cs)
    BY <2>1, <2>2, <2>4, <2>5, <2>6, <2>8, <2>9 DEF Sends
  <2> QED  BY <2>10
<1>2. CASE ~MayRetry(c)
  BY <1>2 DEF Retry, Ends
<1> QED  BY <1>1, <1>2

(* ... to helper n, the current one or a new one.                           *)
SentOver(c, attempt, cl, cs, n) ==
  /\ n \in 1..(cl.spawned + 1) /\ n \notin cl.lost
  /\ client'.lost = cl.lost
  /\ client'.spawned = IF n > cl.spawned THEN n ELSE cl.spawned
  /\ helper' = [HelpersWithout(cl.lost) EXCEPT ![n].up = @ \/ n > cl.spawned]
  /\ pipeOut' = Without(cl.lost, pipeOut)
  /\ \/ /\ c \in Oversized /\ call' = Settled(cs, c, "tooLarge")
        /\ client'.unacked = cl.unacked /\ request' = request
        /\ pipeIn' = Without(cl.lost, pipeIn)
     \/ /\ c \notin Oversized
        /\ call' = [cs EXCEPT ![c] = Asked(cs[c], Len(request) + 1, attempt)]
        /\ client'.unacked = cl.unacked \cup {Len(request) + 1}
        /\ request' = Append(request, [call |-> c, helper |-> n])
        /\ pipeIn' = [Without(cl.lost, pipeIn) EXCEPT ![n] =
                        Append(@, <<"run", Len(request) + 1>>)]

LEMMA SendsTo ==
  ASSUME HelperInv, NEW c \in Calls, NEW attempt, NEW cl, NEW cs, Sends(c, attempt, cl, cs)
  PROVE  \E n : SentOver(c, attempt, cl, cs, n)
<1> DEFINE n == IF Reusable(cl) THEN cl.current ELSE cl.spawned + 1
           r == Len(request) + 1
           ready == [cl EXCEPT !.current = n, !.idleTimer = FALSE,
                               !.spawned = IF n > @ THEN n ELSE @]
           to == [ready EXCEPT !.pending = @ \cup {r}, !.unacked = @ \cup {r}]
<1>1. cl \in Clients /\ Attached(request, cl) /\ AreCalls(cs)
  BY DEF Sends, Fit, Types
<1>2. cl.spawned \in Nat /\ cl.current \in Nat
  BY <1>1 DEF Clients
<1>3. n \in 1..(cl.spawned + 1) /\ n \notin cl.lost
  BY <1>1, <1>2 DEF Attached, Reusable
<1>4. /\ helper' = [HelpersWithout(cl.lost) EXCEPT ![n].up = @ \/ n > cl.spawned]
      /\ pipeOut' = Without(cl.lost, pipeOut)
  BY DEF Sends, ExecuteOnce
<1>5. CASE c \in Oversized
  <2>1. /\ client' = ready /\ call' = Settled(cs, c, "tooLarge") /\ request' = request
        /\ pipeIn' = Without(cl.lost, pipeIn)
    BY <1>5 DEF Sends, ExecuteOnce
  <2> HIDE DEF n, r
  <2>2. /\ client'.lost = cl.lost /\ client'.unacked = cl.unacked
        /\ client'.spawned = IF n > cl.spawned THEN n ELSE cl.spawned
    BY <1>1, <2>1 DEF Clients
  <2> QED  BY <1>3, <1>4, <1>5, <2>1, <2>2 DEF SentOver
<1>6. CASE c \notin Oversized
  <2>1. /\ client' = to /\ call' = [cs EXCEPT ![c] = Asked(cs[c], r, attempt)]
        /\ request' = Append(request, [call |-> c, helper |-> n])
        /\ pipeIn' = [Without(cl.lost, pipeIn) EXCEPT ![n] = Append(@, <<"run", r>>)]
    BY <1>1, <1>6 DEF Sends, ExecuteOnce, Asked, AreCalls
  <2> HIDE DEF n, r
  <2>2. /\ client'.lost = cl.lost /\ client'.unacked = cl.unacked \cup {r}
        /\ client'.spawned = IF n > cl.spawned THEN n ELSE cl.spawned
    <3>1. /\ ready.lost = cl.lost /\ ready.unacked = cl.unacked
          /\ ready.spawned = IF n > cl.spawned THEN n ELSE cl.spawned
          /\ DOMAIN ready = DOMAIN cl
      BY <1>1 DEF Clients
    <3> HIDE DEF ready
    <3> QED  BY <1>1, <2>1, <3>1 DEF Clients
  <2>3. SentOver(c, attempt, cl, cs, n)
    BY <1>3, <1>4, <1>6, <2>1, <2>2 DEF SentOver, r
  <2> QED  BY <2>3
<1> QED  BY <1>5, <1>6

-----------------------------------------------------------------------------
(* There are no more requests and helpers than the model has numbers for:   *)
(* one for every call begun, and one for every second attempt.              *)

Begun(cs) == {c \in Calls : cs[c].place # "unborn"}
Again(cs) == {c \in Begun(cs) : cs[c].attempt = 1}
Sendings(cs) == Cardinality(Begun(cs)) + Cardinality(Again(cs))

Counts ==
  /\ Len(request) <= Sendings(call) /\ client.spawned <= Sendings(call)
  /\ \A r \in DOMAIN request : request[r].call \notin Oversized

LEMMA SendingsGrow ==
  ASSUME NEW cs, NEW cs2, Begun(cs) \subseteq Begun(cs2), Again(cs) \subseteq Again(cs2)
  PROVE  /\ Sendings(cs) \in Nat /\ Sendings(cs2) \in Nat /\ Sendings(cs) <= Sendings(cs2)
         /\ Begun(cs) # Begun(cs2) \/ Again(cs) # Again(cs2)
              => Sendings(cs) + 1 <= Sendings(cs2)
<1>1. /\ IsFiniteSet(Begun(cs)) /\ IsFiniteSet(Again(cs))
      /\ IsFiniteSet(Begun(cs2)) /\ IsFiniteSet(Again(cs2))
  <2>1. /\ Begun(cs) \subseteq Calls /\ Again(cs) \subseteq Calls
        /\ Begun(cs2) \subseteq Calls /\ Again(cs2) \subseteq Calls
    BY DEF Begun, Again
  <2> QED  BY <2>1, CallsAssumption, FS_Subset
<1> DEFINE b == Cardinality(Begun(cs))
           b2 == Cardinality(Begun(cs2))
           a == Cardinality(Again(cs))
           a2 == Cardinality(Again(cs2))
<1>2. b \in Nat /\ b2 \in Nat /\ a \in Nat /\ a2 \in Nat
  BY <1>1, FS_CardinalityType
<1>3. b <= b2 /\ (b = b2 => Begun(cs) = Begun(cs2))
  BY <1>1, FS_Subset
<1>4. a <= a2 /\ (a = a2 => Again(cs) = Again(cs2))
  BY <1>1, FS_Subset
<1>5. Sendings(cs) = a + b /\ Sendings(cs2) = a2 + b2
  <2>1. Sendings(cs) = b + a /\ Sendings(cs2) = b2 + a2
    BY DEF Sendings
  <2> HIDE DEF a, b, a2, b2
  <2> QED  BY <1>2, <2>1
<1> HIDE DEF a, b, a2, b2
<1> QED  BY <1>2, <1>3, <1>4, <1>5

LEMMA SendingsBounded ==
  ASSUME NEW cs
  PROVE  Sendings(cs) \in Nat /\ Sendings(cs) <= MaxRequests /\ MaxRequests \in Nat
<1>1. Begun(cs) \subseteq Calls /\ Again(cs) \subseteq Calls /\ IsFiniteSet(Calls)
  BY CallsAssumption DEF Begun, Again
<1> DEFINE b == Cardinality(Begun(cs))
           a == Cardinality(Again(cs))
           m == Cardinality(Calls)
<1>2. b \in Nat /\ a \in Nat /\ m \in Nat
  <2>1. IsFiniteSet(Begun(cs)) /\ IsFiniteSet(Again(cs))
    BY <1>1, FS_Subset
  <2> QED  BY <1>1, <2>1, FS_CardinalityType
<1>3. b <= m
  BY <1>1, FS_Subset
<1>4. a <= m
  BY <1>1, FS_Subset
<1>5. Sendings(cs) = b + a /\ MaxRequests = 2 * m
  BY DEF Sendings, MaxRequests
<1> HIDE DEF a, b, m
<1> QED  BY <1>2, <1>3, <1>4, <1>5

LEMMA MovesCount ==
  ASSUME HelperInv, Counts, NEW o, Moves(o)
  PROVE  Counts'
<1>1. /\ request' = request /\ client'.spawned = client.spawned
      /\ \A c \in Calls : Goes(call[c], call'[c], o)
  BY DEF Moves, ClientGoes
<1> DEFINE cs2 == call'
<1>2. Begun(call) \subseteq Begun(cs2) /\ Again(call) \subseteq Again(cs2)
  BY <1>1 DEF Begun, Again, Goes
<1> HIDE DEF cs2
<1>3. /\ Sendings(call) \in Nat /\ Sendings(cs2) \in Nat /\ Sendings(call) <= Sendings(cs2)
  BY <1>2, SendingsGrow
<1>4. Len(request) \in Nat /\ client.spawned \in Nat
  BY InvFacts, RequestFacts DEF Clients
<1>5. Len(request) <= Sendings(cs2) /\ client.spawned <= Sendings(cs2)
  BY <1>3, <1>4 DEF Counts
<1> QED  BY <1>1, <1>5 DEF Counts, cs2, Sendings, Begun, Again

LEMMA SendsCount ==
  ASSUME HelperInv, Counts, NEW c \in Calls, NEW attempt, NEW cl, NEW cs,
         Sends(c, attempt, cl, cs)
  PROVE  Counts'
<1>1. PICK n : SentOver(c, attempt, cl, cs, n)
  BY SendsTo
<1>2. /\ attempt \in {0, 1} /\ AreCalls(cs) /\ cl.spawned = client.spawned
      /\ cs[c].place = IF attempt = 0 THEN "unborn" ELSE "rejected"
      /\ attempt = 1 => cs[c].attempt = 0
      /\ Paired(cs, request, cl)
  BY DEF Sends, Fit, Types, ClientGoes
<1>3. PICK o : \A d \in Calls : Goes(call[d], cs[d], o)
  BY DEF Sends
<1> DEFINE cs2 == call'
<1>4. /\ Len(request) \in Nat /\ DOMAIN request = 1..Len(request) /\ client.spawned \in Nat
      /\ request \in SentRequests
  BY InvFacts, RequestFacts DEF Clients
<1>5. IsCall(cs[c]) /\ cs = [d \in Calls |-> cs[d]]
  BY <1>2 DEF AreCalls
<1>6. Begun(call) \subseteq Begun(cs) /\ Again(call) \subseteq Again(cs)
  BY <1>3 DEF Begun, Again, Goes
<1>7. attempt = 1 => c \notin Oversized
  BY <1>2 DEF Counts, Paired
<1>8. /\ cs2[c].place # "unborn"
      /\ cs2[c].attempt = IF c \in Oversized THEN cs[c].attempt ELSE attempt
      /\ \A d \in Calls \ {c} : cs2[d] = cs[d]
  <2>1. CASE c \in Oversized
    <3>1. call' = Settled(cs, c, "tooLarge")
      BY <1>1, <2>1 DEF SentOver
    <3> QED  BY <1>2, <2>1, <3>1, SettledFacts
  <2>2. CASE c \notin Oversized
    <3> DEFINE r == Len(request) + 1
               mine == Asked(cs[c], r, attempt)
    <3>1. call' = [cs EXCEPT ![c] = mine]
      BY <1>1, <2>2 DEF SentOver
    <3>2. mine.place = "waiting" /\ mine.attempt = attempt
      <4>1. r \in Nat
        BY <1>4
      <4> HIDE DEF r
      <4> QED  BY <1>2, <1>5, <4>1, AskedFacts
    <3> HIDE DEF mine
    <3> QED  BY <1>5, <2>2, <3>1, <3>2
  <2> QED  BY <2>1, <2>2
<1> HIDE DEF cs2
<1>9. /\ Begun(cs) \subseteq Begun(cs2) /\ Again(cs) \subseteq Again(cs2)
      /\ Begun(cs) # Begun(cs2) \/ Again(cs) # Again(cs2)
  <2>1. CASE attempt = 0
    <3>1. c \notin Begun(cs) /\ c \in Begun(cs2)
      BY <1>2, <1>8, <2>1 DEF Begun
    <3>2. \A d \in Begun(cs) : d # c /\ cs2[d] = cs[d] /\ d \in Begun(cs2)
      BY <1>8, <3>1 DEF Begun
    <3> QED  BY <3>1, <3>2 DEF Again
  <2>2. CASE attempt = 1
    <3>1. c \notin Again(cs) /\ c \in Again(cs2)
      BY <1>2, <1>7, <1>8, <2>2 DEF Begun, Again
    <3>2. \A d \in Begun(cs) : d \in Begun(cs2) /\ (d = c \/ cs2[d] = cs[d])
      BY <1>8 DEF Begun
    <3> QED  BY <3>1, <3>2 DEF Again
  <2> QED  BY <1>2, <2>1, <2>2
<1>10. Sendings(call) <= Sendings(cs) /\ Sendings(call) \in Nat
  BY <1>6, SendingsGrow
<1>11. Sendings(cs) \in Nat /\ Sendings(cs2) \in Nat /\ Sendings(cs) + 1 <= Sendings(cs2)
  BY <1>9, SendingsGrow
<1> DEFINE rq == request'
           spawned == client'.spawned
<1>12. Len(rq) <= Len(request) + 1 /\ Len(rq) \in Nat
       /\ \A r \in DOMAIN rq : rq[r].call \notin Oversized
  <2>1. CASE c \in Oversized
    BY <1>1, <1>4, <2>1 DEF SentOver, Counts
  <2>2. CASE c \notin Oversized
    <3> DEFINE e == [call |-> c, helper |-> n]
               S == [call: Calls, helper: Nat]
    <3>1. rq = Append(request, e) /\ e.call = c
      BY <1>1, <2>2 DEF SentOver
    <3>2. e \in S /\ request \in Seq(S)
      <4>1. n \in Nat
        BY <1>1, <1>2, <1>4 DEF SentOver
      <4> QED  BY <1>4, <4>1 DEF SentRequests
    <3> HIDE DEF e, S, rq
    <3>3. /\ Len(rq) = Len(request) + 1 /\ DOMAIN rq = 1..(Len(request) + 1)
          /\ rq[Len(request) + 1] = e /\ \A i \in 1..Len(request) : rq[i] = request[i]
      BY <1>4, <3>1, <3>2
    <3>4. \A i \in DOMAIN rq : i \in 1..Len(request) \/ i = Len(request) + 1
      BY <1>4, <3>3
    <3>5. \A r \in DOMAIN rq : rq[r].call \notin Oversized
      BY <1>4, <2>2, <3>1, <3>3, <3>4 DEF Counts
    <3> QED  BY <1>4, <3>3, <3>5
  <2> QED  BY <2>1, <2>2
<1>13. spawned <= client.spawned + 1 /\ spawned \in Nat
  BY <1>1, <1>2, <1>4 DEF SentOver
<1> HIDE DEF rq, spawned
<1>14. Len(rq) <= Sendings(cs2) /\ spawned <= Sendings(cs2)
  BY <1>4, <1>10, <1>11, <1>12, <1>13 DEF Counts
<1> QED  BY <1>12, <1>14 DEF Counts, cs2, rq, spawned, Sendings, Begun, Again

-----------------------------------------------------------------------------
(* Every helper has its requests in place.                                  *)

Tracked(n) ==
  Tracks(pipeIn[n], helper[n], pipeOut[n], SentTo(n), started \cap SentTo(n),
         client.unacked \cap SentTo(n))

PlacesInv ==
  /\ helper = [n \in Helpers |-> helper[n]]
  /\ pipeIn = [n \in Helpers |-> pipeIn[n]] /\ pipeOut = [n \in Helpers |-> pipeOut[n]]
  /\ started \subseteq DOMAIN request
  /\ \A n \in Helpers : Tracked(n) /\ (helper[n].up => n <= client.spawned)

LEMMA SentFacts ==
  ASSUME HelperInv, NEW n
  PROVE  /\ SentTo(n) \in SUBSET Nat /\ IsFiniteSet(SentTo(n))
         /\ SentTo(n) \subseteq DOMAIN request
         /\ \A r \in DOMAIN request : HandlerOf(r) \in Handlers
<1>1. /\ Len(request) \in Nat /\ DOMAIN request = 1..Len(request)
      /\ \A r \in DOMAIN request : request[r].call \in Calls
  BY InvFacts, RequestFacts
<1>2. IsFiniteSet(DOMAIN request) /\ DOMAIN request \subseteq Nat
  BY <1>1, FS_Interval
<1>3. SentTo(n) \subseteq DOMAIN request
  BY DEF SentTo
<1>4. IsFiniteSet(SentTo(n))
  BY <1>2, <1>3, FS_Subset
<1>5. \A r \in DOMAIN request : HandlerOf(r) \in Handlers
  BY <1>1, HandlersAssumption DEF HandlerOf
<1> QED  BY <1>2, <1>3, <1>4, <1>5

(* The step of a helper process.                                            *)
Worked(n, in2, hp2, out2) ==
  /\ n \in Helpers \ client.lost /\ helper[n].up
  /\ helper' = [helper EXCEPT ![n] = hp2] /\ pipeIn' = [pipeIn EXCEPT ![n] = in2]
  /\ pipeOut' = [pipeOut EXCEPT ![n] = out2]
  /\ started' = started \cup hp2.active
  /\ UNCHANGED <<call, request, client>>
  /\ Works(pipeIn[n], helper[n], pipeOut[n], SentTo(n), started \cap SentTo(n),
           in2, hp2, out2, (started \cap SentTo(n)) \cup hp2.active)

LEMMA BecomesWorked ==
  ASSUME PlacesInv, NEW n \in Helpers, NEW hp2, NEW replies, Becomes(n, hp2, replies),
         NEW in2, pipeIn' = [pipeIn EXCEPT ![n] = in2],
         Works(pipeIn[n], helper[n], pipeOut[n], SentTo(n), started \cap SentTo(n),
               in2, hp2, pipeOut[n] \o replies, (started \cap SentTo(n)) \cup hp2.active)
  PROVE  Worked(n, in2, hp2, pipeOut[n] \o replies)
BY DEF Becomes, Worked

LEMMA ReadWorked ==
  ASSUME HelperInv, PlacesInv, NEW n \in Helpers, Read(n)
  PROVE  \E in2, hp2, out2 : Worked(n, in2, hp2, out2)
<1> DEFINE in == pipeIn[n]
           hp == helper[n]
           sent == SentTo(n)
           st == started \cap sent
           r == Head(in)[2]
<1>1. /\ sent \in SUBSET Nat /\ Held(in, hp, pipeOut[n], sent, st)
      /\ in # <<>> /\ pipeIn' = [pipeIn EXCEPT ![n] = Tail(in)]
  BY SentFacts DEF PlacesInv, Tracked, Tracks, Read
<1>2. CASE Head(in)[1] = "run"
  <2>1. ReadRun(n, r)
    BY <1>2 DEF Read
  <2>2. PICK hp2, replies : Takes(hp, r, hp2, replies) /\ Becomes(n, hp2, replies)
    BY <2>1 DEF ReadRun, Takes
  <2> HIDE DEF in, hp, sent, st, r
  <2>3. Works(in, hp, pipeOut[n], sent, st, Tail(in), hp2, pipeOut[n] \o replies,
              st \cup hp2.active)
    BY <1>1, <1>2, <2>2, RunWorks DEF r
  <2>4. Worked(n, Tail(in), hp2, pipeOut[n] \o replies)
    BY <1>1, <2>2, <2>3, BecomesWorked DEF in, hp, sent, st
  <2> QED  BY <2>4
<1>3. CASE Head(in)[1] # "run"
  <2>1. ReadCancel(n, r)
    BY <1>3 DEF Read
  <2>2. \/ /\ Contains(hp.queue, r)
           /\ Becomes(n, Dequeued(hp, r), <<<<r, "cancelled">>>>)
        \/ Becomes(n, hp, <<>>)
    BY <2>1 DEF ReadCancel
  <2> HIDE DEF in, hp, sent, st, r
  <2>3. SameUnread(in, Tail(in), sent)
    BY <1>1, <1>3, CancelRead
  <2>4. CASE Contains(hp.queue, r) /\ Becomes(n, Dequeued(hp, r), <<<<r, "cancelled">>>>)
    <3>1. r \in ToSet(hp.queue)
      <4>1. hp.queue \in Seq(sent)
        BY <1>1, HeldFacts
      <4> QED  BY <2>4, <4>1, LenProperties DEF Contains, ToSet
    <3>2. "cancelled" \in Answers \ {"done"}
      BY DEF Answers
    <3> DEFINE hp2 == Dequeued(hp, r)
               replies == <<<<r, "cancelled">>>>
    <3>3. Works(in, hp, pipeOut[n], sent, st, Tail(in), hp2, pipeOut[n] \o replies,
                st \cup hp2.active)
      BY <1>1, <2>3, <3>1, <3>2, DequeueWorks
    <3>4. Becomes(n, hp2, replies)
      BY <2>4
    <3> HIDE DEF hp2, replies
    <3>5. Worked(n, Tail(in), hp2, pipeOut[n] \o replies)
      BY <1>1, <3>3, <3>4, BecomesWorked DEF in, hp, sent, st
    <3> QED  BY <3>5
  <2>5. CASE Becomes(n, hp, <<>>)
    <3>1. Works(in, hp, pipeOut[n], sent, st, Tail(in), hp, pipeOut[n] \o <<>>,
                st \cup hp.active)
      BY <1>1, <2>3, IdleWorks
    <3>2. Worked(n, Tail(in), hp, pipeOut[n] \o <<>>)
      BY <1>1, <2>5, <3>1, BecomesWorked DEF in, hp, sent, st
    <3> QED  BY <3>2
  <2> QED  BY <2>2, <2>4, <2>5
<1> QED  BY <1>2, <1>3

(* A step that reads no line.                                               *)
LEMMA UnreadStays ==
  ASSUME PlacesInv, NEW n \in Helpers, pipeIn' = pipeIn
  PROVE  pipeIn' = [pipeIn EXCEPT ![n] = pipeIn[n]]
BY DEF PlacesInv

LEMMA HeldAt ==
  ASSUME HelperInv, PlacesInv, NEW n \in Helpers
  PROVE  /\ SentTo(n) \in SUBSET Nat
         /\ Held(pipeIn[n], helper[n], pipeOut[n], SentTo(n), started \cap SentTo(n))
         /\ SameUnread(pipeIn[n], pipeIn[n], SentTo(n))
<1>1. /\ SentTo(n) \in SUBSET Nat
      /\ Held(pipeIn[n], helper[n], pipeOut[n], SentTo(n), started \cap SentTo(n))
  BY SentFacts DEF PlacesInv, Tracked, Tracks
<1> QED  BY <1>1, HeldFacts DEF SameUnread

LEMMA StdinClosesWorked ==
  ASSUME HelperInv, PlacesInv, NEW n \in Helpers, StdinCloses(n)
  PROVE  \E in2, hp2, out2 : Worked(n, in2, hp2, out2)
<1>1. Becomes(n, Retired(helper[n]), Refusals(helper[n])) /\ pipeIn' = pipeIn
  BY DEF StdinCloses
<1>2. Works(pipeIn[n], helper[n], pipeOut[n], SentTo(n), started \cap SentTo(n),
            pipeIn[n], Retired(helper[n]), pipeOut[n] \o Refusals(helper[n]),
            (started \cap SentTo(n)) \cup Retired(helper[n]).active)
  BY HeldAt, RetireWorks
<1>3. Worked(n, pipeIn[n], Retired(helper[n]), pipeOut[n] \o Refusals(helper[n]))
  BY <1>1, <1>2, UnreadStays, BecomesWorked
<1> QED  BY <1>3

LEMMA RespondWorked ==
  ASSUME HelperInv, PlacesInv, NEW n \in Helpers, NEW r, Respond(n, r)
  PROVE  \E in2, hp2, out2 : Worked(n, in2, hp2, out2)
<1> DEFINE hp2 == [helper[n] EXCEPT !.flushing = @ \cup {r}]
           replies == <<<<r, "done">>>>
<1>1. /\ r \in helper[n].active \ helper[n].flushing
      /\ Becomes(n, hp2, replies) /\ pipeIn' = pipeIn
  BY DEF Respond
<1>2. Works(pipeIn[n], helper[n], pipeOut[n], SentTo(n), started \cap SentTo(n),
            pipeIn[n], hp2, pipeOut[n] \o replies, (started \cap SentTo(n)) \cup hp2.active)
  BY <1>1, HeldAt, RespondWorks
<1> HIDE DEF hp2, replies
<1>3. Worked(n, pipeIn[n], hp2, pipeOut[n] \o replies)
  BY <1>1, <1>2, UnreadStays, BecomesWorked
<1> QED  BY <1>3

LEMMA QueueTimeoutWorked ==
  ASSUME HelperInv, PlacesInv, NEW n \in Helpers, NEW r, QueueTimeout(n, r)
  PROVE  \E in2, hp2, out2 : Worked(n, in2, hp2, out2)
<1> DEFINE hp2 == Dequeued(helper[n], r)
           replies == <<<<r, "queueTimeout">>>>
<1>1. /\ Contains(helper[n].queue, r) /\ Becomes(n, hp2, replies) /\ pipeIn' = pipeIn
  BY DEF QueueTimeout
<1>2. r \in ToSet(helper[n].queue)
  <2>1. helper[n].queue \in Seq(SentTo(n))
    BY HeldAt, HeldFacts
  <2> QED  BY <1>1, <2>1, LenProperties DEF Contains, ToSet
<1>3. "queueTimeout" \in Answers \ {"done"}
  BY DEF Answers
<1>4. Works(pipeIn[n], helper[n], pipeOut[n], SentTo(n), started \cap SentTo(n),
            pipeIn[n], hp2, pipeOut[n] \o replies, (started \cap SentTo(n)) \cup hp2.active)
  BY <1>2, <1>3, HeldAt, DequeueWorks
<1> HIDE DEF hp2, replies
<1>5. Worked(n, pipeIn[n], hp2, pipeOut[n] \o replies)
  BY <1>1, <1>4, UnreadStays, BecomesWorked
<1> QED  BY <1>5

LEMMA ReleaseWorked ==
  ASSUME HelperInv, PlacesInv, NEW n \in Helpers, NEW r \in DOMAIN request,
         NEW highWater \in BOOLEAN, Release(n, r, highWater)
  PROVE  \E in2, hp2, out2 : Worked(n, in2, hp2, out2)
<1> DEFINE h == HandlerOf(r)
           freed == [helper[n] EXCEPT !.active = @ \ {r}, !.flushing = @ \ {r}]
           hp == Drained(freed, h)
           hp2 == IF highWater THEN Retired(hp) ELSE hp
           sent == SentTo(n)
           st == started \cap sent
<1>1. /\ r \in helper[n].flushing /\ (highWater => hp.queue = <<>>)
      /\ Becomes(n, hp2, <<>>) /\ pipeIn' = pipeIn
  BY DEF Release
<1>2. h \in Handlers /\ IsFiniteSet(sent)
  BY SentFacts
<1>3. PICK mid : mid = hp
  OBVIOUS
<1>4. Works(pipeIn[n], helper[n], pipeOut[n], sent, st, pipeIn[n], mid,
            pipeOut[n] \o <<>>, st \cup mid.active)
  <2> HIDE DEF h
  <2> QED  BY <1>1, <1>2, <1>3, HeldAt, ReleaseWorks
<1> HIDE DEF hp
<1>5. Works(pipeIn[n], helper[n], pipeOut[n], sent, st, pipeIn[n], hp2,
            pipeOut[n] \o <<>>, st \cup hp2.active)
  <2>1. CASE ~highWater
    BY <1>3, <1>4, <2>1
  <2>2. CASE highWater
    <3>1. Retired(mid) = [mid EXCEPT !.retiring = TRUE, !.queue = <<>>] /\ mid.queue = <<>>
      BY <1>1, <1>3, <2>2 DEF Retired
    <3>2. mid \in HelperOn(sent)
      BY <1>4 DEF Works, Held
    <3> DEFINE late == Retired(mid)
    <3>3. /\ late \in HelperOn(sent) /\ late.up = mid.up /\ late.broken = mid.broken
          /\ late.queue = mid.queue /\ late.active = mid.active
          /\ late.flushing = mid.flushing
      BY <3>1, <3>2 DEF HelperOn
    <3>4. hp2 = late
      BY <1>3, <2>2
    <3> HIDE DEF late, hp2
    <3> QED  BY <1>4, <3>3, <3>4 DEF Works, Held, Spots, ToStart
  <2> QED  BY <2>1, <2>2
<1> HIDE DEF hp2
<1>6. Worked(n, pipeIn[n], hp2, pipeOut[n] \o <<>>)
  BY <1>1, <1>5, UnreadStays, BecomesWorked
<1> QED  BY <1>6

(* The other helpers are not concerned.                                     *)
LEMMA OthersKeep ==
  ASSUME HelperInv, PlacesInv, NEW n \in Helpers, request' = request,
         helper'[n] = helper[n], pipeIn'[n] = pipeIn[n], pipeOut'[n] = pipeOut[n],
         started' \cap SentTo(n) = started \cap SentTo(n),
         client'.unacked \subseteq client.unacked, client'.spawned = client.spawned
  PROVE  Tracked(n)' /\ (helper'[n].up => n <= client'.spawned)
<1> DEFINE sent == SentTo(n)
           owed == client.unacked \cap sent
           owed2 == client'.unacked \cap sent
<1>1. Tracks(pipeIn[n], helper[n], pipeOut[n], sent, started \cap sent, owed)
      /\ (helper[n].up => n <= client.spawned)
  BY DEF PlacesInv, Tracked
<1>2. owed2 \subseteq owed
  OBVIOUS
<1>3. sent' = sent
  BY DEF SentTo, HelperOf
<1> HIDE DEF sent, owed, owed2
<1>4. Tracks(pipeIn[n], helper[n], pipeOut[n], sent, started \cap sent, owed2)
  BY <1>1, <1>2, FewerTracks
<1>5. Tracks(pipeIn'[n], helper'[n], pipeOut'[n], sent, started' \cap sent, owed2)
  BY <1>4 DEF sent
<1> QED  BY <1>1, <1>3, <1>5 DEF Tracked, sent, owed2

LEMMA WorkedPlaces ==
  ASSUME HelperInv, PlacesInv, NEW n \in Helpers, NEW in2, NEW hp2, NEW out2,
         Worked(n, in2, hp2, out2)
  PROVE  PlacesInv'
<1> DEFINE sent == SentTo(n)
           st == started \cap sent
           owed == client.unacked \cap sent
<1>1. /\ helper = [m \in Helpers |-> helper[m]]
      /\ pipeIn = [m \in Helpers |-> pipeIn[m]] /\ pipeOut = [m \in Helpers |-> pipeOut[m]]
      /\ started \subseteq DOMAIN request
      /\ helper[n].up => n <= client.spawned
  BY DEF PlacesInv
<1>2. /\ helper' = [helper EXCEPT ![n] = hp2] /\ pipeIn' = [pipeIn EXCEPT ![n] = in2]
      /\ pipeOut' = [pipeOut EXCEPT ![n] = out2]
      /\ started' = started \cup hp2.active
      /\ UNCHANGED <<call, request, client>>
      /\ Works(pipeIn[n], helper[n], pipeOut[n], sent, st, in2, hp2, out2,
               st \cup hp2.active)
  BY DEF Worked
<1>3. /\ helper' = [m \in Helpers |-> helper'[m]] /\ pipeIn' = [m \in Helpers |-> pipeIn'[m]]
      /\ pipeOut' = [m \in Helpers |-> pipeOut'[m]]
      /\ helper'[n] = hp2 /\ pipeIn'[n] = in2 /\ pipeOut'[n] = out2
      /\ \A m \in Helpers \ {n} : helper'[m] = helper[m] /\ pipeIn'[m] = pipeIn[m]
                                  /\ pipeOut'[m] = pipeOut[m]
  BY <1>1, <1>2
<1>4. hp2.active \subseteq sent /\ hp2.up = helper[n].up /\ sent \subseteq DOMAIN request
  BY <1>2, SentFacts DEF Works, Held, HelperOn
<1>5. ASSUME NEW m \in Helpers, m # n
      PROVE  Tracked(m)' /\ (helper'[m].up => m <= client'.spawned)
  <2>1. started' \cap SentTo(m) = started \cap SentTo(m)
    BY <1>2, <1>4, <1>5 DEF SentTo
  <2> QED  BY <1>2, <1>3, <1>5, <2>1, OthersKeep
<1>6. Tracked(n)'
  <2>1. Tracks(pipeIn[n], helper[n], pipeOut[n], sent, st, owed)
    BY DEF PlacesInv, Tracked
  <2>2. Tracks(in2, hp2, out2, sent, st \cup hp2.active, owed)
    <3> HIDE DEF sent, st, owed
    <3> QED  BY <1>2, <2>1, WorksTrack
  <2>3. st \cup hp2.active = started' \cap sent
    BY <1>2, <1>4
  <2>4. sent' = sent /\ owed' = owed
    BY <1>2 DEF SentTo, HelperOf
  <2> HIDE DEF sent, st, owed
  <2>5. Tracks(pipeIn'[n], helper'[n], pipeOut'[n], sent, started' \cap sent, owed)
    BY <1>3, <2>2, <2>3
  <2> QED  BY <2>4, <2>5 DEF Tracked, sent, owed
<1>7. started' \subseteq DOMAIN request'
  BY <1>1, <1>2, <1>4
<1>8. helper'[n].up => n <= client'.spawned
  BY <1>1, <1>2, <1>3, <1>4
<1>9. Helpers' = Helpers
  BY DEF Helpers, MaxRequests
<1> QED  BY <1>3, <1>5, <1>6, <1>7, <1>8, <1>9 DEF PlacesInv

(* Helper n exits or its standard input breaks.                             *)
LEMMA FailurePlaces ==
  ASSUME HelperInv, PlacesInv, NEW n \in Helpers, HelperDies(n) \/ PipeBreaks(n)
  PROVE  PlacesInv'
<1> DEFINE sent == SentTo(n)
           st == started \cap sent
           owed == client.unacked \cap sent
           hp2 == helper'[n]
<1>1. /\ helper = [m \in Helpers |-> helper[m]]
      /\ UNCHANGED <<call, request, client, pipeIn, pipeOut, started>>
      /\ started \subseteq DOMAIN request
      /\ helper[n].up => n <= client.spawned
      /\ Tracks(pipeIn[n], helper[n], pipeOut[n], sent, st, owed)
  BY DEF PlacesInv, Tracked, HelperDies, PipeBreaks
<1>2. /\ helper' = [m \in Helpers |-> helper'[m]]
      /\ \/ hp2 = [Unused EXCEPT !.broken = helper[n].broken]
         \/ hp2 = [helper[n] EXCEPT !.broken = TRUE]
      /\ \A m \in Helpers \ {n} : helper'[m] = helper[m]
  BY <1>1 DEF HelperDies, PipeBreaks
<1>3. ASSUME NEW m \in Helpers, m # n
      PROVE  Tracked(m)' /\ (helper'[m].up => m <= client'.spawned)
  BY <1>1, <1>2, <1>3, OthersKeep
<1>4. helper[n] \in HelperOn(sent)
  BY <1>1, HeldFacts DEF Tracks
<1>5. hp2.up => helper[n].up
  BY <1>2, <1>4 DEF HelperOn, Unused
<1> HIDE DEF sent, st, owed, hp2
<1>6. Tracks(pipeIn[n], hp2, pipeOut[n], sent, st, owed)
  BY <1>1, <1>2, DeadTracks, BrokenTracks
<1>7. Tracked(n)'
  BY <1>1, <1>6 DEF Tracked, hp2, sent, st, owed, SentTo, HelperOf
<1>8. Helpers' = Helpers
  BY DEF Helpers, MaxRequests
<1> QED  BY <1>1, <1>2, <1>3, <1>5, <1>7, <1>8 DEF PlacesInv, hp2

(* Those of gone are lost, and what was sent to them is forgotten.          *)
LEMMA LossPlaces ==
  ASSUME HelperInv, PlacesInv, NEW gone, request' = request, started' = started,
         client'.spawned = client.spawned, client'.unacked \subseteq client.unacked,
         \A n \in gone : client'.unacked \cap SentTo(n) = {},
         helper' = HelpersWithout(gone), pipeIn' = Without(gone, pipeIn),
         pipeOut' = Without(gone, pipeOut)
  PROVE  PlacesInv'
<1>1. /\ helper' = [n \in Helpers |-> helper'[n]] /\ pipeIn' = [n \in Helpers |-> pipeIn'[n]]
      /\ pipeOut' = [n \in Helpers |-> pipeOut'[n]]
      /\ \A n \in Helpers :
           IF n \in gone THEN /\ helper'[n] = [Unused EXCEPT !.up = helper[n].up]
                              /\ pipeIn'[n] = <<>> /\ pipeOut'[n] = <<>>
           ELSE helper'[n] = helper[n] /\ pipeIn'[n] = pipeIn[n] /\ pipeOut'[n] = pipeOut[n]
  BY DEF HelpersWithout, Without
<1>2. ASSUME NEW n \in Helpers, n \notin gone
      PROVE  Tracked(n)' /\ (helper'[n].up => n <= client'.spawned)
  BY <1>1, <1>2, OthersKeep
<1>3. ASSUME NEW n \in Helpers, n \in gone
      PROVE  Tracked(n)' /\ (helper'[n].up => n <= client'.spawned)
  <2> DEFINE sent == SentTo(n)
             st == started \cap sent
             up == helper[n].up
  <2>1. up \in BOOLEAN /\ (up => n <= client.spawned) /\ sent \in SUBSET Nat
    <3>1. helper[n] \in HelperOn(sent) /\ sent \in SUBSET Nat
      BY HeldAt, HeldFacts
    <3> QED  BY <3>1 DEF HelperOn, PlacesInv
  <2>2. sent' = sent
    BY DEF SentTo, HelperOf
  <2>3. client'.unacked \cap sent = {}
    BY <1>3
  <2>4. /\ helper'[n] = [Unused EXCEPT !.up = up] /\ helper'[n].up = up
        /\ pipeIn'[n] = <<>> /\ pipeOut'[n] = <<>>
    BY <1>1, <1>3 DEF Unused
  <2> HIDE DEF sent, up, st
  <2>5. Tracks(<<>>, [Unused EXCEPT !.up = up], <<>>, sent, st, {})
    BY <2>1, UnusedTracks
  <2>6. Tracks(pipeIn'[n], helper'[n], pipeOut'[n], sent, st, client'.unacked \cap sent)
    BY <2>3, <2>4, <2>5
  <2> QED  BY <2>1, <2>2, <2>4, <2>6 DEF Tracked, sent, st
<1>4. started' \subseteq DOMAIN request'
  BY DEF PlacesInv
<1>5. Helpers' = Helpers
  BY DEF Helpers, MaxRequests
<1> QED  BY <1>1, <1>2, <1>3, <1>4, <1>5 DEF PlacesInv

LEMMA LosePlaces ==
  ASSUME HelperInv, PlacesInv, NEW n \in 1..client.spawned, NEW o, Lose(n, o)
  PROVE  PlacesInv'
<1> DEFINE gone == client'.lost
<1>1. /\ client' = GiveUp(client, n) /\ request' = request /\ started' = started
      /\ helper' = HelpersWithout(gone) /\ pipeIn' = Without(gone, pipeIn)
      /\ pipeOut' = Without(gone, pipeOut)
  BY DEF Lose
<1>2. /\ client'.spawned = client.spawned /\ gone = client.lost \cup {n}
      /\ client'.unacked = client.unacked \ SentTo(n)
  BY <1>1, InvFacts, GiveUpFacts DEF Paired
<1>3. \A m \in client.lost : client.unacked \cap SentTo(m) = {}
  BY InvFacts DEF Attached, SentTo, HelperOf
<1>4. \A m \in gone : client'.unacked \cap SentTo(m) = {}
  BY <1>2, <1>3
<1>5. client'.unacked \subseteq client.unacked
  BY <1>2
<1> HIDE DEF gone
<1> QED  BY <1>1, <1>2, <1>4, <1>5, LossPlaces

LEMMA DisposeEndPlaces ==
  ASSUME HelperInv, PlacesInv, DisposeEnd
  PROVE  PlacesInv'
<1> DEFINE gone == client'.lost
<1>1. /\ request' = request /\ started' = started
      /\ helper' = HelpersWithout(gone) /\ pipeIn' = Without(gone, pipeIn)
      /\ pipeOut' = Without(gone, pipeOut)
      /\ client' = [client EXCEPT !.phase = "closed", !.pending = {}, !.unacked = {},
                                  !.current = 0, !.lost = @ \cup client.closing]
  BY DEF DisposeEnd
<1>2. client'.spawned = client.spawned /\ client'.unacked = {}
  BY <1>1, InvFacts DEF Clients
<1> HIDE DEF gone
<1>3. client'.unacked \subseteq client.unacked /\ \A m \in gone : client'.unacked \cap SentTo(m) = {}
  BY <1>2
<1> QED  BY <1>1, <1>2, <1>3, LossPlaces

(* Only the pipes of helper n change.                                       *)
LEMMA PipesPlaces ==
  ASSUME HelperInv, PlacesInv, NEW n \in Helpers, NEW in2, NEW out2,
         pipeIn' = [pipeIn EXCEPT ![n] = in2], pipeOut' = [pipeOut EXCEPT ![n] = out2],
         UNCHANGED <<request, helper, started>>, client'.spawned = client.spawned,
         client'.unacked \subseteq client.unacked,
         Tracks(in2, helper[n], out2, SentTo(n), started \cap SentTo(n),
                client'.unacked \cap SentTo(n))
  PROVE  PlacesInv'
<1>1. /\ pipeIn' = [m \in Helpers |-> pipeIn'[m]] /\ pipeOut' = [m \in Helpers |-> pipeOut'[m]]
      /\ pipeIn'[n] = in2 /\ pipeOut'[n] = out2
      /\ \A m \in Helpers \ {n} : pipeIn'[m] = pipeIn[m] /\ pipeOut'[m] = pipeOut[m]
  BY DEF PlacesInv
<1>2. ASSUME NEW m \in Helpers, m # n
      PROVE  Tracked(m)' /\ (helper'[m].up => m <= client'.spawned)
  BY <1>1, <1>2, OthersKeep
<1>3. SentTo(n)' = SentTo(n)
  BY DEF SentTo, HelperOf
<1>4. Tracked(n)'
  BY <1>1, <1>3 DEF Tracked
<1>5. /\ helper' = [m \in Helpers |-> helper'[m]] /\ started' \subseteq DOMAIN request'
      /\ helper'[n].up => n <= client'.spawned
  BY DEF PlacesInv
<1>6. Helpers' = Helpers
  BY DEF Helpers, MaxRequests
<1> QED  BY <1>1, <1>2, <1>4, <1>5, <1>6 DEF PlacesInv

LEMMA AnswerPlaces ==
  ASSUME HelperInv, PlacesInv, NEW n \in Helpers, Answer(n)
  PROVE  PlacesInv'
<1> DEFINE r == Head(pipeOut[n])[1]
           left == Forget(client, {r})
           timer == left.idleTimer \/ Idle(left)
<1>1. /\ pipeOut[n] # <<>> /\ pipeOut' = [pipeOut EXCEPT ![n] = Tail(@)]
      /\ UNCHANGED <<request, helper, pipeIn, started>>
      /\ client' = [left EXCEPT !.idleTimer = timer]
  BY DEF Answer
<1>2. Tracks(pipeIn[n], helper[n], pipeOut[n], SentTo(n), started \cap SentTo(n),
             client.unacked \cap SentTo(n))
  BY DEF PlacesInv, Tracked
<1>3. Tracks(pipeIn[n], helper[n], Tail(pipeOut[n]), SentTo(n), started \cap SentTo(n),
             (client.unacked \cap SentTo(n)) \ {r})
  BY <1>1, <1>2, HeldAt, AnsweredTracks
<1> HIDE DEF r
<1>4. left \in Clients /\ left.unacked = client.unacked \ {r} /\ left.spawned = client.spawned
  BY InvFacts, ForgetFacts
<1> HIDE DEF left, timer
<1>5. client'.unacked = client.unacked \ {r} /\ client'.spawned = client.spawned
  BY <1>1, <1>4 DEF Clients
<1>6. client'.unacked \cap SentTo(n) = (client.unacked \cap SentTo(n)) \ {r}
  BY <1>5
<1>7. client'.unacked \subseteq client.unacked
  BY <1>5
<1>8. pipeIn' = [pipeIn EXCEPT ![n] = pipeIn[n]]
  BY <1>1, UnreadStays
<1> QED  BY <1>1, <1>3, <1>5, <1>6, <1>7, <1>8, PipesPlaces

LEMMA WriteFailsPlaces ==
  ASSUME HelperInv, PlacesInv, NEW r \in DOMAIN request, HelperOf(r) \in Helpers, NEW o,
         WriteFails(r, o)
  PROVE  PlacesInv'
<1>1. PICK n \in Helpers : n = HelperOf(r)
  OBVIOUS
<1>2. /\ UNCHANGED <<request, helper, pipeOut, started>>
      /\ client' = Forget(client, {r})
      /\ pipeIn' = [pipeIn EXCEPT ![n] = Purged(@, {<<"run", r>>})]
  BY <1>1 DEF WriteFails
<1> DEFINE in2 == Purged(pipeIn[n], {<<"run", r>>})
<1>3. Tracks(in2, helper[n], pipeOut[n], SentTo(n), started \cap SentTo(n),
             (client.unacked \cap SentTo(n)) \ {r})
  BY HeldAt, PurgedTracks DEF PlacesInv, Tracked
<1>4. client'.unacked = client.unacked \ {r} /\ client'.spawned = client.spawned
  BY <1>2, InvFacts, ForgetFacts
<1>5. client'.unacked \cap SentTo(n) = (client.unacked \cap SentTo(n)) \ {r}
      /\ client'.unacked \subseteq client.unacked
  BY <1>4
<1>6. pipeOut' = [pipeOut EXCEPT ![n] = pipeOut[n]] /\ pipeIn' = [pipeIn EXCEPT ![n] = in2]
  BY <1>2 DEF PlacesInv
<1>7. Tracks(in2, helper[n], pipeOut[n], SentTo(n), started \cap SentTo(n),
             client'.unacked \cap SentTo(n))
  BY <1>3, <1>5
<1>8. UNCHANGED <<request, helper, started>>
  BY <1>2
<1> HIDE DEF in2
<1> QED  BY <1>4, <1>5, <1>6, <1>7, <1>8, PipesPlaces

(* The host writes cancels to some helpers.                                 *)
Cancels ==
  /\ pipeIn' = [n \in Helpers |-> pipeIn'[n]]
  /\ \A n \in Helpers :
       \/ pipeIn'[n] = pipeIn[n]
       \/ \E cancels \in Seq({"cancel"} \X SentTo(n)) : pipeIn'[n] = pipeIn[n] \o cancels

LEMMA CancelsPlaces ==
  ASSUME HelperInv, PlacesInv, UNCHANGED <<request, helper, pipeOut, started>>,
         client'.spawned = client.spawned, client'.unacked \subseteq client.unacked,
         Cancels
  PROVE  PlacesInv'
<1>1. ASSUME NEW n \in Helpers
      PROVE  Tracked(n)' /\ (helper'[n].up => n <= client'.spawned)
  <2>1. CASE pipeIn'[n] = pipeIn[n]
    BY <2>1, OthersKeep
  <2>2. CASE \E cancels \in Seq({"cancel"} \X SentTo(n)) : pipeIn'[n] = pipeIn[n] \o cancels
    <3>1. PICK cancels \in Seq({"cancel"} \X SentTo(n)) : pipeIn'[n] = pipeIn[n] \o cancels
      BY <2>2
    <3> DEFINE in2 == pipeIn[n] \o cancels
    <3>2. Tracks(in2, helper[n], pipeOut[n], SentTo(n), started \cap SentTo(n),
                 client.unacked \cap SentTo(n))
      BY HeldAt, CancelsTrack DEF PlacesInv, Tracked
    <3>3. client'.unacked \cap SentTo(n) \subseteq client.unacked \cap SentTo(n)
      OBVIOUS
    <3>4. pipeIn'[n] = in2
      BY <3>1
    <3> HIDE DEF in2
    <3>5. Tracks(in2, helper[n], pipeOut[n], SentTo(n), started \cap SentTo(n),
                 client'.unacked \cap SentTo(n))
      BY <3>2, <3>3, FewerTracks
    <3>6. SentTo(n)' = SentTo(n)
      BY DEF SentTo, HelperOf
    <3> QED  BY <3>4, <3>5, <3>6 DEF Tracked, PlacesInv
  <2> QED  BY <2>1, <2>2 DEF Cancels
<1>2. /\ helper' = [m \in Helpers |-> helper'[m]] /\ started' \subseteq DOMAIN request'
      /\ pipeOut' = [m \in Helpers |-> pipeOut'[m]]
  BY DEF PlacesInv
<1>3. Helpers' = Helpers
  BY DEF Helpers, MaxRequests
<1> QED  BY <1>1, <1>2, <1>3 DEF PlacesInv, Cancels

LEMMA AbortCancels ==
  ASSUME HelperInv, PlacesInv, NEW c \in Calls, Abort(c)
  PROVE  Cancels
<1>3. pipeIn = [n \in Helpers |-> pipeIn[n]]
  BY DEF PlacesInv
<1>4. CASE pipeIn' = pipeIn
  BY <1>3, <1>4 DEF Cancels
<1>5. CASE pipeIn' # pipeIn
  <2> DEFINE r == call[c].request
             n == HelperOf(r)
             line == <<"cancel", r>>
  <2>1. /\ call[c].place = "waiting"
        /\ pipeIn' = [pipeIn EXCEPT ![n] = Append(@, line)]
    BY <1>5 DEF Abort
  <2>2. r \in SentTo(n)
    BY <2>1, InvFacts DEF Paired, SentTo
  <2> HIDE DEF n, r
  <2>3. /\ pipeIn' = [m \in Helpers |-> pipeIn'[m]]
        /\ \A m \in Helpers : IF m = n THEN pipeIn'[m] = Append(pipeIn[m], line)
                              ELSE pipeIn'[m] = pipeIn[m]
    BY <1>3, <2>1
  <2>4. ASSUME n \in Helpers
        PROVE  <<line>> \in Seq({"cancel"} \X SentTo(n))
               /\ Append(pipeIn[n], line) = pipeIn[n] \o <<line>>
    <3>1. pipeIn[n] \in Seq(Lines(SentTo(n)))
      BY <2>4, HeldAt, HeldFacts
    <3>2. line \in {"cancel"} \X SentTo(n)
      BY <2>2
    <3> HIDE DEF line
    <3> QED  BY <3>1, <3>2
  <2> HIDE DEF line
  <2>5. \A m \in Helpers :
           \/ pipeIn'[m] = pipeIn[m]
           \/ \E cancels \in Seq({"cancel"} \X SentTo(m)) : pipeIn'[m] = pipeIn[m] \o cancels
    BY <2>3, <2>4
  <2> QED  BY <2>3, <2>5 DEF Cancels
<1> QED  BY <1>4, <1>5

LEMMA AbortPlaces ==
  ASSUME HelperInv, PlacesInv, NEW c \in Calls, Abort(c)
  PROVE  PlacesInv'
<1>1. ClientGoes(client') /\ UNCHANGED <<request, helper, pipeOut, started>>
  BY AbortMoves DEF Moves, Abort
<1>2. client'.spawned = client.spawned /\ client'.unacked \subseteq client.unacked
  BY <1>1 DEF ClientGoes
<1> QED  BY <1>1, <1>2, AbortCancels, CancelsPlaces

(* The cancels the client writes, in some order.                            *)
LEMMA SomeOrder ==
  ASSUME NEW S, IsFiniteSet(S)
  PROVE  SetToSeq(S) \in Seq(S)
<1> DEFINE n == Cardinality(S)
           P(f) == f \in [1..n -> S] /\ IsInjective(f)
<1>1. n \in Nat /\ ExistsBijection(1..n, S)
  BY FS_CardinalityType
<1>2. \E f : P(f)
  BY <1>1 DEF ExistsBijection, Bijection, Injection
<1>3. SetToSeq(S) = CHOOSE f \in [1..n -> S] : IsInjective(f)
  BY DEF SetToSeq
<1>4. SetToSeq(S) \in [1..n -> S]
  BY <1>2, <1>3
<1> QED  BY <1>1, <1>4, IsASeq

LEMMA CancelsOfFinite ==
  ASSUME NEW rs, IsFiniteSet(rs)
  PROVE  IsFiniteSet({<<"cancel", r>> : r \in rs})
<1> DEFINE S == {<<"cancel", r>> : r \in rs}
           f == [r \in rs |-> <<"cancel", r>>]
<1>1. f \in [rs -> S] /\ \A m \in S : \E r \in rs : f[r] = m
  OBVIOUS
<1> HIDE DEF f, S
<1>2. f \in Surjection(rs, S)
  BY <1>1 DEF Surjection
<1>3. IsFiniteSet(S)
  BY <1>2, FS_Surjection
<1> QED  BY <1>3 DEF S

LEMMA DisposeCancels ==
  ASSUME HelperInv, PlacesInv, DisposeBegin
  PROVE  Cancels
<1>3. pipeIn' = [n \in Helpers |->
        IF helper[n].broken THEN pipeIn[n]
        ELSE pipeIn[n] \o SetToSeq({<<"cancel", r>> : r \in client.unacked \cap SentTo(n)})]
  BY DEF DisposeBegin
<1>4. ASSUME NEW n \in Helpers
      PROVE  SetToSeq({<<"cancel", r>> : r \in client.unacked \cap SentTo(n)})
               \in Seq({"cancel"} \X SentTo(n))
  <2> DEFINE owed == client.unacked \cap SentTo(n)
             S == {<<"cancel", r>> : r \in owed}
  <2>1. IsFiniteSet(owed) /\ owed \subseteq SentTo(n)
    BY SentFacts, FS_Subset
  <2>2. S \subseteq {"cancel"} \X SentTo(n)
    BY <2>1
  <2>3. IsFiniteSet(S)
    <3> HIDE DEF owed
    <3> QED  BY <2>1, CancelsOfFinite
  <2> HIDE DEF owed
  <2> HIDE DEF S
  <2>4. SetToSeq(S) \in Seq(S)
    BY <2>3, SomeOrder
  <2> QED  BY <2>2, <2>4, SeqMonotonic DEF S, owed
<1>5. pipeIn' = [n \in Helpers |-> pipeIn'[n]]
      /\ \A n \in Helpers :
           \/ pipeIn'[n] = pipeIn[n]
           \/ \E cancels \in Seq({"cancel"} \X SentTo(n)) : pipeIn'[n] = pipeIn[n] \o cancels
  BY <1>3, <1>4
<1> QED  BY <1>5 DEF Cancels

LEMMA DisposeBeginPlaces ==
  ASSUME HelperInv, PlacesInv, DisposeBegin
  PROVE  PlacesInv'
<1>1. ClientGoes(client') /\ UNCHANGED <<request, helper, pipeOut, started>>
  BY DisposeMoves DEF Moves, DisposeBegin
<1>2. client'.spawned = client.spawned /\ client'.unacked \subseteq client.unacked
  BY <1>1 DEF ClientGoes
<1> QED  BY <1>1, <1>2, DisposeCancels, CancelsPlaces

LEMMA QuietPlaces ==
  ASSUME HelperInv, PlacesInv, UNCHANGED <<request, helper, pipeIn, pipeOut, started>>,
         ClientGoes(client')
  PROVE  PlacesInv'
<1>1. pipeIn' = [n \in Helpers |-> pipeIn'[n]] /\ \A n \in Helpers : pipeIn'[n] = pipeIn[n]
  BY DEF PlacesInv
<1>2. client'.spawned = client.spawned /\ client'.unacked \subseteq client.unacked
  BY DEF ClientGoes
<1>3. Cancels
  BY <1>1 DEF Cancels
<1> QED  BY <1>2, <1>3, CancelsPlaces

(* The numbers of the requests sent to m once one more, r, goes to n.       *)
LEMMA SentAppend ==
  ASSUME HelperInv, NEW c \in Calls, NEW n \in Nat,
         request' = Append(request, [call |-> c, helper |-> n]), NEW r, r = Len(request) + 1
  PROVE  /\ r \in Nat /\ r \notin DOMAIN request /\ DOMAIN request' = DOMAIN request \cup {r}
         /\ \A m : SentTo(m)' = IF m = n THEN SentTo(m) \cup {r} ELSE SentTo(m)
<1> DEFINE e == [call |-> c, helper |-> n]
           S == [call: Calls, helper: Nat]
           rq == request'
<1>1. e \in S /\ e.helper = n
  OBVIOUS
<1>2. request \in Seq(S) /\ Len(request) \in Nat /\ DOMAIN request = 1..Len(request)
  BY InvFacts, RequestFacts DEF SentRequests
<1>3. rq = Append(request, e)
  OBVIOUS
<1> HIDE DEF e, S, rq
<1>4. /\ DOMAIN rq = 1..(Len(request) + 1)
      /\ rq[Len(request) + 1] = e /\ \A i \in 1..Len(request) : rq[i] = request[i]
  BY <1>1, <1>2, <1>3
<1>5. /\ r \in Nat /\ r \notin DOMAIN request /\ DOMAIN rq = DOMAIN request \cup {r}
      /\ rq[r] = e /\ \A i \in DOMAIN request : rq[i] = request[i]
  BY <1>2, <1>4
<1>6. ASSUME NEW m PROVE SentTo(m)' = IF m = n THEN SentTo(m) \cup {r} ELSE SentTo(m)
  <2>1. SentTo(m)' = {i \in DOMAIN rq : rq[i].helper = m}
    BY DEF SentTo, HelperOf, rq
  <2>2. SentTo(m) = {i \in DOMAIN request : request[i].helper = m}
    BY DEF SentTo, HelperOf
  <2> QED  BY <1>1, <1>5, <2>1, <2>2
<1> QED  BY <1>5, <1>6 DEF rq

(* A call is sent.                                                          *)
LEMMA SendsPlaces ==
  ASSUME HelperInv, PlacesInv, NEW c \in Calls, NEW attempt, NEW cl, NEW cs,
         Sends(c, attempt, cl, cs)
  PROVE  PlacesInv'
<1> DEFINE r == Len(request) + 1
           gone == cl.lost
<1>1. PICK n : SentOver(c, attempt, cl, cs, n)
  BY SendsTo
<1>2. /\ cl \in Clients /\ Attached(request, cl) /\ cl.spawned = client.spawned
      /\ cl.unacked \subseteq client.unacked /\ started' = started
      /\ cl.spawned \in Nat
  BY DEF Sends, Fit, Types, ClientGoes, Clients
<1>3. /\ n \in 1..(cl.spawned + 1) /\ n \notin gone /\ n \in Nat
      /\ client'.spawned = IF n > cl.spawned THEN n ELSE cl.spawned
      /\ helper' = [HelpersWithout(gone) EXCEPT ![n].up = @ \/ n > cl.spawned]
      /\ pipeOut' = Without(gone, pipeOut)
  BY <1>1, <1>2 DEF SentOver
<1>4. \/ /\ request' = request /\ client'.unacked = cl.unacked
         /\ pipeIn' = Without(gone, pipeIn)
      \/ /\ request' = Append(request, [call |-> c, helper |-> n])
         /\ client'.unacked = cl.unacked \cup {r}
         /\ pipeIn' = [Without(gone, pipeIn) EXCEPT ![n] = Append(@, <<"run", r>>)]
  BY <1>1 DEF SentOver
<1>5. /\ r \in Nat /\ r \notin DOMAIN request
      /\ \/ request' = request
         \/ DOMAIN request' = DOMAIN request \cup {r}
      /\ \A m : IF request' = request \/ m # n THEN SentTo(m)' = SentTo(m)
                ELSE SentTo(m)' = SentTo(m) \cup {r}
  <2>1. Len(request) \in Nat /\ DOMAIN request = 1..Len(request)
    BY InvFacts, RequestFacts
  <2>2. r \in Nat /\ r \notin DOMAIN request
    BY <2>1
  <2>3. CASE request' = request
    <3>1. \A m : SentTo(m)' = SentTo(m)
      BY <2>3 DEF SentTo, HelperOf
    <3> QED  BY <2>2, <2>3, <3>1
  <2>4. CASE request' # request
    <3> HIDE DEF r
    <3>1. request' = Append(request, [call |-> c, helper |-> n])
      BY <1>4, <2>4
    <3>2. /\ DOMAIN request' = DOMAIN request \cup {r}
          /\ \A m : SentTo(m)' = IF m = n THEN SentTo(m) \cup {r} ELSE SentTo(m)
      BY <1>3, <3>1, SentAppend DEF r
    <3> QED  BY <2>2, <2>4, <3>2
  <2> QED  BY <2>3, <2>4
<1> HIDE DEF r, gone
<1>6. /\ helper' = [m \in Helpers |-> helper'[m]] /\ pipeIn' = [m \in Helpers |-> pipeIn'[m]]
      /\ pipeOut' = [m \in Helpers |-> pipeOut'[m]]
      /\ \A m \in Helpers \ {n} :
           IF m \in gone THEN /\ helper'[m] = [Unused EXCEPT !.up = helper[m].up]
                              /\ pipeIn'[m] = <<>> /\ pipeOut'[m] = <<>>
           ELSE helper'[m] = helper[m] /\ pipeIn'[m] = pipeIn[m] /\ pipeOut'[m] = pipeOut[m]
  BY <1>3, <1>4 DEF HelpersWithout, Without
<1>7. n \in Helpers =>
        /\ helper'[n] = [helper[n] EXCEPT !.up = @ \/ n > cl.spawned]
        /\ pipeOut'[n] = pipeOut[n]
        /\ \/ request' = request /\ client'.unacked = cl.unacked /\ pipeIn'[n] = pipeIn[n]
           \/ /\ request' # request /\ client'.unacked = cl.unacked \cup {r}
              /\ pipeIn'[n] = Append(pipeIn[n], <<"run", r>>)
  <2>1. request' = Append(request, [call |-> c, helper |-> n]) => request' # request
    BY <1>3, SentAppend
  <2> QED  BY <1>3, <1>4, <2>1 DEF HelpersWithout, Without
<1>8. ASSUME NEW m \in Helpers
      PROVE  /\ SentTo(m) \in SUBSET Nat /\ r \notin SentTo(m) /\ r \notin started
             /\ Tracks(pipeIn[m], helper[m], pipeOut[m], SentTo(m), started \cap SentTo(m),
                       client.unacked \cap SentTo(m))
             /\ helper[m].up \in BOOLEAN /\ (helper[m].up => m <= client.spawned)
             /\ helper[m] \in HelperOn(SentTo(m))
  <2>1. helper[m] \in HelperOn(SentTo(m))
    BY HeldAt, HeldFacts
  <2> QED  BY <1>5, <2>1, SentFacts DEF PlacesInv, Tracked, HelperOn
<1>9. ASSUME NEW m \in Helpers, m # n PROVE Tracked(m)' /\ (helper'[m].up => m <= client'.spawned)
  <2> DEFINE sent == SentTo(m)
             st == started \cap sent
             up == helper[m].up
             owed == client'.unacked \cap sent
  <2>1. SentTo(m)' = sent /\ started' \cap sent = st
    BY <1>2, <1>5, <1>9
  <2>2. client'.unacked \subseteq cl.unacked \cup {r}
    BY <1>4
  <2>3. owed \subseteq cl.unacked \cap sent
    BY <1>8, <2>2
  <2>4. /\ sent \in SUBSET Nat /\ up \in BOOLEAN /\ (up => m <= client.spawned)
        /\ Tracks(pipeIn[m], helper[m], pipeOut[m], sent, st, client.unacked \cap sent)
    BY <1>8
  <2>5. up => m <= client'.spawned
    BY <1>2, <1>3, <2>4 DEF Helpers
  <2>6. m \in gone => cl.unacked \cap sent = {}
    BY <1>2 DEF Attached, SentTo, HelperOf, gone
  <2>7. /\ helper'[m].up = up
        /\ Tracks(pipeIn'[m], helper'[m], pipeOut'[m], sent, st, owed)
    <3> HIDE DEF sent, st, owed
    <3>1. CASE m \in gone
      <4>1. owed = {} /\ helper'[m] = [Unused EXCEPT !.up = up]
            /\ pipeIn'[m] = <<>> /\ pipeOut'[m] = <<>>
        BY <1>6, <1>9, <2>3, <2>6, <3>1
      <4>2. helper'[m].up = up
        BY <4>1 DEF Unused
      <4> HIDE DEF up
      <4>3. Tracks(<<>>, [Unused EXCEPT !.up = up], <<>>, sent, st, {})
        BY <2>4, UnusedTracks
      <4> QED  BY <4>1, <4>2, <4>3
    <3>2. CASE m \notin gone
      <4>1. owed \subseteq client.unacked \cap sent
        BY <1>2, <2>3
      <4>2. Tracks(pipeIn[m], helper[m], pipeOut[m], sent, st, owed)
        BY <2>4, <4>1, FewerTracks
      <4> QED  BY <1>6, <1>9, <3>2, <4>2
    <3> QED  BY <3>1, <3>2
  <2>8. Tracked(m)'
    BY <2>1, <2>7 DEF Tracked
  <2> QED  BY <2>5, <2>7, <2>8
<1>10. ASSUME n \in Helpers PROVE Tracked(n)' /\ (helper'[n].up => n <= client'.spawned)
  <2> DEFINE sent == SentTo(n)
             st == started \cap sent
             up == helper[n].up \/ n > cl.spawned
             owed == cl.unacked \cap sent
             hp2 == helper'[n]
  <2>1. /\ sent \in SUBSET Nat /\ r \notin sent /\ r \notin started
        /\ Tracks(pipeIn[n], helper[n], pipeOut[n], sent, st, client.unacked \cap sent)
        /\ helper[n] \in HelperOn(sent)
    BY <1>8, <1>10
  <2>2. up \in BOOLEAN /\ hp2 = [helper[n] EXCEPT !.up = up]
    BY <1>7, <1>8, <1>10
  <2>3. /\ hp2 \in HelperOn(sent) /\ hp2.up = up /\ hp2.broken = helper[n].broken
        /\ hp2.queue = helper[n].queue /\ hp2.active = helper[n].active
        /\ hp2.flushing = helper[n].flushing
    <3> HIDE DEF up, sent, hp2
    <3> QED  BY <2>1, <2>2 DEF HelperOn
  <2>4. n > cl.spawned => owed = {}
    <3>1. \A i \in DOMAIN request : request[i].helper \in 1..cl.spawned
      BY <1>2 DEF Attached
    <3>2. n > cl.spawned => sent = {}
      BY <1>2, <1>3, <3>1 DEF SentTo, HelperOf
    <3> QED  BY <3>2
  <2>5. owed \subseteq client.unacked \cap sent
    BY <1>2
  <2>6. /\ Held(pipeIn[n], helper[n], pipeOut[n], sent, st)
        /\ owed \subseteq Spots(pipeIn[n], helper[n], pipeOut[n]) \/ ~(hp2.up /\ ~hp2.broken)
    <3> HIDE DEF sent, st, owed
    <3> QED  BY <2>1, <2>3, <2>4, <2>5 DEF Tracks
  <2>7. n <= client'.spawned
    BY <1>2, <1>3
  <2>8. CASE request' = request
    <3>1. SentTo(n)' = sent /\ started' \cap sent = st /\ client'.unacked \cap sent = owed
          /\ pipeIn'[n] = pipeIn[n] /\ pipeOut'[n] = pipeOut[n]
      BY <1>2, <1>5, <1>7, <1>10, <2>8
    <3>2. Tracks(pipeIn[n], hp2, pipeOut[n], sent, st, owed)
      <4> HIDE DEF sent, st, owed, hp2, up
      <4> QED  BY <2>3, <2>6 DEF Tracks, Held, Spots
    <3> QED  BY <2>7, <3>1, <3>2 DEF Tracked
  <2>9. CASE request' # request
    <3>1. SentTo(n)' = sent \cup {r} /\ started' \cap (sent \cup {r}) = st
          /\ client'.unacked \cap (sent \cup {r}) = owed \cup {r}
          /\ pipeIn'[n] = Append(pipeIn[n], <<"run", r>>) /\ pipeOut'[n] = pipeOut[n]
      BY <1>2, <1>5, <1>7, <1>10, <2>1, <2>9
    <3>2. Tracks(Append(pipeIn[n], <<"run", r>>), hp2, pipeOut[n], sent \cup {r}, st,
                 owed \cup {r})
      <4>1. r \in Nat \ sent /\ st \in SUBSET sent
        BY <1>5, <2>1
      <4> HIDE DEF sent, st, owed, hp2, up
      <4> QED  BY <2>1, <2>2, <2>6, <4>1, SentTracks
    <3> QED  BY <2>7, <3>1, <3>2 DEF Tracked
  <2> QED  BY <2>8, <2>9
<1>11. started' \subseteq DOMAIN request'
  BY <1>2, <1>5 DEF PlacesInv
<1>12. Helpers' = Helpers
  BY DEF Helpers, MaxRequests
<1> QED  BY <1>6, <1>9, <1>10, <1>11, <1>12 DEF PlacesInv

LEMMA InitPlaces == Init => PlacesInv
<1> SUFFICES ASSUME Init PROVE PlacesInv
  OBVIOUS
<1>1. /\ helper = [n \in Helpers |-> Unused] /\ pipeIn = [n \in Helpers |-> <<>>]
      /\ pipeOut = [n \in Helpers |-> <<>>] /\ started = {} /\ client.unacked = {}
      /\ request = <<>>
  BY DEF Init
<1>2. \A n : SentTo(n) = {}
  BY <1>1 DEF SentTo
<1>3. Tracks(<<>>, [Unused EXCEPT !.up = FALSE], <<>>, {}, {}, {})
  BY UnusedTracks
<1>4. [Unused EXCEPT !.up = FALSE] = Unused /\ Unused.up = FALSE
  <2>1. Unused.up = FALSE
    BY DEF Unused
  <2>2. Unused = [f \in DOMAIN Unused |-> Unused[f]]
    BY DEF Unused
  <2>3. [Unused EXCEPT !.up = FALSE] =
          [f \in DOMAIN Unused |-> IF f = "up" THEN FALSE ELSE Unused[f]]
    OBVIOUS
  <2> QED  BY <2>1, <2>2, <2>3
<1> QED  BY <1>1, <1>2, <1>3, <1>4 DEF PlacesInv, Tracked

-----------------------------------------------------------------------------
(* The invariants so far hold in every step.                                *)

LEMMA NumbersFit ==
  ASSUME HelperInv, Counts
  PROVE  /\ 1..client.spawned \subseteq Helpers /\ DOMAIN request \subseteq Requests
         /\ client.spawned \in 0..MaxRequests /\ Len(request) \in 0..MaxRequests
         /\ MaxRequests \in Nat
<1>1. /\ Sendings(call) \in Nat /\ Sendings(call) <= MaxRequests /\ MaxRequests \in Nat
  BY SendingsBounded
<1>2. /\ Len(request) \in Nat /\ client.spawned \in Nat
      /\ DOMAIN request = 1..Len(request)
  BY InvFacts, RequestFacts DEF Clients
<1>3. Len(request) <= Sendings(call) /\ client.spawned <= Sendings(call)
  BY DEF Counts
<1>4. Helpers = 1..MaxRequests /\ Requests = 1..MaxRequests
  BY DEF Helpers, Requests
<1> HIDE DEF MaxRequests
<1> QED  BY <1>1, <1>2, <1>3, <1>4

(* The steps of the processes of the helpers.                               *)
HelperMoves(n) ==
  \/ HelperDies(n) \/ PipeBreaks(n)
  \/ \E in2, hp2, out2 : Worked(n, in2, hp2, out2)

(* Every step sends a call, moves the host otherwise, or is of a helper.    *)
LEMMA HelperStepMoves ==
  ASSUME HelperInv, PlacesInv, NEW n \in Helpers,
         \/ Read(n) \/ StdinCloses(n) \/ HelperDies(n) \/ PipeBreaks(n)
         \/ \E r \in DOMAIN request :
              \/ Respond(n, r)
              \/ \E w \in BOOLEAN : Release(n, r, w)
              \/ QueueTimeout(n, r)
  PROVE  HelperMoves(n) /\ UNCHANGED <<call, request, client>>
<1>1. UNCHANGED <<call, request, client>>
  BY DEF Read, ReadRun, ReadCancel, StdinCloses, HelperDies, PipeBreaks, Respond, Release,
         QueueTimeout, Becomes
<1>2. HelperMoves(n)
  BY ReadWorked, StdinClosesWorked, RespondWorked, ReleaseWorked, QueueTimeoutWorked
     DEF HelperMoves
<1> QED  BY <1>1, <1>2

(* What the host does that sends nothing.                                   *)
HostMoves ==
  \/ \E n \in 1..client.spawned, o \in {"retiring", "lost"} : Lose(n, o)
  \/ \E r \in DOMAIN request, o \in {"lost", "unwritable"} : WriteFails(r, o)
  \/ \E n \in Helpers : Answer(n) \/ LateEvent(n)
  \/ \E c \in Calls : Abort(c) \/ \E o : Ends(c, o)
  \/ DisposeBegin \/ DisposeEnd
  \/ UNCHANGED vars

LEMMA StepKinds ==
  ASSUME HelperInv, PlacesInv, [Next]_vars
  PROVE  \/ \E c \in Calls : \E attempt, cl, cs : Sends(c, attempt, cl, cs)
         \/ HostMoves
         \/ \E n \in Helpers : HelperMoves(n) /\ UNCHANGED <<call, request, client>>
<1> DEFINE Goal == \/ \E c \in Calls : \E attempt, cl, cs : Sends(c, attempt, cl, cs)
                   \/ HostMoves
                   \/ \E n \in Helpers : HelperMoves(n) /\ UNCHANGED <<call, request, client>>
<1>1. ASSUME NEW c \in Calls, Execute(c) PROVE Goal
  BY <1>1, ExecuteSends DEF HostMoves
<1>2. ASSUME NEW c \in Calls, Retry(c) PROVE Goal
  <2>1. (\E cl, cs : Sends(c, 1, cl, cs)) \/ Ends(c, call[c].outcome)
    BY <1>2, RetrySends
  <2> QED  BY <2>1 DEF HostMoves
<1>3. ASSUME NEW c \in Calls, Abort(c) PROVE Goal
  BY <1>3 DEF HostMoves
<1>4. ASSUME NEW r \in DOMAIN request, FallbackFires(r) PROVE Goal
  <2>1. HelperOf(r) \in 1..client.spawned
    BY InvFacts DEF Attached, HelperOf
  <2> QED  BY <1>4, <2>1 DEF FallbackFires, HostMoves
<1>5. ASSUME NEW r \in DOMAIN request, NEW o \in {"lost", "unwritable"}, WriteFails(r, o)
      PROVE  Goal
  BY <1>5 DEF HostMoves
<1>6. ASSUME NEW n \in Helpers, LossNoticed(n) \/ LateEvent(n) \/ Answer(n) PROVE Goal
  BY <1>6 DEF LossNoticed, HostMoves
<1>7. ASSUME NEW n \in Helpers,
             \/ Read(n) \/ StdinCloses(n) \/ HelperDies(n) \/ PipeBreaks(n)
             \/ \E r \in DOMAIN request :
                  \/ Respond(n, r)
                  \/ \E w \in BOOLEAN : Release(n, r, w)
                  \/ QueueTimeout(n, r)
      PROVE  Goal
  BY <1>7, HelperStepMoves
<1>8. ASSUME IdleRecycle PROVE Goal
  <2>1. client.current \in 1..client.spawned
    <3>1. client.spawned \in Nat
      BY InvFacts DEF Clients
    <3> QED  BY <1>8, <3>1, InvFacts DEF IdleRecycle, Idle, Attached
  <2> QED  BY <1>8, <2>1 DEF IdleRecycle, HostMoves
<1>9. ASSUME DisposeBegin \/ DisposeEnd \/ UNCHANGED vars PROVE Goal
  BY <1>9 DEF HostMoves
<1> HIDE DEF Goal
<1>10. ASSUME Next PROVE Goal
  <2>1. ASSUME NEW c \in Calls, Execute(c) \/ Retry(c) \/ Abort(c) PROVE Goal
    BY <1>1, <1>2, <1>3, <2>1
  <2>2. ASSUME NEW r \in DOMAIN request,
               FallbackFires(r) \/ \E o \in {"lost", "unwritable"} : WriteFails(r, o)
        PROVE  Goal
    BY <1>4, <1>5, <2>2
  <2>3. ASSUME NEW n \in Helpers,
               \/ LossNoticed(n) \/ LateEvent(n) \/ Answer(n) \/ Read(n)
               \/ StdinCloses(n) \/ HelperDies(n) \/ PipeBreaks(n)
               \/ \E r \in DOMAIN request :
                    \/ Respond(n, r)
                    \/ \E w \in BOOLEAN : Release(n, r, w)
                    \/ QueueTimeout(n, r)
        PROVE  Goal
    BY <1>6, <1>7, <2>3, Zenon
  <2>4. \/ \E c \in Calls : Execute(c) \/ Retry(c) \/ Abort(c)
        \/ \E r \in DOMAIN request :
             FallbackFires(r) \/ \E o \in {"lost", "unwritable"} : WriteFails(r, o)
        \/ \E n \in Helpers :
             \/ LossNoticed(n) \/ LateEvent(n) \/ Answer(n) \/ Read(n)
             \/ StdinCloses(n) \/ HelperDies(n) \/ PipeBreaks(n)
             \/ \E r \in DOMAIN request :
                  \/ Respond(n, r)
                  \/ \E w \in BOOLEAN : Release(n, r, w)
                  \/ QueueTimeout(n, r)
        \/ IdleRecycle \/ DisposeBegin \/ DisposeEnd
    BY <1>10 DEF Next
  <2> QED  BY <1>8, <1>9, <2>1, <2>2, <2>3, <2>4, Zenon
<1>11. Goal
  <2>1. Next \/ UNCHANGED vars
    OBVIOUS
  <2> QED  BY <1>9, <1>10, <2>1, Zenon
<1> QED  BY <1>11 DEF Goal

(* A call that is given o as its outcome is not settled yet.                *)
LEMMA HostMovesMoves ==
  ASSUME HelperInv, HostMoves
  PROVE  \E o : /\ Moves(o)
                /\ \/ o \in {"retiring", "lost", "unwritable", "aborted", "closed"}
                   \/ \E c \in Calls : o = call[c].outcome /\ call' = Settled(call, c, o)
                   \/ \E n \in Helpers : Answer(n) /\ o = Head(pipeOut[n])[2]
<1>1. ASSUME NEW n \in 1..client.spawned, NEW o \in {"retiring", "lost"}, Lose(n, o)
      PROVE  Moves(o)
  BY <1>1, LoseMoves
<1>2. ASSUME NEW r \in DOMAIN request, NEW o \in {"lost", "unwritable"}, WriteFails(r, o)
      PROVE  Moves(o)
  BY <1>2, WriteFailsMoves
<1>3. ASSUME NEW n \in Helpers, Answer(n) PROVE Moves(Head(pipeOut[n])[2])
  BY <1>3, AnswerMoves
<1>4. ASSUME NEW n \in Helpers, LateEvent(n) PROVE Moves("closed")
  BY <1>4, LateEventMoves
<1>5. ASSUME NEW c \in Calls, Abort(c) PROVE Moves("aborted")
  BY <1>5, AbortMoves
<1>6. ASSUME NEW c \in Calls, NEW o, Ends(c, o)
      PROVE  Moves(o) /\ call' = Settled(call, c, o) /\ o \in {"closed", call[c].outcome}
  BY <1>6, EndMoves DEF Ends
<1>7. CASE DisposeBegin \/ DisposeEnd
  BY <1>7, DisposeMoves
<1>8. CASE UNCHANGED vars
  <2>1. Moves("closed")
    BY <1>8, StaysMoves DEF vars
  <2> QED  BY <2>1
<1> QED  BY <1>1, <1>2, <1>3, <1>4, <1>5, <1>6, <1>7, <1>8 DEF HostMoves

LEMMA NextCounts == HelperInv /\ PlacesInv /\ Counts /\ [Next]_vars => Counts'
<1> SUFFICES ASSUME HelperInv, PlacesInv, Counts, [Next]_vars PROVE Counts'
  OBVIOUS
<1>1. CASE \E c \in Calls : \E attempt, cl, cs : Sends(c, attempt, cl, cs)
  BY <1>1, SendsCount
<1>2. CASE HostMoves
  BY <1>2, HostMovesMoves, MovesCount
<1>3. CASE UNCHANGED <<call, request, client>>
  <2>1. Moves("closed")
    BY <1>3, StaysMoves
  <2> QED  BY <2>1, MovesCount
<1> QED  BY <1>1, <1>2, <1>3, StepKinds

LEMMA NextPlaces == HelperInv /\ Counts /\ PlacesInv /\ [Next]_vars => PlacesInv'
<1> SUFFICES ASSUME HelperInv, Counts, PlacesInv, [Next]_vars PROVE PlacesInv'
  OBVIOUS
<1>1. CASE \E c \in Calls : \E attempt, cl, cs : Sends(c, attempt, cl, cs)
  BY <1>1, SendsPlaces
<1>2. ASSUME NEW n \in Helpers, HelperMoves(n) PROVE PlacesInv'
  BY <1>2, FailurePlaces, WorkedPlaces DEF HelperMoves
<1>3. CASE HostMoves
  <2>1. ASSUME NEW n \in 1..client.spawned, NEW o, Lose(n, o) PROVE PlacesInv'
    BY <2>1, LosePlaces
  <2>2. ASSUME NEW r \in DOMAIN request, NEW o, WriteFails(r, o) PROVE PlacesInv'
    <3>1. HelperOf(r) \in Helpers
      BY InvFacts, NumbersFit DEF Attached, HelperOf
    <3> QED  BY <2>2, <3>1, WriteFailsPlaces
  <2>3. ASSUME NEW n \in Helpers, Answer(n) PROVE PlacesInv'
    BY <2>3, AnswerPlaces
  <2>4. ASSUME UNCHANGED <<request, helper, pipeIn, pipeOut, started>>, NEW o, Moves(o)
        PROVE  PlacesInv'
    BY <2>4, QuietPlaces DEF Moves
  <2>5. ASSUME NEW n \in Helpers, LateEvent(n) PROVE PlacesInv'
    <3>1. UNCHANGED <<request, helper, pipeIn, pipeOut, started>>
      BY <2>5 DEF LateEvent
    <3>2. Moves("lost")
      BY <2>5, LateEventMoves
    <3> QED  BY <2>4, <3>1, <3>2
  <2>6. ASSUME NEW c \in Calls, NEW o, Ends(c, o) PROVE PlacesInv'
    <3>1. ClientGoes(client')
      BY <2>6 DEF ClientGoes, Ends
    <3> QED  BY <2>6, <3>1, QuietPlaces DEF Ends
  <2>7. CASE UNCHANGED vars
    <3>1. ClientGoes(client')
      BY <2>7 DEF ClientGoes, vars
    <3> QED  BY <2>7, <3>1, QuietPlaces DEF vars
  <2> QED  BY <1>3, <2>1, <2>2, <2>3, <2>5, <2>6, <2>7, AbortPlaces, DisposeBeginPlaces,
              DisposeEndPlaces DEF HostMoves
<1> QED  BY <1>1, <1>2, <1>3, StepKinds

LEMMA InitCounts == Init => Counts
<1> SUFFICES ASSUME Init PROVE Counts
  OBVIOUS
<1>1. Sendings(call) \in Nat /\ 0 <= Sendings(call)
  BY SendingsBounded
<1>2. Len(request) = 0 /\ client.spawned = 0 /\ DOMAIN request = {}
  BY DEF Init
<1> QED  BY <1>1, <1>2 DEF Counts

LEMMA PlacesCorrect == Spec => [](HelperInv /\ Counts /\ PlacesInv)
<1>1. Init => HelperInv /\ Counts /\ PlacesInv
  BY InitFits, InitCounts, InitPlaces
<1>2. (HelperInv /\ Counts /\ PlacesInv) /\ [Next]_vars => (HelperInv /\ Counts /\ PlacesInv)'
  BY NextFits, NextCounts, NextPlaces
<1> QED  BY <1>1, <1>2, PTL DEF Spec

-----------------------------------------------------------------------------
(* A request that no helper holds any more to start it.                     *)

Unstartable(x) ==
  x \notin started /\ \A n \in Helpers : x \notin ToStart(pipeIn[n], helper[n])

LEMMA CalmStarts ==
  ASSUME NEW x, Unstartable(x), started' = started,
         \A n \in Helpers : x \in ToStart(pipeIn'[n], helper'[n])
                              => x \in ToStart(pipeIn[n], helper[n])
  PROVE  Unstartable(x)'
BY DEF Unstartable, Helpers, MaxRequests, ToStart, Unread

LEMMA NothingToStart ==
  ASSUME NEW hp, hp.queue = <<>>, NEW x
  PROVE  x \notin ToStart(<<>>, hp) /\ x \notin ToSet(hp.queue)
<1>1. ToSet(<<>>) = {}
  BY DEF ToSet
<1> QED  BY <1>1 DEF ToStart, Unread

LEMMA HelperStarts ==
  ASSUME HelperInv, PlacesInv, NEW n \in Helpers, HelperMoves(n), NEW x, Unstartable(x)
  PROVE  Unstartable(x)'
<1>1. ASSUME NEW in2, NEW hp2, NEW out2, Worked(n, in2, hp2, out2) PROVE Unstartable(x)'
  <2>1. /\ helper' = [helper EXCEPT ![n] = hp2] /\ pipeIn' = [pipeIn EXCEPT ![n] = in2]
        /\ started' = started \cup hp2.active
        /\ Works(pipeIn[n], helper[n], pipeOut[n], SentTo(n), started \cap SentTo(n),
                 in2, hp2, out2, (started \cap SentTo(n)) \cup hp2.active)
    BY <1>1 DEF Worked
  <2>2. /\ helper'[n] = hp2 /\ pipeIn'[n] = in2
        /\ \A m \in Helpers \ {n} : helper'[m] = helper[m] /\ pipeIn'[m] = pipeIn[m]
    BY <2>1 DEF PlacesInv
  <2>3. /\ ToStart(in2, hp2) \subseteq ToStart(pipeIn[n], helper[n])
        /\ hp2.active \subseteq started \cup ToStart(pipeIn[n], helper[n])
    BY <2>1 DEF Works
  <2>4. x \notin started'
    BY <2>1, <2>3 DEF Unstartable
  <2>5. \A m \in Helpers : x \notin ToStart(pipeIn'[m], helper'[m])
    BY <2>2, <2>3 DEF Unstartable
  <2> QED  BY <2>4, <2>5 DEF Unstartable, Helpers, MaxRequests, ToStart, Unread
<1>2. CASE HelperDies(n)
  <2>1. /\ helper' = [helper EXCEPT ![n] = [Unused EXCEPT !.broken = helper[n].broken]]
        /\ pipeIn' = pipeIn /\ started' = started
    BY <1>2 DEF HelperDies
  <2>2. /\ helper'[n].queue = <<>> /\ \A m \in Helpers \ {n} : helper'[m] = helper[m]
    BY <2>1 DEF PlacesInv, Unused
  <2>3. x \notin ToSet(helper'[n].queue)
    BY <2>2, NothingToStart
  <2> QED  BY <2>1, <2>2, <2>3, CalmStarts DEF ToStart
<1>3. CASE PipeBreaks(n)
  <2>1. /\ helper' = [helper EXCEPT ![n].broken = TRUE]
        /\ pipeIn' = pipeIn /\ started' = started
    BY <1>3 DEF PipeBreaks
  <2>2. helper[n] \in HelperOn(SentTo(n))
    BY HeldAt, HeldFacts
  <2>3. /\ helper'[n] = [helper[n] EXCEPT !.broken = TRUE]
        /\ \A m \in Helpers \ {n} : helper'[m] = helper[m]
    BY <2>1 DEF PlacesInv
  <2>4. helper'[n].queue = helper[n].queue
    BY <2>2, <2>3 DEF HelperOn
  <2> QED  BY <2>1, <2>3, <2>4, CalmStarts DEF ToStart
<1> QED  BY <1>1, <1>2, <1>3 DEF HelperMoves

(* Losing helpers, with their queues and what was written to them.          *)
LEMMA LossStarts ==
  ASSUME NEW gone, helper' = HelpersWithout(gone), pipeIn' = Without(gone, pipeIn),
         started' = started, NEW x, Unstartable(x)
  PROVE  Unstartable(x)'
<1>1. ASSUME NEW n \in Helpers, x \in ToStart(pipeIn'[n], helper'[n])
      PROVE  x \in ToStart(pipeIn[n], helper[n])
  <2>1. CASE n \in gone
    <3>1. pipeIn'[n] = <<>> /\ helper'[n].queue = <<>>
      BY <2>1 DEF HelpersWithout, Without, Unused
    <3> QED  BY <1>1, <3>1, NothingToStart
  <2>2. CASE n \notin gone
    <3>1. pipeIn'[n] = pipeIn[n] /\ helper'[n] = helper[n]
      BY <2>2 DEF HelpersWithout, Without
    <3> QED  BY <1>1, <3>1
  <2> QED  BY <2>1, <2>2
<1> QED  BY <1>1, CalmStarts

(* Lines are written or dropped, none of which runs a request.              *)
LEMMA LinesStart ==
  ASSUME helper' = helper, started' = started,
         \A n \in Helpers : \A y : <<"run", y>> \in ToSet(pipeIn'[n])
                                 => <<"run", y>> \in ToSet(pipeIn[n]),
         NEW x, Unstartable(x)
  PROVE  Unstartable(x)'
<1>1. \A n \in Helpers : x \in ToStart(pipeIn'[n], helper'[n])
                           => x \in ToStart(pipeIn[n], helper[n])
  BY DEF ToStart, Unread
<1> QED  BY <1>1, CalmStarts

(* The lines of a helper once cancels are written to it.                    *)
LEMMA CancelLines ==
  ASSUME NEW sent, NEW in \in Seq(Lines(sent)), NEW cancels \in Seq({"cancel"} \X sent), NEW y,
         <<"run", y>> \in ToSet(in \o cancels)
  PROVE  <<"run", y>> \in ToSet(in)
<1>1. cancels \in Seq(Lines(sent)) /\ ToSet(cancels) \subseteq {"cancel"} \X sent
  <2>1. {"cancel"} \X sent \subseteq Lines(sent)
    BY DEF Lines
  <2>2. cancels \in Seq(Lines(sent))
    BY <2>1, SeqMonotonic
  <2> QED  BY <2>2, QueueMembers
<1>2. ToSet(in \o cancels) = ToSet(in) \cup ToSet(cancels)
  BY <1>1, ToSetConcat
<1> QED  BY <1>1, <1>2

LEMMA CancelsStart ==
  ASSUME HelperInv, PlacesInv, helper' = helper, started' = started, Cancels,
         NEW x, Unstartable(x)
  PROVE  Unstartable(x)'
<1>1. ASSUME NEW n \in Helpers, NEW y, <<"run", y>> \in ToSet(pipeIn'[n])
      PROVE  <<"run", y>> \in ToSet(pipeIn[n])
  <2>1. CASE pipeIn'[n] = pipeIn[n]
    BY <1>1, <2>1
  <2>2. ASSUME NEW cancels \in Seq({"cancel"} \X SentTo(n)), pipeIn'[n] = pipeIn[n] \o cancels
        PROVE  <<"run", y>> \in ToSet(pipeIn[n])
    <3>1. pipeIn[n] \in Seq(Lines(SentTo(n)))
      BY HeldAt, HeldFacts
    <3>2. <<"run", y>> \in ToSet(pipeIn[n] \o cancels)
      BY <1>1, <2>2
    <3> QED  BY <3>1, <3>2, CancelLines
  <2> QED  BY <2>1, <2>2 DEF Cancels
<1> QED  BY <1>1, LinesStart

LEMMA HostStarts ==
  ASSUME HelperInv, PlacesInv, Counts, HostMoves, NEW x, Unstartable(x)
  PROVE  Unstartable(x)'
<1>1. ASSUME NEW n, NEW o, Lose(n, o) PROVE Unstartable(x)'
  <2>1. PICK gone : gone = client'.lost
    OBVIOUS
  <2>2. /\ helper' = HelpersWithout(gone) /\ pipeIn' = Without(gone, pipeIn)
        /\ started' = started
    BY <1>1, <2>1 DEF Lose
  <2> QED  BY <2>2, LossStarts
<1>2. ASSUME NEW r \in DOMAIN request, NEW o, WriteFails(r, o) PROVE Unstartable(x)'
  <2>1. PICK n \in Helpers : n = HelperOf(r)
    BY InvFacts, NumbersFit DEF Attached, HelperOf
  <2>2. /\ helper' = helper /\ started' = started
        /\ pipeIn' = [pipeIn EXCEPT ![n] = Purged(@, {<<"run", r>>})]
    BY <1>2, <2>1 DEF WriteFails
  <2>3. /\ pipeIn'[n] = Purged(pipeIn[n], {<<"run", r>>})
        /\ \A m \in Helpers \ {n} : pipeIn'[m] = pipeIn[m]
    BY <2>2 DEF PlacesInv
  <2>4. ToSet(Purged(pipeIn[n], {<<"run", r>>})) \subseteq ToSet(pipeIn[n])
    <3>1. pipeIn[n] \in Seq(Lines(SentTo(n)))
      BY HeldAt, HeldFacts
    <3> QED  BY <3>1, PurgedFacts
  <2> QED  BY <2>2, <2>3, <2>4, LinesStart
<1>3. ASSUME UNCHANGED <<helper, pipeIn, started>> PROVE Unstartable(x)'
  BY <1>3, CalmStarts
<1>4. CASE DisposeBegin
  BY <1>4, DisposeCancels, CancelsStart DEF DisposeBegin
<1>5. ASSUME NEW c \in Calls, Abort(c) PROVE Unstartable(x)'
  BY <1>5, AbortCancels, CancelsStart DEF Abort
<1>6. CASE DisposeEnd
  <2>1. PICK gone : gone = client'.lost
    OBVIOUS
  <2>2. /\ helper' = HelpersWithout(gone) /\ pipeIn' = Without(gone, pipeIn)
        /\ started' = started
    BY <1>6, <2>1 DEF DisposeEnd
  <2> QED  BY <2>2, LossStarts
<1>7. ASSUME NEW n, Answer(n) \/ LateEvent(n) PROVE Unstartable(x)'
  BY <1>3, <1>7 DEF Answer, LateEvent
<1>8. ASSUME NEW c, NEW o, Ends(c, o) PROVE Unstartable(x)'
  BY <1>3, <1>8 DEF Ends
<1>9. CASE UNCHANGED vars
  BY <1>3, <1>9 DEF vars
<1> QED  BY <1>1, <1>2, <1>4, <1>5, <1>6, <1>7, <1>8, <1>9 DEF HostMoves

(* A new request has another number.                                        *)
LEMMA SendsStart ==
  ASSUME HelperInv, PlacesInv, NEW c \in Calls, NEW attempt, NEW cl, NEW cs,
         Sends(c, attempt, cl, cs), NEW x \in DOMAIN request, Unstartable(x)
  PROVE  Unstartable(x)'
<1> DEFINE r == Len(request) + 1
           gone == cl.lost
<1>1. PICK n : SentOver(c, attempt, cl, cs, n)
  BY SendsTo
<1>2. x # r
  <2>1. Len(request) \in Nat /\ DOMAIN request = 1..Len(request)
    BY InvFacts, RequestFacts
  <2> QED  BY <2>1
<1> HIDE DEF r, gone
<1>3. /\ helper' = [HelpersWithout(gone) EXCEPT ![n].up = @ \/ n > cl.spawned]
      /\ \/ pipeIn' = Without(gone, pipeIn)
         \/ pipeIn' = [Without(gone, pipeIn) EXCEPT ![n] = Append(@, <<"run", r>>)]
      /\ n \notin gone /\ started' = started
  BY <1>1 DEF SentOver, Sends, r, gone
<1>4. ASSUME NEW m \in Helpers, x \in ToStart(pipeIn'[m], helper'[m])
      PROVE  x \in ToStart(pipeIn[m], helper[m])
  <2>1. helper[m] \in HelperOn(SentTo(m)) /\ pipeIn[m] \in Seq(Lines(SentTo(m)))
    BY HeldAt, HeldFacts
  <2>2. CASE m \in gone
    <3>1. pipeIn'[m] = <<>> /\ helper'[m].queue = <<>>
      BY <1>3, <2>2 DEF HelpersWithout, Without, Unused
    <3> QED  BY <1>4, <3>1, NothingToStart
  <2>3. CASE m \notin gone /\ m # n
    <3>1. pipeIn'[m] = pipeIn[m] /\ helper'[m] = helper[m]
      BY <1>3, <2>3 DEF HelpersWithout, Without
    <3> QED  BY <1>4, <3>1
  <2>4. CASE m = n
    <3> DEFINE up == helper[m].up \/ n > cl.spawned
               line == <<"run", r>>
    <3>1. /\ helper'[m] = [helper[m] EXCEPT !.up = up]
          /\ pipeIn'[m] = pipeIn[m] \/ pipeIn'[m] = Append(pipeIn[m], line)
      BY <1>3, <2>4 DEF HelpersWithout, Without
    <3>2. helper'[m].queue = helper[m].queue
      BY <2>1, <3>1 DEF HelperOn
    <3>3. ToSet(pipeIn'[m]) \subseteq ToSet(pipeIn[m]) \cup {line}
      <4> DEFINE in == pipeIn[m]
      <4>1. CASE pipeIn'[m] = Append(in, line)
        <5>1. in \in Seq(ToSet(in)) \/ in \in Seq(Lines(SentTo(m)))
          BY <2>1
        <5> HIDE DEF in, line
        <5>2. /\ DOMAIN Append(in, line) = 1..(Len(in) + 1) /\ Len(in) \in Nat
              /\ DOMAIN in = 1..Len(in)
              /\ \A i \in 1..Len(in) : Append(in, line)[i] = in[i]
              /\ Append(in, line)[Len(in) + 1] = line
          BY <2>1, AppendProperties, LenProperties DEF in
        <5>3. ASSUME NEW i \in 1..(Len(in) + 1) PROVE Append(in, line)[i] \in ToSet(in) \cup {line}
          <6>1. i \in 1..Len(in) \/ i = Len(in) + 1
            BY <5>2
          <6> QED  BY <5>2, <6>1 DEF ToSet
        <5> QED  BY <4>1, <5>2, <5>3 DEF ToSet, in
      <4> QED  BY <3>1, <4>1
    <3>4. x \notin Unread(pipeIn[m]) => x \notin Unread(pipeIn'[m])
      BY <1>2, <3>3 DEF Unread
    <3> QED  BY <1>4, <3>2, <3>4 DEF ToStart
  <2> QED  BY <2>2, <2>3, <2>4
<1> QED  BY <1>3, <1>4, CalmStarts

LEMMA NothingStarts ==
  ASSUME HelperInv, Counts, PlacesInv, [Next]_vars, NEW x \in DOMAIN request, Unstartable(x)
  PROVE  Unstartable(x)'
BY StepKinds, SendsStart, HostStarts, HelperStarts

-----------------------------------------------------------------------------
(* What the calls are told.                                                 *)

Sound(c) ==
  /\ call[c].outcome \in Outcomes /\ call[c].request \in 0..Len(request)
  /\ call[c].outcome = "tooLarge" => call[c].place = "settled"
  /\ call[c].outcome = "queueTimeout" =>
       call[c].request \in DOMAIN request /\ Unstartable(call[c].request)

OutcomesInv == \A c \in Calls : Sound(c)

(* A request whose refusal is under way is held nowhere to be started.      *)
LEMMA RefusedStays ==
  ASSUME HelperInv, PlacesInv, NEW n \in Helpers, NEW r \in DOMAIN request,
         HelperOf(r) = n, r \in Refused(pipeOut[n])
  PROVE  Unstartable(r)
<1>1. /\ r \in SentTo(n) /\ \A m \in Helpers : m # n => r \notin SentTo(m)
  BY DEF SentTo
<1>2. Placed(Unread(pipeIn[n]), ToSet(helper[n].queue), helper[n].active, helper[n].flushing,
             Answered(pipeOut[n]), Refused(pipeOut[n]), started \cap SentTo(n))
  BY HeldAt, HeldFacts
<1>3. r \notin started /\ r \notin ToStart(pipeIn[n], helper[n])
  BY <1>1, <1>2 DEF Placed, ToStart
<1>4. ASSUME NEW m \in Helpers, m # n PROVE r \notin ToStart(pipeIn[m], helper[m])
  <2>1. pipeIn[m] \in Seq(Lines(SentTo(m))) /\ helper[m].queue \in Seq(SentTo(m))
    BY HeldAt, HeldFacts
  <2>2. ToSet(pipeIn[m]) \subseteq Lines(SentTo(m)) /\ ToSet(helper[m].queue) \subseteq SentTo(m)
    BY <2>1, QueueMembers
  <2>3. Unread(pipeIn[m]) \subseteq SentTo(m)
    BY <2>2 DEF Unread, Lines
  <2> QED  BY <1>1, <1>4, <2>2, <2>3 DEF ToStart
<1> QED  BY <1>3, <1>4 DEF Unstartable

(* A call that keeps its request and its outcome stays sound, and so does   *)
(* one that is given an outcome that says nothing of the request.           *)
LEMMA GoesSound ==
  ASSUME HelperInv, Counts, PlacesInv, OutcomesInv, [Next]_vars, NEW c \in Calls,
         call'[c].request = call[c].request, DOMAIN request \subseteq DOMAIN request',
         Len(request) <= Len(request'), Len(request') \in Nat,
         call[c].place = "settled" => call'[c].place = "settled",
         call'[c].outcome \in {call[c].outcome, "none"} \cup (Outcomes \ {"tooLarge", "queueTimeout"})
  PROVE  Sound(c)'
<1>1. Sound(c)
  BY DEF OutcomesInv
<1>2. call'[c].outcome \in Outcomes
  BY <1>1 DEF Sound, Outcomes
<1>3. call'[c].request \in 0..Len(request')
  <2>1. Len(request) \in Nat
    BY InvFacts, RequestFacts
  <2> QED  BY <1>1, <2>1 DEF Sound
<1>4. call'[c].outcome = "tooLarge" => call'[c].place = "settled"
  BY <1>1 DEF Sound
<1>5. ASSUME call'[c].outcome = "queueTimeout"
      PROVE  call'[c].request \in DOMAIN request' /\ Unstartable(call[c].request)'
  <2>1. call[c].request \in DOMAIN request /\ Unstartable(call[c].request)
    BY <1>1, <1>5 DEF Sound
  <2>2. PICK x \in DOMAIN request : x = call[c].request
    BY <2>1
  <2> QED  BY <2>1, <2>2, NothingStarts
<1> QED  BY <1>2, <1>3, <1>4, <1>5 DEF Sound

LEMMA AnswerSound ==
  ASSUME HelperInv, Counts, PlacesInv, OutcomesInv, [Next]_vars, NEW n \in Helpers, Answer(n),
         NEW c \in Calls
  PROVE  Sound(c)'
<1>0. PICK r, answer : r = Head(pipeOut[n])[1] /\ answer = Head(pipeOut[n])[2]
  OBVIOUS
<1>1. /\ request' = request /\ pipeOut[n] # <<>>
      /\ call' = IF r \notin client.pending THEN call
                 ELSE IF answer = "retiring" THEN Rejected(call, {r}, answer)
                 ELSE Settled(call, request[r].call, answer)
  BY <1>0 DEF Answer
<1>2. Tracks(pipeIn[n], helper[n], pipeOut[n], SentTo(n), started \cap SentTo(n),
             client.unacked \cap SentTo(n))
  BY DEF PlacesInv, Tracked
<1>3. /\ Head(pipeOut[n]) \in Replies(SentTo(n))
      /\ answer # "done" => r \in Refused(pipeOut[n])
  BY <1>0, <1>1, <1>2, HeldAt, AnsweredTracks
<1>4. answer \in Answers /\ r \in SentTo(n)
  BY <1>0, <1>3 DEF Replies
<1>5. Goes(call[c], call'[c], answer)
  BY <1>0, AnswerMoves DEF Moves
<1>6. Len(request) \in Nat
  BY InvFacts, RequestFacts
<1>7. CASE call'[c].outcome = call[c].outcome \/ answer # "queueTimeout"
  <2>1. answer # "tooLarge"
    BY <1>4 DEF Answers
  <2>2. call'[c].outcome \in {call[c].outcome, "none"} \cup (Outcomes \ {"tooLarge", "queueTimeout"})
    BY <1>4, <1>5, <1>7, <2>1 DEF Goes, Outcomes
  <2>3. /\ call'[c].request = call[c].request
        /\ call[c].place = "settled" => call'[c].place = "settled"
    BY <1>5 DEF Goes
  <2>4. /\ DOMAIN request \subseteq DOMAIN request'
        /\ Len(request) <= Len(request') /\ Len(request') \in Nat
    BY <1>1, <1>6
  <2> QED  BY <2>2, <2>3, <2>4, GoesSound
<1>8. CASE call'[c].outcome # call[c].outcome /\ answer = "queueTimeout"
  <2>1. /\ r \in client.pending /\ call' = Settled(call, request[r].call, answer)
    BY <1>1, <1>8
  <2>2. r \in DOMAIN request /\ request[r].call \in Calls /\ call[request[r].call].request = r
    BY <2>1, InvFacts, RequestFacts DEF Paired
  <2>3. c = request[r].call
    BY <1>8, <2>1, <2>2, InvFacts, SettledFacts
  <2>4. /\ call'[c].request = r /\ call'[c].outcome = "queueTimeout"
    BY <1>5, <1>8, <2>2, <2>3 DEF Goes
  <2>5. Unstartable(r)
    BY <1>3, <1>4, <1>8, <2>2, RefusedStays DEF SentTo
  <2>6. Unstartable(r)'
    BY <2>2, <2>5, NothingStarts
  <2>7. r \in 0..Len(request)
    BY <2>2, InvFacts, RequestFacts
  <2> QED  BY <1>1, <2>2, <2>4, <2>6, <2>7 DEF Sound, Outcomes, Answers
<1> QED  BY <1>7, <1>8

LEMMA HostSound ==
  ASSUME HelperInv, Counts, PlacesInv, OutcomesInv, [Next]_vars, HostMoves, NEW c \in Calls
  PROVE  Sound(c)'
<1>1. Len(request) \in Nat
  BY InvFacts, RequestFacts
<1>2. ASSUME NEW o, Moves(o), \/ o \in Outcomes \ {"tooLarge", "queueTimeout"}
                              \/ call'[c].outcome = call[c].outcome
      PROVE  Sound(c)'
  <2>1. Goes(call[c], call'[c], o) /\ request' = request
    BY <1>2 DEF Moves
  <2> QED  BY <1>1, <1>2, <2>1, GoesSound DEF Goes
<1>3. ASSUME NEW n \in Helpers, Answer(n) PROVE Sound(c)'
  BY <1>3, AnswerSound
<1>4. ASSUME NEW d \in Calls, NEW o, Moves(o), o = call[d].outcome, call' = Settled(call, d, o)
      PROVE  Sound(c)'
  <2>1. call'[c].outcome = call[c].outcome
    <3>1. IsCall(call[c]) /\ call = [e \in Calls |-> call[e]]
      BY InvFacts DEF AreCalls
    <3>2. call'[c] = IF c = d THEN [call[c] EXCEPT !.place = "settled", !.outcome = o] ELSE call[c]
      BY <1>4, <3>1 DEF Settled
    <3> QED  BY <1>4, <3>1, <3>2 DEF IsCall
  <2> QED  BY <1>2, <1>4, <2>1
<1>5. {"retiring", "lost", "unwritable", "aborted", "closed"}
        \subseteq Outcomes \ {"tooLarge", "queueTimeout"}
  BY DEF Outcomes, Answers
<1> QED  BY <1>2, <1>3, <1>4, <1>5, HostMovesMoves

LEMMA SendsSound ==
  ASSUME HelperInv, Counts, PlacesInv, OutcomesInv, [Next]_vars, NEW d \in Calls, NEW attempt,
         NEW cl, NEW cs, Sends(d, attempt, cl, cs), NEW c \in Calls
  PROVE  Sound(c)'
<1>1. PICK n : SentOver(d, attempt, cl, cs, n)
  BY SendsTo
<1>2. AreCalls(cs) /\ attempt \in {0, 1}
  BY DEF Sends, Fit, Types
<1>3. PICK r : r = Len(request) + 1
  OBVIOUS
<1>4. /\ r \in Nat /\ Len(request) \in Nat /\ n \in Nat
  BY <1>1, <1>3, InvFacts, RequestFacts DEF SentOver, Sends, Fit, Types, Clients
<1>5. PICK o \in {"retiring", "lost"} : Goes(call[c], cs[c], o)
  BY DEF Sends
<1>6. o \in Outcomes \ {"tooLarge", "queueTimeout"}
  BY <1>5 DEF Outcomes, Answers
<1>7. CASE d \in Oversized
  <2>1. call' = Settled(cs, d, "tooLarge") /\ request' = request
    BY <1>1, <1>7 DEF SentOver
  <2>2. CASE c # d
    <3>1. call'[c] = cs[c]
      BY <1>2, <2>1, <2>2, SettledFacts
    <3> QED  BY <1>4, <1>5, <1>6, <2>1, <3>1, GoesSound DEF Goes
  <2>3. CASE c = d
    <3>1. call'[c] = [cs[c] EXCEPT !.place = "settled", !.outcome = "tooLarge"]
      BY <1>2, <2>1, <2>3 DEF Settled, AreCalls
    <3>2. IsCall(cs[c])
      BY <1>2 DEF AreCalls
    <3>3. call'[c].place = "settled" /\ call'[c].outcome = "tooLarge"
          /\ call'[c].request = cs[c].request
      BY <3>1, <3>2 DEF IsCall
    <3>4. call'[c].request \in 0..Len(request)
      BY <1>5, <3>3 DEF Goes, OutcomesInv, Sound
    <3> QED  BY <2>1, <3>3, <3>4 DEF Sound, Outcomes
  <2> QED  BY <2>2, <2>3
<1>8. CASE d \notin Oversized
  <2>1. call' = [cs EXCEPT ![d] = Asked(cs[d], r, attempt)]
        /\ request' = Append(request, [call |-> d, helper |-> n])
    BY <1>1, <1>3, <1>8 DEF SentOver
  <2>2. DOMAIN request' = DOMAIN request \cup {r}
    BY <1>3, <1>4, <2>1, SentAppend
  <2>3. Len(request') = r
    <3> DEFINE e == [call |-> d, helper |-> n]
               S == [call: Calls, helper: Nat]
    <3>1. e \in S /\ request \in Seq(S) /\ request' = Append(request, e)
      BY <1>4, <2>1, InvFacts DEF SentRequests
    <3> HIDE DEF e, S
    <3> QED  BY <1>3, <3>1, AppendProperties
  <2>4. CASE c # d
    <3>1. call'[c] = cs[c]
      BY <1>2, <2>1, <2>4 DEF AreCalls
    <3>2. Len(request) <= Len(request') /\ Len(request') \in Nat
      BY <1>3, <1>4, <2>3
    <3> QED  BY <1>5, <1>6, <2>2, <3>1, <3>2, GoesSound DEF Goes
  <2>5. CASE c = d
    <3>1. call'[c] = Asked(cs[c], r, attempt)
      BY <1>2, <2>1, <2>5 DEF AreCalls
    <3>2. call'[c].request = r /\ call'[c].outcome = "none"
      <4>1. IsCall(cs[c])
        BY <1>2 DEF AreCalls
      <4> QED  BY <3>1, <4>1 DEF Asked, IsCall
    <3>3. call'[c].request \in 0..Len(request')
      BY <1>4, <2>3, <3>2
    <3> QED  BY <3>2, <3>3 DEF Sound, Outcomes
  <2> QED  BY <2>4, <2>5
<1> QED  BY <1>7, <1>8

LEMMA NextOutcomes ==
  HelperInv /\ Counts /\ PlacesInv /\ OutcomesInv /\ [Next]_vars => OutcomesInv'
<1> SUFFICES ASSUME HelperInv, Counts, PlacesInv, OutcomesInv, [Next]_vars, NEW c \in Calls
             PROVE  Sound(c)'
  BY DEF OutcomesInv
<1>1. CASE UNCHANGED <<call, request, client>>
  <2>1. Len(request) \in Nat
    BY InvFacts, RequestFacts
  <2> QED  BY <1>1, <2>1, GoesSound
<1> QED  BY <1>1, StepKinds, SendsSound, HostSound

LEMMA InitOutcomes == Init => OutcomesInv
<1> SUFFICES ASSUME Init, NEW c \in Calls PROVE Sound(c)
  BY DEF OutcomesInv
<1>1. call[c].outcome = "none" /\ call[c].request = 0 /\ Len(request) = 0
  BY DEF Init
<1> QED  BY <1>1 DEF Sound, Outcomes

-----------------------------------------------------------------------------
(* The idle timer.                                                          *)

(* A call refused for its size stays refused.                               *)
LEMMA RefusedForSize ==
  ASSUME HelperInv, Counts, PlacesInv, OutcomesInv, [Next]_vars,
         NEW c \in Calls, call[c].outcome = "tooLarge"
  PROVE  call'[c].outcome = "tooLarge"
<1>1. call[c].place = "settled"
  BY DEF OutcomesInv, Sound
<1>2. ASSUME NEW d \in Calls, NEW attempt, NEW cl, NEW cs, Sends(d, attempt, cl, cs)
      PROVE  call'[c].outcome = "tooLarge"
  <2>1. PICK n : SentOver(d, attempt, cl, cs, n)
    BY <1>2, SendsTo
  <2>2. /\ AreCalls(cs) /\ cs[d].place \in {"unborn", "rejected"}
        /\ \E o \in {"retiring", "lost"} : Goes(call[c], cs[c], o)
    BY <1>2 DEF Sends, Fit, Types
  <2>3. cs[c].place = "settled" /\ cs[c].outcome = "tooLarge" /\ c # d
    BY <1>1, <2>2 DEF Goes
  <2>4. call'[c] = cs[c]
    <3>1. call' = Settled(cs, d, "tooLarge") => call'[c] = cs[c]
      BY <2>2, <2>3, SettledFacts
    <3>2. ASSUME NEW e, call' = [cs EXCEPT ![d] = e] PROVE call'[c] = cs[c]
      BY <2>2, <2>3, <3>2 DEF AreCalls
    <3> QED  BY <2>1, <3>1, <3>2 DEF SentOver
  <2> QED  BY <2>3, <2>4
<1>3. ASSUME NEW o, Moves(o) PROVE call'[c].outcome = "tooLarge"
  BY <1>1, <1>3 DEF Moves, Goes
<1>4. CASE UNCHANGED <<call, request, client>>
  BY <1>4
<1> QED  BY <1>2, <1>3, <1>4, StepKinds, HostMovesMoves

(* The loss of a helper that is not lost yet sets the timer.                *)
LEMMA LoseCovers ==
  ASSUME HelperInv, Counts, PlacesInv, IdleIsCovered, NEW n \in 1..client.spawned, NEW o,
         Lose(n, o)
  PROVE  IdleIsCovered'
<1>1. /\ client' = GiveUp(client, n) /\ helper' = HelpersWithout(client'.lost)
  BY DEF Lose
<1>2. CASE n \notin client.lost
  <2>1. client'.idleTimer = Idle(client')
    BY <1>1, <1>2, InvFacts, GiveUpFacts DEF Paired
  <2> QED  BY <2>1 DEF IdleIsCovered, Idle
<1>3. CASE n \in client.lost
  <2>1. client' = client
    BY <1>1, <1>3 DEF GiveUp
  <2>2. \A m \in 1..client.spawned \ client.lost : helper'[m] = helper[m]
    BY <1>1, <2>1, NumbersFit DEF HelpersWithout
  <2> QED  BY <2>1, <2>2 DEF IdleIsCovered, Idle
<1> QED  BY <1>2, <1>3

LEMMA HostCovers ==
  ASSUME HelperInv, Counts, PlacesInv, IdleIsCovered, HostMoves
  PROVE  IdleIsCovered'
<1>1. ASSUME NEW n \in 1..client.spawned, NEW o, Lose(n, o) PROVE IdleIsCovered'
  BY <1>1, LoseCovers
<1>2. ASSUME NEW r \in DOMAIN request, NEW o, WriteFails(r, o) PROVE IdleIsCovered'
  <2>1. PICK n : n = HelperOf(r)
    OBVIOUS
  <2>2. /\ r \in client.unacked /\ helper' = helper /\ client' = Forget(client, {r})
        /\ ~(helper[n].up /\ ~helper[n].broken)
    BY <1>2, <2>1 DEF WriteFails
  <2>3. client'.lost = client.lost /\ client'.spawned = client.spawned
    BY <2>2, InvFacts, ForgetFacts
  <2>4. n \in 1..client'.spawned \ client'.lost
    BY <2>1, <2>2, <2>3, InvFacts DEF Attached, HelperOf
  <2> QED  BY <2>2, <2>4 DEF IdleIsCovered
<1>3. ASSUME NEW n \in Helpers, Answer(n) PROVE IdleIsCovered'
  <2> DEFINE left == Forget(client, {Head(pipeOut[n])[1]})
             timer == left.idleTimer \/ Idle(left)
  <2>1. client' = [left EXCEPT !.idleTimer = timer]
    BY <1>3 DEF Answer
  <2>2. left \in Clients
    BY InvFacts, ForgetFacts
  <2> HIDE DEF left
  <2>3. /\ client'.idleTimer = timer /\ client'.phase = left.phase
        /\ client'.current = left.current /\ client'.pending = left.pending
    BY <2>1, <2>2 DEF Clients
  <2>4. Idle(left) => client'.idleTimer
    BY <2>3
  <2>5. Idle(client') => Idle(left)
    BY <2>3 DEF Idle
  <2> QED  BY <2>4, <2>5 DEF IdleIsCovered, Idle
<1>4. ASSUME NEW n \in Helpers, LateEvent(n) PROVE IdleIsCovered'
  <2>1. client'.idleTimer = TRUE
    BY <1>4, InvFacts DEF LateEvent, Clients
  <2> QED  BY <2>1 DEF IdleIsCovered
<1>5. ASSUME NEW c \in Calls, Abort(c) PROVE IdleIsCovered'
  <2>1. CASE call[c].place = "rejected"
    BY <1>5, <2>1 DEF Abort, IdleIsCovered, Idle
  <2>2. CASE call[c].place = "waiting"
    <3>1. client' = [client EXCEPT !.pending = @ \ {call[c].request}]
      BY <1>5, <2>2 DEF Abort
    <3>2. client'.unacked = client.unacked
      BY <3>1, InvFacts DEF Clients
    <3>3. call[c].request \in client.unacked
      BY <2>2, InvFacts DEF Paired
    <3> QED  BY <3>2, <3>3 DEF IdleIsCovered
  <2> QED  BY <1>5, <2>1, <2>2 DEF Abort
<1>6. ASSUME UNCHANGED <<client, helper>> PROVE IdleIsCovered'
  BY <1>6 DEF IdleIsCovered, Idle
<1>7. CASE DisposeBegin \/ DisposeEnd
  <2>1. client'.phase # "open"
    BY <1>7, InvFacts DEF DisposeBegin, DisposeEnd, Clients
  <2> QED  BY <2>1 DEF IdleIsCovered, Idle
<1> QED  BY <1>1, <1>2, <1>3, <1>4, <1>5, <1>6, <1>7 DEF HostMoves, Ends, vars

LEMMA HelperCovers ==
  ASSUME HelperInv, Counts, PlacesInv, IdleIsCovered, NEW n \in Helpers, HelperMoves(n),
         UNCHANGED <<call, request, client>>
  PROVE  IdleIsCovered'
<1>1. ASSUME \A m \in Helpers : helper'[m].up = helper[m].up /\ helper'[m].broken = helper[m].broken
      PROVE  IdleIsCovered'
  BY <1>1, NumbersFit DEF IdleIsCovered, Idle
<1>2. ASSUME NEW in2, NEW hp2, NEW out2, Worked(n, in2, hp2, out2) PROVE IdleIsCovered'
  <2>1. helper' = [helper EXCEPT ![n] = hp2]
    BY <1>2 DEF Worked
  <2>2. hp2.up = helper[n].up /\ hp2.broken = helper[n].broken
    BY <1>2 DEF Worked, Works
  <2> QED  BY <1>1, <2>1, <2>2 DEF PlacesInv
<1>3. CASE HelperDies(n)
  <2>1. helper' = [helper EXCEPT ![n] = [Unused EXCEPT !.broken = helper[n].broken]]
    BY <1>3 DEF HelperDies
  <2>2. /\ helper'[n].up = FALSE /\ \A m \in Helpers \ {n} : helper'[m] = helper[m]
        /\ n \in 1..client.spawned
    <3>1. n <= client.spawned /\ n \in Nat /\ n >= 1 /\ client.spawned \in Nat
      BY <1>3, InvFacts, NumbersFit DEF HelperDies, PlacesInv, Clients, Helpers
    <3> QED  BY <2>1, <3>1 DEF PlacesInv, Unused
  <2>3. CASE n \in client.lost
    <3>1. \A m \in 1..client.spawned \ client.lost : helper'[m] = helper[m]
      BY <2>2, <2>3, NumbersFit
    <3> QED  BY <3>1 DEF IdleIsCovered, Idle
  <2>4. CASE n \notin client.lost
    BY <2>2, <2>4 DEF IdleIsCovered
  <2> QED  BY <2>3, <2>4
<1>4. CASE PipeBreaks(n)
  <2>1. /\ helper' = [helper EXCEPT ![n].broken = TRUE]
        /\ n \in 1..client.spawned \ client.lost
    BY <1>4 DEF PipeBreaks
  <2>2. helper[n] \in HelperOn(SentTo(n))
    BY HeldAt, HeldFacts
  <2>3. helper'[n] = [helper[n] EXCEPT !.broken = TRUE]
    BY <2>1 DEF PlacesInv
  <2>4. helper'[n].broken = TRUE
    BY <2>2, <2>3 DEF HelperOn
  <2> QED  BY <2>1, <2>4 DEF IdleIsCovered
<1> QED  BY <1>2, <1>3, <1>4 DEF HelperMoves

LEMMA NextIdle ==
  HelperInv /\ Counts /\ PlacesInv /\ OutcomesInv /\ IdleIsCoveredUnlessRefused /\ [Next]_vars
    => IdleIsCoveredUnlessRefused'
<1> SUFFICES ASSUME HelperInv, Counts, PlacesInv, OutcomesInv, IdleIsCoveredUnlessRefused,
                    [Next]_vars
             PROVE  IdleIsCoveredUnlessRefused'
  OBVIOUS
<1>1. CASE \E c \in Calls : call[c].outcome = "tooLarge"
  BY <1>1, RefusedForSize DEF IdleIsCoveredUnlessRefused
<1>2. CASE IdleIsCovered
  <2>1. ASSUME NEW c \in Calls, NEW attempt, NEW cl, NEW cs, Sends(c, attempt, cl, cs)
        PROVE  IdleIsCoveredUnlessRefused'
    <3>1. PICK n : SentOver(c, attempt, cl, cs, n)
      BY <2>1, SendsTo
    <3>2. CASE c \in Oversized
      <4>1. call' = Settled(cs, c, "tooLarge") /\ IsCall(cs[c]) /\ AreCalls(cs)
        BY <2>1, <3>1, <3>2 DEF SentOver, Sends, Fit, Types, AreCalls
      <4>2. call'[c] = [cs[c] EXCEPT !.place = "settled", !.outcome = "tooLarge"]
        BY <4>1 DEF Settled, AreCalls
      <4>3. call'[c].outcome = "tooLarge"
        BY <4>1, <4>2 DEF IsCall
      <4> QED  BY <4>3 DEF IdleIsCoveredUnlessRefused
    <3>3. CASE c \notin Oversized
      <4>1. client'.unacked # {}
        BY <3>1, <3>3 DEF SentOver
      <4> QED  BY <4>1 DEF IdleIsCoveredUnlessRefused, IdleIsCovered
    <3> QED  BY <3>2, <3>3
  <2> QED  BY <1>2, <2>1, StepKinds, HostCovers, HelperCovers DEF IdleIsCoveredUnlessRefused
<1> QED  BY <1>1, <1>2 DEF IdleIsCoveredUnlessRefused

-----------------------------------------------------------------------------
(* The properties of the helper lane.                                       *)

LaneInv == HelperInv /\ Counts /\ PlacesInv /\ OutcomesInv /\ IdleIsCoveredUnlessRefused

LEMMA LaneCorrect == Spec => []LaneInv
<1>1. Init => LaneInv
  <2>1. Init => IdleIsCoveredUnlessRefused
    BY DEF Init, IdleIsCoveredUnlessRefused, IdleIsCovered, Idle
  <2> QED  BY <2>1, InitFits, InitCounts, InitPlaces, InitOutcomes DEF LaneInv
<1>2. LaneInv /\ [Next]_vars => LaneInv'
  BY NextFits, NextCounts, NextPlaces, NextOutcomes, NextIdle DEF LaneInv
<1> QED  BY <1>1, <1>2, PTL DEF Spec

(* The types of calls, requests and client.                                 *)
LEMMA ClientTypes ==
  ASSUME LaneInv
  PROVE  /\ call \in [Calls -> [place: {"unborn", "waiting", "rejected", "settled"},
                                request: 0..MaxRequests, attempt: 0..1,
                                aborted: BOOLEAN, outcome: Outcomes]]
         /\ request \in Seq([call: Calls, helper: Helpers])
         /\ client \in [current: 0..MaxRequests, spawned: 0..MaxRequests,
                        lost: SUBSET Helpers, pending: SUBSET Requests,
                        unacked: SUBSET Requests, idleTimer: BOOLEAN,
                        phase: {"open", "closing", "closed"}, closing: SUBSET Helpers]
<1>1. /\ 1..client.spawned \subseteq Helpers /\ DOMAIN request \subseteq Requests
      /\ client.spawned \in 0..MaxRequests /\ Len(request) \in 0..MaxRequests
      /\ MaxRequests \in Nat
  BY NumbersFit DEF LaneInv
<1> DEFINE N == MaxRequests
<1>2. ASSUME NEW c \in Calls
      PROVE  call[c] \in [place: {"unborn", "waiting", "rejected", "settled"},
                          request: 0..N, attempt: 0..1, aborted: BOOLEAN, outcome: Outcomes]
  <2>1. IsCall(call[c])
    BY InvFacts DEF AreCalls, LaneInv
  <2>2. call[c].outcome \in Outcomes /\ call[c].request \in 0..Len(request)
    BY DEF LaneInv, OutcomesInv, Sound
  <2>3. call[c].request \in 0..N
    <3> HIDE DEF N
    <3> QED  BY <1>1, <2>2 DEF N
  <2>4. {0, 1} = 0..1
    OBVIOUS
  <2> HIDE DEF N
  <2> QED  BY <2>1, <2>2, <2>3, <2>4 DEF IsCall, Places
<1>3. call = [c \in Calls |-> call[c]]
  BY InvFacts DEF AreCalls, LaneInv
<1>4. request \in Seq([call: Calls, helper: Helpers])
  <2> DEFINE S == [call: Calls, helper: Nat]
             T == [call: Calls, helper: Helpers]
  <2>1. request \in Seq(S)
    BY InvFacts DEF SentRequests, LaneInv
  <2>2. ASSUME NEW r \in DOMAIN request PROVE request[r] \in T
    <3>1. request[r] \in S
      <4> HIDE DEF S
      <4> QED  BY <2>1
    <3>2. request[r].helper \in Helpers
      BY <1>1, InvFacts DEF Attached, LaneInv
    <3> QED  BY <3>1, <3>2
  <2>3. /\ Len(request) \in Nat /\ DOMAIN request = 1..Len(request)
        /\ request = [r \in 1..Len(request) |-> request[r]]
    <3> HIDE DEF S
    <3> QED  BY <2>1, LenProperties
  <2> HIDE DEF T, S
  <2>4. request \in [1..Len(request) -> T]
    BY <2>2, <2>3
  <2>5. request \in Seq(T)
    <3>1. PICK k \in Nat : k = Len(request)
      BY <2>3
    <3> QED  BY <2>4, <3>1, IsASeq
  <2> QED  BY <2>5 DEF T
<1>5. client \in [current: 0..N, spawned: 0..N,
                  lost: SUBSET Helpers, pending: SUBSET Requests,
                  unacked: SUBSET Requests, idleTimer: BOOLEAN,
                  phase: {"open", "closing", "closed"}, closing: SUBSET Helpers]
  <2>1. client \in Clients /\ Attached(request, client) /\ Paired(call, request, client)
    BY InvFacts DEF LaneInv
  <2>2. client.lost \subseteq Helpers /\ client.closing \subseteq Helpers
    BY <1>1, <2>1 DEF Attached
  <2>3. client.pending \subseteq Requests /\ client.unacked \subseteq Requests
    BY <1>1, <2>1 DEF Paired
  <2>4. client.current \in 0..N /\ client.spawned \in 0..N
    <3> HIDE DEF N
    <3> QED  BY <1>1, <2>1 DEF Attached, N
  <2> HIDE DEF N
  <2> QED  BY <2>1, <2>2, <2>3, <2>4 DEF Clients
<1>6. call \in [Calls -> [place: {"unborn", "waiting", "rejected", "settled"},
                          request: 0..N, attempt: 0..1, aborted: BOOLEAN, outcome: Outcomes]]
  BY <1>2, <1>3
<1> QED  BY <1>4, <1>5, <1>6

(* The types of helpers and pipes.                                          *)
LEMMA PipeTypes ==
  ASSUME LaneInv
  PROVE  /\ helper \in [Helpers -> HelperState]
         /\ pipeIn \in [Helpers -> Seq({"run", "cancel"} \X Requests)]
         /\ pipeOut \in [Helpers -> Seq(Requests \X Answers)]
         /\ started \subseteq Requests
<1>1. /\ HelperInv /\ PlacesInv /\ DOMAIN request \subseteq Requests
  BY NumbersFit DEF LaneInv
<1>2. ASSUME NEW n \in Helpers
      PROVE  /\ helper[n] \in HelperState
             /\ pipeIn[n] \in Seq({"run", "cancel"} \X Requests)
             /\ pipeOut[n] \in Seq(Requests \X Answers)
  <2> DEFINE sent == SentTo(n)
  <2>1. sent \subseteq Requests
    BY <1>1 DEF SentTo
  <2>2. /\ pipeIn[n] \in Seq(Lines(sent)) /\ helper[n] \in HelperOn(sent)
        /\ pipeOut[n] \in Seq(Replies(sent))
    BY <1>1, HeldAt, HeldFacts
  <2> HIDE DEF sent
  <2>3. pipeIn[n] \in Seq({"run", "cancel"} \X Requests)
    <3>1. Lines(sent) \subseteq {"run", "cancel"} \X Requests
      BY <2>1 DEF Lines
    <3> QED  BY <2>2, <3>1, SeqMonotonic
  <2>4. pipeOut[n] \in Seq(Requests \X Answers)
    <3>1. Replies(sent) \subseteq Requests \X Answers
      BY <2>1 DEF Replies
    <3> QED  BY <2>2, <3>1, SeqMonotonic
  <2>5. helper[n] \in HelperState
    <3>1. Seq(sent) \subseteq Seq(Requests)
      BY <2>1, SeqMonotonic
    <3> QED  BY <2>1, <2>2, <3>1 DEF HelperOn, HelperState
  <2> QED  BY <2>3, <2>4, <2>5
<1>3. /\ helper = [n \in Helpers |-> helper[n]] /\ pipeIn = [n \in Helpers |-> pipeIn[n]]
      /\ pipeOut = [n \in Helpers |-> pipeOut[n]] /\ started \subseteq Requests
  BY <1>1 DEF PlacesInv
<1> QED  BY <1>2, <1>3

(* Calls, requests, tables, helpers and pipes stay of their types: a client *)
(* never has more requests or helpers than two for every call of execute.   *)
THEOREM HelperTypeCorrect == Spec => []HelperTypeOK
<1>1. LaneInv => HelperTypeOK
  BY ClientTypes, PipeTypes DEF HelperTypeOK
<1> QED  BY <1>1, LaneCorrect, PTL

(* How often an element that q holds at most once is in it.                 *)
LEMMA SoleCount ==
  ASSUME NEW q, NEW X, Sole(q, X)
  PROVE  Cardinality({i \in DOMAIN q : q[i] \in X}) = IF ToSet(q) \cap X = {} THEN 0 ELSE 1
<1> DEFINE I == {i \in DOMAIN q : q[i] \in X}
<1>1. CASE ToSet(q) \cap X = {}
  <2>1. I = {}
    BY <1>1 DEF ToSet
  <2> QED  BY <1>1, <2>1, FS_EmptySet
<1>2. CASE ToSet(q) \cap X # {}
  <2>1. PICK i \in DOMAIN q : q[i] \in X
    BY <1>2 DEF ToSet
  <2>2. I = {i}
    BY <2>1 DEF Sole
  <2> QED  BY <1>2, <2>2, FS_Singleton
<1> QED  BY <1>1, <1>2

(* The four places of a request of a helper, counted.                       *)
Found(in, hp, out, r) ==
  Cardinality({i \in DOMAIN in : in[i] = <<"run", r>>})
    + Cardinality({i \in DOMAIN hp.queue : hp.queue[i] = r})
    + Cardinality({r} \cap (hp.active \ hp.flushing))
    + Cardinality({i \in DOMAIN out : out[i][1] = r})

LEMMA OnePlace ==
  ASSUME NEW in, NEW hp, NEW out, NEW sent \in SUBSET Nat, NEW st,
         Held(in, hp, out, sent, st), NEW r \in sent, r \in Spots(in, hp, out)
  PROVE  Found(in, hp, out, r) = 1
<1>1. /\ in \in Seq(Lines(sent)) /\ out \in Seq(Replies(sent)) /\ hp.queue \in Seq(sent)
      /\ Sole(in, {<<"run", r>>}) /\ Sole(hp.queue, {r}) /\ Sole(out, {r} \X Answers)
      /\ Placed(Unread(in), ToSet(hp.queue), hp.active, hp.flushing,
                Answered(out), Refused(out), st)
  BY HeldFacts
<1> DEFINE a == Cardinality({i \in DOMAIN in : in[i] = <<"run", r>>})
           b == Cardinality({i \in DOMAIN hp.queue : hp.queue[i] = r})
           c == Cardinality({r} \cap (hp.active \ hp.flushing))
           d == Cardinality({i \in DOMAIN out : out[i][1] = r})
<1>2. a = IF r \in Unread(in) THEN 1 ELSE 0
  <2>1. {i \in DOMAIN in : in[i] = <<"run", r>>} = {i \in DOMAIN in : in[i] \in {<<"run", r>>}}
    OBVIOUS
  <2>2. r \in Unread(in) <=> ToSet(in) \cap {<<"run", r>>} # {}
    BY DEF Unread
  <2>3. Cardinality({i \in DOMAIN in : in[i] \in {<<"run", r>>}})
          = IF ToSet(in) \cap {<<"run", r>>} = {} THEN 0 ELSE 1
    BY <1>1, SoleCount
  <2> QED  BY <2>1, <2>2, <2>3
<1>3. b = IF r \in ToSet(hp.queue) THEN 1 ELSE 0
  <2>1. {i \in DOMAIN hp.queue : hp.queue[i] = r} = {i \in DOMAIN hp.queue : hp.queue[i] \in {r}}
    OBVIOUS
  <2>2. Cardinality({i \in DOMAIN hp.queue : hp.queue[i] \in {r}})
          = IF ToSet(hp.queue) \cap {r} = {} THEN 0 ELSE 1
    BY <1>1, SoleCount
  <2> QED  BY <2>1, <2>2
<1>4. c = IF r \in hp.active \ hp.flushing THEN 1 ELSE 0
  <2>1. CASE r \in hp.active \ hp.flushing
    <3>1. {r} \cap (hp.active \ hp.flushing) = {r}
      BY <2>1
    <3> QED  BY <2>1, <3>1, FS_Singleton
  <2>2. CASE r \notin hp.active \ hp.flushing
    <3>1. {r} \cap (hp.active \ hp.flushing) = {}
      BY <2>2
    <3> QED  BY <2>2, <3>1, FS_EmptySet
  <2> QED  BY <2>1, <2>2
<1>5. d = IF r \in Answered(out) THEN 1 ELSE 0
  <2>1. \A i \in DOMAIN out : out[i] \in Replies(sent)
    BY <1>1
  <2>2. \A i \in DOMAIN out : out[i][1] = r <=> out[i] \in {r} \X Answers
    BY <2>1 DEF Replies
  <2>3. {i \in DOMAIN out : out[i][1] = r} = {i \in DOMAIN out : out[i] \in {r} \X Answers}
    BY <2>2
  <2>4. Cardinality({i \in DOMAIN out : out[i] \in {r} \X Answers})
          = IF ToSet(out) \cap ({r} \X Answers) = {} THEN 0 ELSE 1
    BY <1>1, SoleCount
  <2>5. ASSUME r \in Answered(out) PROVE ToSet(out) \cap ({r} \X Answers) # {}
    <3>1. PICK reply \in Answers : <<r, reply>> \in ToSet(out)
      BY <2>5 DEF Answered
    <3>2. <<r, reply>> \in {r} \X Answers
      OBVIOUS
    <3> QED  BY <3>1, <3>2
  <2>6. ASSUME NEW m \in ToSet(out), m \in {r} \X Answers PROVE r \in Answered(out)
    <3>1. m[1] = r /\ m[2] \in Answers /\ m = <<m[1], m[2]>> /\ r \in Nat
      BY <2>6
    <3>2. \E reply \in Answers : <<r, reply>> \in ToSet(out)
      BY <2>6, <3>1, Zenon
    <3> QED  BY <3>1, <3>2 DEF Answered
  <2> QED  BY <2>3, <2>4, <2>5, <2>6
<1> HIDE DEF a, b, c, d
<1>6. r \in Unread(in) \cup ToSet(hp.queue) \cup (hp.active \ hp.flushing) \cup Answered(out)
  BY DEF Spots
<1>7. /\ r \in Unread(in) => r \notin ToSet(hp.queue)
      /\ r \in Unread(in) \cup ToSet(hp.queue) => r \notin hp.active /\ r \notin Answered(out)
      /\ r \in hp.active \ hp.flushing => r \notin Answered(out)
  BY <1>1 DEF Placed
<1>8. \/ a = 1 /\ b = 0 /\ c = 0 /\ d = 0
      \/ a = 0 /\ b = 1 /\ c = 0 /\ d = 0
      \/ a = 0 /\ b = 0 /\ c = 1 /\ d = 0
      \/ a = 0 /\ b = 0 /\ c = 0 /\ d = 1
  BY <1>2, <1>3, <1>4, <1>5, <1>6, <1>7
<1>9. a + b + c + d = 1
  BY <1>8
<1> QED  BY <1>9 DEF Found, a, b, c, d

(* No request the client expects an answer to is dropped or answered twice  *)
(* by a helper whose pipes work: it is in exactly one place.                *)
THEOREM UnackedIsSomewhereCorrect == Spec => []UnackedIsSomewhere
<1>1. LaneInv => UnackedIsSomewhere
  <2> SUFFICES ASSUME LaneInv, NEW n \in 1..client.spawned \ client.lost,
                      helper[n].up /\ ~helper[n].broken,
                      NEW r \in client.unacked \cap SentTo(n)
               PROVE  Found(pipeIn[n], helper[n], pipeOut[n], r) = 1
    BY DEF UnackedIsSomewhere, Found
  <2>1. HelperInv /\ PlacesInv /\ n \in Helpers
    BY NumbersFit DEF LaneInv
  <2>2. /\ Held(pipeIn[n], helper[n], pipeOut[n], SentTo(n), started \cap SentTo(n))
        /\ SentTo(n) \in SUBSET Nat
    BY <2>1, HeldAt
  <2>3. r \in Spots(pipeIn[n], helper[n], pipeOut[n]) /\ r \in SentTo(n)
    BY <2>1 DEF PlacesInv, Tracked, Tracks
  <2> QED  BY <2>2, <2>3, OnePlace
<1> QED  BY <1>1, LaneCorrect, PTL

(* An answer that says its request was not executed is true, when it is     *)
(* written and whenever it is read: what is refused never starts.           *)
THEOREM RefusalsAreTrue == Spec => []RefusalsDidNotRun
<1>1. LaneInv => RefusalsDidNotRun
  <2> SUFFICES ASSUME LaneInv PROVE RefusalsDidNotRun
    OBVIOUS
  <2>1. HelperInv /\ PlacesInv /\ OutcomesInv
    BY DEF LaneInv
  <2>2. ASSUME NEW n \in Helpers, NEW i \in DOMAIN pipeOut[n],
               pipeOut[n][i][2] \in {"retiring", "queueTimeout", "cancelled"}
        PROVE  pipeOut[n][i][1] \notin started
    <3>1. PICK m : m = pipeOut[n][i]
      OBVIOUS
    <3>2. /\ pipeOut[n] \in Seq(Replies(SentTo(n))) /\ SentTo(n) \subseteq Nat
          /\ Refused(pipeOut[n]) \cap (started \cap SentTo(n)) = {}
      <4>1. /\ SentTo(n) \in SUBSET Nat
            /\ Held(pipeIn[n], helper[n], pipeOut[n], SentTo(n), started \cap SentTo(n))
        BY <2>1, HeldAt
      <4> QED  BY <4>1 DEF Held, Placed
    <3>3. m \in Replies(SentTo(n)) /\ m \in ToSet(pipeOut[n])
      BY <3>1, <3>2 DEF ToSet
    <3>4. m[1] \in SentTo(n) /\ m[2] \in Answers \ {"done"} /\ m = <<m[1], m[2]>>
      BY <2>2, <3>1, <3>3 DEF Replies
    <3>5. m[1] \in Refused(pipeOut[n])
      BY <3>2, <3>3, <3>4, Zenon DEF Refused
    <3> QED  BY <3>1, <3>2, <3>4, <3>5
  <2>3. ASSUME NEW c \in Calls, call[c].outcome = "queueTimeout"
        PROVE  call[c].request \notin started
    BY <2>1, <2>3 DEF OutcomesInv, Sound, Unstartable
  <2> QED  BY <2>2, <2>3 DEF RefusalsDidNotRun
<1> QED  BY <1>1, LaneCorrect, PTL

(* A helper with nothing to do is under the idle timer, as long as no call  *)
(* was refused for its size, whatever answers, losses and retries do.       *)
THEOREM IdleHelpersAreTimed == Spec => []IdleIsCoveredUnlessRefused
<1>1. LaneInv => IdleIsCoveredUnlessRefused
  BY DEF LaneInv
<1> QED  BY <1>1, LaneCorrect, PTL

=============================================================================
