------------------------------ MODULE Routes ------------------------------
(***************************************************************************)
(* How a request finds an answer of the AI provider (app/ai/gemini.py,     *)
(* app/ai/key_pool.py): the owner's key, keys of the shared pool, the      *)
(* service's own key; for each a chain of models; pauses of a model, rests *)
(* of a key, one request at a time on a key, and a limit of requests.      *)
(*                                                                         *)
(* A step is what a request does between two awaits.  Requests with a      *)
(* search in the web, which has no caller while the business mode is       *)
(* switched off, are left out.                                             *)
(***************************************************************************)
EXTENDS Integers, FiniteSets, SequencesExt

CONSTANTS
  Pool,      \* keys of the pool, ordered by their ids
  Service,   \* the service's key
  Askers,    \* tasks that make requests
  OwnKey,    \* the owner's key of a task, or None
  None,
  Models,    \* the chain of models, the main one first
  Slots,     \* requests to the provider at a time
  Width,     \* keys of the pool that one request may try
  QuotaPause, TroublePause, LongestPause,  \* pauses of a model
  LongRest, ShortRest,  \* rests of a key of the pool
  MainRest,  \* how long the main model is asked last with the service's key
  CallLimit, Deadline,  \* of one call, and of a request
  Answers,   \* bound of the model: the answers that may occur
  Switched,  \* bound of the model: keys that may be switched off and on
  MaxAsks,   \* bound of the model: requests
  MaxFailed  \* failures after which a pause grows no longer

Kinds == {"text", "refusal", "quota", "trouble", "transport", "denied", "bad", "gone"}

ASSUME RouteAssumption ==
  /\ Pool \subseteq Nat /\ Service \notin Pool /\ Answers \subseteq Kinds
  /\ IsFiniteSet(Pool) /\ None \notin Askers
  /\ Models \in Seq(ToSet(Models)) /\ Len(Models) > 0
  /\ {Slots, Width, MaxFailed} \subseteq Nat \ {0}
  /\ {LongRest, ShortRest, MainRest, CallLimit, Deadline} \subseteq Nat

\* Times are what is left of them: 0 is a time that has passed.
VARIABLES
  key,       \* rows of service_api_keys
  order,     \* the keys of the pool, by their last use
  holder,    \* who holds the lock of a key
  paused,    \* _model_pauses, by key and model
  failed,    \* _model_failures: failures in a row
  mainRests, \* the cooldown of the main model
  asker,     \* the requests
  asks       \* requests made so far

routing == <<key, order, holder, paused, failed, mainRests, asker, asks>>

Main == Models[1]
Keys == Pool \cup {Service} \cup ({OwnKey[a] : a \in Askers} \ {None})
Pairs == Keys \X ToSet(Models)
Resting == [at |-> "idle", routes |-> <<>>, models |-> <<>>, left |-> 0, wait |-> 0,
            trouble |-> {}, refused |-> FALSE]

InitRoutes ==
  /\ key = [k \in Pool |-> [enabled |-> TRUE, rest |-> 0]]
  /\ order = SetToSortSeq(Pool, LAMBDA k, l : k < l)
  /\ holder = [k \in Keys |-> None]
  /\ paused = [p \in Pairs |-> 0] /\ failed = [p \in Pairs |-> 0]
  /\ mainRests = 0 /\ asker = [a \in Askers |-> Resting] /\ asks = 0

Ready(k) == key[k].enabled /\ key[k].rest = 0
Key(a) == Head(asker[a].routes)
Model(a) == Head(asker[a].models)
Asked == {a \in Askers : asker[a].at = "asked"}

Onward(a) ==
  [asker[a] EXCEPT !.at = "route", !.routes = Tail(@), !.models = <<>>, !.wait = 0,
                   !.trouble = {}]
Release(a) == holder' = [holder EXCEPT ![Key(a)] = None]
Skip(a) == Release(a) /\ asker' = [asker EXCEPT ![a] = Onward(a)]

-----------------------------------------------------------------------------
(* The way to a key and a model.                                           *)

Stands(s, x, y) == \E i, j \in DOMAIN s : i < j /\ s[i] = x /\ s[j] = y

\* The members of S as they stand in s.
Listed(S, s) ==
  {c \in [1..Cardinality(S) -> S] :
     \A i, j \in DOMAIN c : i < j => c[i] # c[j] /\ Stands(s, c[i], c[j])}

\* key_pool.candidates: the keys that were used longest ago.
Candidates ==
  {SubSeq(c, 1, IF Len(c) < Width THEN Len(c) ELSE Width) :
     c \in Listed({k \in Pool : Ready(k)}, order)}

Ask(a) ==
  /\ asker[a].at = "idle" /\ asks < MaxAsks /\ asks' = asks + 1
  /\ \E pool \in Candidates :
       asker' = [asker EXCEPT ![a] = [Resting EXCEPT !.at = "route", !.left = Deadline,
         !.routes = (IF OwnKey[a] = None THEN <<>> ELSE <<OwnKey[a]>>) \o pool \o <<Service>>]]
  /\ UNCHANGED <<key, order, holder, paused, failed, mainRests>>

\* The chain of a key: the main model last while it rests, paused ones left out.
Usable(k) == {m \in ToSet(Models) : paused[<<k, m>>] = 0}
Chains(k) ==
  Listed(Usable(k), IF k = Service /\ mainRests > 0 THEN Append(Tail(Models), Main) ELSE Models)

Take(a) ==
  /\ holder' = [holder EXCEPT ![Key(a)] = a]
  /\ \E chain \in Chains(Key(a)) :
       asker' = [asker EXCEPT ![a].at = "call", ![a].models = chain]

\* Slip: the lock of a key is not looked at.
TakeKeyAnyhow(a) ==
  /\ asker[a].at = "route" /\ asker[a].routes # <<>> /\ Key(a) \notin Pool
  /\ Usable(Key(a)) # {} /\ Take(a)
  /\ UNCHANGED <<key, order, paused, failed, mainRests, asks>>

TakeKey(a) ==
  /\ asker[a].at = "route" /\ asker[a].routes # <<>> /\ Key(a) \notin Pool
  /\ holder[Key(a)] = None /\ Usable(Key(a)) # {} /\ Take(a)
  /\ UNCHANGED <<key, order, paused, failed, mainRests, asks>>

\* A key of the pool is locked, then claimed in the database.
LockPoolKey(a) ==
  /\ asker[a].at = "route" /\ asker[a].routes # <<>> /\ Key(a) \in Pool
  /\ holder[Key(a)] = None
  /\ holder' = [holder EXCEPT ![Key(a)] = a]
  /\ asker' = [asker EXCEPT ![a].at = "claim"]
  /\ UNCHANGED <<key, order, paused, failed, mainRests, asks>>

\* Slip: a key is taken as it was when the candidates were read.
ClaimAsRead(a) ==
  /\ asker[a].at = "claim"
  /\ order' = Append(SelectSeq(order, LAMBDA k : k # Key(a)), Key(a))
  /\ Take(a)
  /\ UNCHANGED <<key, paused, failed, mainRests, asks>>

Claim(a) ==
  /\ asker[a].at = "claim"
  /\ IF Ready(Key(a))
     THEN /\ order' = Append(SelectSeq(order, LAMBDA k : k # Key(a)), Key(a))
          /\ IF Usable(Key(a)) # {} THEN Take(a) ELSE Skip(a)
     ELSE Skip(a) /\ UNCHANGED order
  /\ UNCHANGED <<key, paused, failed, mainRests, asks>>

\* A key in use is passed over, nobody waits for it; so is one with every model paused.
PassOver(a) ==
  /\ asker[a].at = "route" /\ asker[a].routes # <<>>
  /\ holder[Key(a)] # None \/ (Key(a) \notin Pool /\ Usable(Key(a)) = {})
  /\ asker' = [asker EXCEPT ![a] = Onward(a)]
  /\ UNCHANGED <<key, order, holder, paused, failed, mainRests, asks>>

\* No route is left: AIError, or BusyError when nothing was asked.
NoRoute(a) ==
  /\ asker[a].at = "route" /\ asker[a].routes = <<>>
  /\ asker' = [asker EXCEPT ![a] = Resting]
  /\ UNCHANGED <<key, order, holder, paused, failed, mainRests, asks>>

-----------------------------------------------------------------------------
(* Calls.                                                                  *)

TooLate(a) ==
  /\ asker[a].at = "call" /\ asker[a].left = 0
  /\ Release(a) /\ asker' = [asker EXCEPT ![a] = Resting]
  /\ UNCHANGED <<key, order, paused, failed, mainRests, asks>>

Call(a) ==
  /\ asker[a].at = "call" /\ asker[a].left > 0
  /\ Cardinality(Asked) < Slots
  /\ asker' = [asker EXCEPT ![a].at = "asked", ![a].wait = CallLimit]
  /\ UNCHANGED <<key, order, holder, paused, failed, mainRests, asks>>

Text(a) ==
  /\ asker[a].at = "asked" /\ "text" \in Answers
  /\ paused' = [paused EXCEPT ![<<Key(a), Model(a)>>] = 0]
  /\ failed' = [failed EXCEPT ![<<Key(a), Model(a)>>] = 0]
  /\ key' = IF Key(a) \in Pool THEN [key EXCEPT ![Key(a)].rest = 0] ELSE key
  /\ Release(a) /\ asker' = [asker EXCEPT ![a] = Resting]
  /\ UNCHANGED <<order, mainRests, asks>>

Operational == Kinds \ {"text", "refusal"}
Transient == {"refusal", "quota", "trouble", "transport"}

\* _pause_model: twice as long after every failure, until the model answers.
Pause(k, m, kind) ==
  LET n == IF failed[<<k, m>>] < MaxFailed THEN failed[<<k, m>>] + 1 ELSE MaxFailed
      base == IF kind = "quota" THEN QuotaPause ELSE TroublePause
      time == IF base * 2^(n - 1) < LongestPause THEN base * 2^(n - 1) ELSE LongestPause
  IN IF kind \in {"quota", "trouble"}
     THEN /\ failed' = [failed EXCEPT ![<<k, m>>] = n]
          /\ paused' = [paused EXCEPT ![<<k, m>>] = time]
     ELSE UNCHANGED <<failed, paused>>

\* Errors after which the other models of the key are not tried.
Breaks(a, kind) ==
  kind \in {"denied", "bad"} \/ (kind = "quota" /\ Key(a) \notin Pool \cup {Service})

\* Slip: a route that only refused is left like one that failed.
LeaveRouteAnyhow(a, trouble) ==
  /\ asker' = [asker EXCEPT ![a] = [Onward(a) EXCEPT !.refused = (trouble = {})]]
  /\ key' = IF Key(a) \in Pool
            THEN [key EXCEPT ![Key(a)].rest =
                   IF trouble \cap {"denied", "quota"} # {} THEN LongRest ELSE ShortRest]
            ELSE key

\* The end of a route: a refusal of the content ends the request, other
\* failures put a key of the pool to rest and lead to the next route.
LeaveRoute(a, trouble) ==
  IF trouble = {}
  THEN asker' = [asker EXCEPT ![a] = [Resting EXCEPT !.refused = TRUE]] /\ UNCHANGED key
  ELSE /\ asker' = [asker EXCEPT ![a] = Onward(a)]
       /\ key' = IF Key(a) \in Pool
                 THEN [key EXCEPT ![Key(a)].rest =
                        IF trouble \cap {"denied", "quota"} # {} THEN LongRest ELSE ShortRest]
                 ELSE key

Failure(a, kind) ==
  LET trouble == asker[a].trouble \cup ({kind} \cap Operational) IN
  /\ Pause(Key(a), Model(a), kind)
  /\ mainRests' = IF Key(a) = Service /\ Model(a) = Main /\ kind \in Transient
                  THEN MainRest ELSE mainRests
  /\ IF Breaks(a, kind) \/ Len(asker[a].models) = 1
     THEN LeaveRoute(a, trouble) /\ Release(a)
     ELSE /\ asker' = [asker EXCEPT ![a].at = "call", ![a].models = Tail(@), ![a].wait = 0,
                                    ![a].trouble = trouble]
          /\ UNCHANGED <<key, holder>>
  /\ UNCHANGED <<order, asks>>

Refuse(a) == asker[a].at = "asked" /\ \E kind \in Answers \ {"text"} : Failure(a, kind)

\* The limit of a call runs while it waits for a slot, too.
NoSlot(a) ==
  /\ asker[a].at = "call" /\ asker[a].left > 0
  /\ Cardinality(Asked) >= Slots /\ "transport" \in Answers
  /\ Failure(a, "transport")

\* The administrator switches a key of the pool on or off.
Toggle(k) ==
  /\ k \in Switched
  /\ key' = [key EXCEPT ![k].enabled = ~@]
  /\ UNCHANGED <<order, holder, paused, failed, mainRests, asker, asks>>

Less(time) == IF time = 0 THEN 0 ELSE time - 1

\* A call ends with its own limit and with that of its request.
RouteTick ==
  /\ \A a \in Asked : asker[a].wait > 0 /\ asker[a].left > 0
  /\ paused' = [p \in Pairs |-> Less(paused[p])] /\ mainRests' = Less(mainRests)
  /\ key' = [k \in Pool |-> [key[k] EXCEPT !.rest = Less(@)]]
  /\ asker' = [a \in Askers |-> [asker[a] EXCEPT !.left = Less(@), !.wait = Less(@)]]
  /\ UNCHANGED <<order, holder, failed, asks>>

RoutesNext ==
  \/ \E a \in Askers :
       \/ Ask(a) \/ TakeKey(a) \/ LockPoolKey(a) \/ Claim(a) \/ PassOver(a) \/ NoRoute(a)
       \/ TooLate(a) \/ Call(a) \/ Text(a) \/ Refuse(a) \/ NoSlot(a)
  \/ \E k \in Pool : Toggle(k)
  \/ RouteTick

RoutesSpec == InitRoutes /\ [][RoutesNext]_routing

-----------------------------------------------------------------------------
RoutesTypeOK ==
  /\ key \in [Pool -> [enabled : BOOLEAN, rest : Nat]]
  /\ ToSet(order) = Pool /\ Len(order) = Cardinality(Pool)
  /\ holder \in [Keys -> Askers \cup {None}]
  /\ paused \in [Pairs -> Nat] /\ failed \in [Pairs -> 0..MaxFailed] /\ mainRests \in Nat
  /\ \A a \in Askers :
       /\ asker[a].at \in {"idle", "route", "claim", "call", "asked"}
       /\ asker[a].at \in {"claim", "call", "asked"} => holder[Key(a)] = a

\* A key serves one request at a time (gemini.py:237-242): no two calls of the
\* provider are under way with it.
OneCallPerKey == \A a, b \in Asked : a # b => Key(a) # Key(b)

\* No call begins on a model that is paused for its key, nor on a key of the
\* pool that was put to rest after the candidates were read
\* (gemini.py:242-247, key_pool.py:42-45).
PausesKept ==
  [][\A a \in Askers : a \notin Asked /\ asker'[a].at = "asked" =>
       /\ paused[<<Key(a), Model(a)>>] = 0
       /\ Key(a) \in Pool => key[Key(a)].rest = 0]_routing

\* A text that a provider has refused for its content is not shown to another
\* account (gemini.py:276-284).
RefusalEndsIt == \A a \in Askers : asker[a].refused => asker[a].at = "idle"
=============================================================================
