------------------------- MODULE BundledRuntimeProofs -------------------------
(***************************************************************************)
(* Proofs about the owner of the bridge process, for every finite number   *)
(* of overlapping calls and shutdowns.                                     *)
(*                                                                         *)
(* #client and #connecting are one slot: at most one of them is set.  A    *)
(* client that loses the slot while its promise is not yet stored is loose *)
(* and can only push another one out when it arrives, so the number of     *)
(* loose clients grows only where #forgetClient disowns a new one.  The    *)
(* argument rests on the order of continuations: the call that opened a    *)
(* client is resumed before the calls that joined it.                      *)
(***************************************************************************)
EXTENDS BundledRuntime, FiniteSetTheorems, TLAPS

-----------------------------------------------------------------------------
(* The inductive invariant.                                                *)

Statuses == {"unused", "opening", "ready", "failed", "stillborn", "dead"}
CallStates == {"idle", "opening", "joined", "using", "done"}
Continuations == [call : Calls, client : Clients]

Typed ==
    /\ TypeOK
    /\ waiting \in [Clients -> Seq(Calls)]
    /\ microtasks \in Seq(Continuations)
    /\ using \in [Calls -> Clients \cup {None}]

\* A call awaits at one place only.
OnePlace ==
    /\ \A c \in Clients : \A i, j \in DOMAIN waiting[c] : waiting[c][i] = waiting[c][j] => i = j
    /\ \A c, d \in Clients : c # d =>
          \A i \in DOMAIN waiting[c], j \in DOMAIN waiting[d] : waiting[c][i] # waiting[d][j]
    /\ \A i, j \in DOMAIN microtasks : microtasks[i].call = microtasks[j].call => i = j
    /\ \A c \in Clients : \A i \in DOMAIN waiting[c], j \in DOMAIN microtasks :
          waiting[c][i] # microtasks[j].call

\* Who awaits a client: first the call that opened it, then those that joined.
Queued ==
    /\ \A c \in Clients : status[c] = "opening" <=> waiting[c] # <<>>
    /\ \A c \in Clients : \A i \in DOMAIN waiting[c] :
          call[waiting[c][i]] = IF i = 1 THEN "opening" ELSE "joined"
    /\ \A i \in DOMAIN microtasks :
          /\ call[microtasks[i].call] = "joined" \/ (i = 1 /\ call[microtasks[i].call] = "opening")
          /\ microtasks[i].client = microtasks[1].client
          /\ status[microtasks[i].client] \in {"ready", "failed", "stillborn"}

\* The continuation of the call that opened a client is due.
OpenerDue == microtasks # <<>> /\ call[microtasks[1].call] = "opening"

\* The clients whose opening has settled but which are not stored yet.
Arriving == IF OpenerDue THEN {microtasks[1].client} ELSE {}

\* #client and #connecting.
Slot ==
    /\ client # None => connecting = None
    /\ connecting # None => status[connecting] = "opening" \/ connecting \in Arriving
    /\ connecting # None => connecting \notin disowned
    /\ \A c \in disowned : status[c] # "unused"
    /\ \A c \in stopping \cup ({client} \ {None}) :
          status[c] \notin {"unused", "opening"} /\ c \notin Arriving
    /\ microtasks # <<>> /\ ~OpenerDue /\ status[microtasks[1].client] # "failed" =>
          client \in {None, microtasks[1].client}

\* Every client that was opened has a call of its own that opened it.
UsedClients == {c \in Clients : status[c] # "unused"}
Openers == {k \in Calls : call[k] \notin {"idle", "joined"}}
Supply == Cardinality(UsedClients) <= Cardinality(Openers)

\* Clients that are alive, or may become so, and that shutdown would not reach.
Loose == (Alive \cup Arriving) \ ({client, connecting} \cup stopping)
Bounded == Cardinality(Loose) <= Cardinality(disowned)

IInv == Typed /\ OnePlace /\ Queued /\ Slot /\ Supply /\ Bounded

-----------------------------------------------------------------------------
(* Counting clients.                                                       *)

LEMMA Sorts ==
    /\ Cardinality(Calls) \in Nat
    /\ IsFiniteSet(Clients) /\ Cardinality(Clients) = Cardinality(Calls)
    /\ Clients \subseteq Nat /\ None \notin Clients
  <1>1. Cardinality(Calls) \in Nat
    BY RuntimeAssumption, FS_CardinalityType
  <1>2. IsFiniteSet(Clients) /\ Cardinality(Clients) = Cardinality(Calls)
    BY <1>1, FS_Interval DEF Clients
  <1> QED
    BY <1>1, <1>2 DEF Clients, None

\* Sets of clients and of calls are finite, and smaller ones have fewer members.
LEMMA Fewer ==
    ASSUME NEW S \in SUBSET Clients, NEW T \in SUBSET S
    PROVE  Cardinality(S) \in Nat /\ Cardinality(T) \in Nat /\ Cardinality(T) <= Cardinality(S)
  <1>1. IsFiniteSet(S)
    BY Sorts, FS_Subset
  <1>2. IsFiniteSet(T) /\ Cardinality(T) <= Cardinality(S)
    BY <1>1, FS_Subset
  <1> QED
    BY <1>1, <1>2, FS_CardinalityType

\* One client leaves the set, another may come in.
LEMMA Exchange ==
    ASSUME NEW S \in SUBSET Clients, NEW c \in S, NEW x \in Clients, NEW T, T \subseteq (S \ {c}) \cup {x}
    PROVE  Cardinality(T) <= Cardinality(S)
  <1>1. IsFiniteSet(S) /\ IsFiniteSet(S \ {c}) /\ Cardinality(S \ {c}) = Cardinality(S) - 1
    BY Sorts, FS_Subset, FS_RemoveElement
  <1> DEFINE U == (S \ {c}) \cup {x}
  <1>2. IsFiniteSet(U) /\ Cardinality(U) = IF x \in S \ {c} THEN Cardinality(S \ {c}) ELSE Cardinality(S \ {c}) + 1
    BY <1>1, FS_AddElement
  <1>3. Cardinality(S) \in Nat /\ Cardinality(U) \in Nat
    BY <1>1, <1>2, FS_CardinalityType
  <1>4. Cardinality(U) <= Cardinality(S)
    BY <1>1, <1>2, <1>3
  <1>5. T \in SUBSET U
    OBVIOUS
  <1>6. IsFiniteSet(T) /\ Cardinality(T) <= Cardinality(U)
    BY <1>2, <1>5, FS_Subset
  <1>7. Cardinality(T) \in Nat
    BY <1>6, FS_CardinalityType
  <1> QED
    BY <1>3, <1>4, <1>6, <1>7

\* Both sets get a client, which is new to the second.
LEMMA OneMore ==
    ASSUME NEW S \in SUBSET Clients, NEW D \in SUBSET Clients, NEW x \in Clients, x \notin D,
           Cardinality(S) <= Cardinality(D), NEW T, T \subseteq S \cup {x}
    PROVE  Cardinality(T) <= Cardinality(D \cup {x})
  <1>1. IsFiniteSet(S) /\ IsFiniteSet(D)
    BY Sorts, FS_Subset
  <1>2. Cardinality(D \cup {x}) = Cardinality(D) + 1
    BY <1>1, FS_AddElement
  <1>3. IsFiniteSet(S \cup {x}) /\ Cardinality(S \cup {x}) = IF x \in S THEN Cardinality(S) ELSE Cardinality(S) + 1
    BY <1>1, FS_AddElement
  <1>4. Cardinality(S) \in Nat /\ Cardinality(D) \in Nat
    BY <1>1, FS_CardinalityType
  <1>5. T \in SUBSET (S \cup {x})
    OBVIOUS
  <1>6. IsFiniteSet(T) /\ Cardinality(T) <= Cardinality(S \cup {x})
    BY <1>3, <1>5, FS_Subset
  <1>7. Cardinality(T) \in Nat
    BY <1>6, FS_CardinalityType
  <1> QED
    BY <1>2, <1>3, <1>4, <1>6, <1>7

\* A call that has opened no client yet finds one that is unused.
LEMMA FreshClient ==
    ASSUME Typed, Supply, NEW k \in Calls, call[k] \in {"idle", "joined"}
    PROVE  NextClient \in Clients /\ status[NextClient] = "unused"
  <1>1. Openers \in SUBSET (Calls \ {k}) /\ UsedClients \in SUBSET Clients
    BY DEF Openers, UsedClients
  <1>2. IsFiniteSet(Calls \ {k}) /\ Cardinality(Calls \ {k}) = Cardinality(Calls) - 1
    BY RuntimeAssumption, FS_RemoveElement
  <1>3. IsFiniteSet(Openers) /\ Cardinality(Openers) <= Cardinality(Calls) - 1
    BY <1>1, <1>2, FS_Subset
  <1>4. Cardinality(Openers) \in Nat /\ Cardinality(UsedClients) \in Nat
    BY <1>1, <1>3, Fewer, FS_CardinalityType
  <1>5. UsedClients # Clients
    BY <1>3, <1>4, Sorts DEF Supply
  <1>6. Unused # {} /\ Unused \subseteq Clients
    BY <1>1, <1>5 DEF Unused, UsedClients
  <1>7. NextClient \in Unused
    BY <1>6 DEF NextClient
  <1> QED
    BY <1>6, <1>7 DEF Unused

-----------------------------------------------------------------------------
(* What the moves do to the queues and to the counts.                      *)

LEMMA Popped ==
    ASSUME Typed, microtasks # <<>>
    PROVE  /\ Tail(microtasks) \in Seq(Continuations)
           /\ 1 \in DOMAIN microtasks /\ Head(microtasks) = microtasks[1]
           /\ \A i \in DOMAIN Tail(microtasks) :
                 i + 1 \in DOMAIN microtasks /\ i + 1 # 1 /\ Tail(microtasks)[i] = microtasks[i + 1]
           /\ \A i, j \in DOMAIN Tail(microtasks) : i + 1 = j + 1 => i = j
           /\ Tail(microtasks) # <<>> => 1 \in DOMAIN Tail(microtasks)
           /\ \A i \in DOMAIN Tail(microtasks) : 1 \in DOMAIN Tail(microtasks)
  BY DEF Typed

LEMMA Members ==
    ASSUME Typed
    PROVE  /\ \A i \in DOMAIN microtasks : microtasks[i].call \in Calls /\ microtasks[i].client \in Clients
           /\ \A c \in Clients : waiting[c] \in Seq(Calls)
           /\ \A c \in Clients : \A i \in DOMAIN waiting[c] : waiting[c][i] \in Calls
           /\ microtasks # <<>> <=> 1 \in DOMAIN microtasks
  <1>1. \A i \in DOMAIN microtasks : microtasks[i] \in Continuations
    BY DEF Typed
  <1>2. \A c \in Clients : waiting[c] \in Seq(Calls)
    BY DEF Typed
  <1>3. \A c \in Clients : \A i \in DOMAIN waiting[c] : waiting[c][i] \in Calls
    BY <1>2
  <1>4. microtasks # <<>> <=> 1 \in DOMAIN microtasks
    BY DEF Typed
  <1> QED
    BY <1>1, <1>2, <1>3, <1>4 DEF Continuations

\* No call that is awaited for changes, and nothing is settled.
LEMMA QuietQueues ==
    ASSUME IInv, UNCHANGED <<waiting, microtasks>>,
           \A x \in Calls : call[x] \in {"opening", "joined"} => call'[x] = call[x],
           \A c \in Clients : status'[c] = "opening" <=> status[c] = "opening",
           microtasks # <<>> => status' = status
    PROVE  OnePlace' /\ Queued' /\ (OpenerDue' <=> OpenerDue) /\ Arriving' = Arriving
  <1>1. OnePlace'
    BY DEF IInv, OnePlace
  <1>2. \A c \in Clients : \A i \in DOMAIN waiting[c] :
           waiting[c][i] \in Calls /\ call[waiting[c][i]] \in {"opening", "joined"}
             /\ call'[waiting[c][i]] = call[waiting[c][i]]
    BY Members DEF IInv, Queued
  <1>3. \A i \in DOMAIN microtasks : microtasks[i].call \in Calls
           /\ call[microtasks[i].call] \in {"opening", "joined"}
           /\ call'[microtasks[i].call] = call[microtasks[i].call]
    BY Members DEF IInv, Queued
  <1>4. microtasks # <<>> <=> 1 \in DOMAIN microtasks
    BY Members DEF IInv
  <1>5. OpenerDue' <=> OpenerDue
    BY <1>3, <1>4 DEF OpenerDue
  <1>6. Queued'
    <2>1. \A c \in Clients : status'[c] = "opening" <=> waiting'[c] # <<>>
      BY DEF IInv, Queued
    <2>2. \A c \in Clients : \A i \in DOMAIN waiting'[c] :
             call'[waiting'[c][i]] = IF i = 1 THEN "opening" ELSE "joined"
      BY <1>2 DEF IInv, Queued
    <2>3. \A i \in DOMAIN microtasks : status' = status
      BY <1>4
    <2>4. \A i \in DOMAIN microtasks' :
             /\ call'[microtasks'[i].call] = "joined" \/ (i = 1 /\ call'[microtasks'[i].call] = "opening")
             /\ microtasks'[i].client = microtasks'[1].client
             /\ status'[microtasks'[i].client] \in {"ready", "failed", "stillborn"}
      BY <1>3, <2>3 DEF IInv, Queued
    <2> QED
      BY <2>1, <2>2, <2>4 DEF Queued
  <1> QED
    BY <1>1, <1>5, <1>6 DEF Arriving

\* The call at the head of the microtask queue goes on.
LEMMA PopQueue ==
    ASSUME IInv, microtasks # <<>>, microtasks' = Tail(microtasks), UNCHANGED <<waiting, status>>,
           NEW v, call' = [call EXCEPT ![microtasks[1].call] = v]
    PROVE  /\ OnePlace' /\ Queued' /\ ~OpenerDue' /\ Arriving' = {}
           /\ microtasks' # <<>> => microtasks'[1].client = microtasks[1].client
  <1> DEFINE k == microtasks[1].call
  <1>1. /\ 1 \in DOMAIN microtasks
        /\ \A i \in DOMAIN microtasks' :
              i + 1 \in DOMAIN microtasks /\ i + 1 # 1 /\ microtasks'[i] = microtasks[i + 1]
        /\ \A i, j \in DOMAIN microtasks' : i + 1 = j + 1 => i = j
        /\ microtasks' # <<>> => 1 \in DOMAIN microtasks'
        /\ \A i \in DOMAIN microtasks' : 1 \in DOMAIN microtasks'
    BY Popped DEF IInv
  <1>2. OnePlace'
    BY <1>1 DEF IInv, OnePlace
  <1>3. \A c \in Clients : \A i \in DOMAIN waiting[c] :
           waiting[c][i] \in Calls /\ call'[waiting[c][i]] = call[waiting[c][i]]
    BY <1>1, Members DEF IInv, OnePlace, Typed, TypeOK
  <1>4. \A i \in DOMAIN microtasks' : microtasks'[i].call \in Calls
           /\ call'[microtasks'[i].call] = call[microtasks'[i].call]
    BY <1>1, Members DEF IInv, OnePlace, Typed, TypeOK
  <1>5. \A i \in DOMAIN microtasks' :
           /\ call[microtasks'[i].call] = "joined"
           /\ microtasks'[i].client = microtasks[1].client
           /\ status[microtasks'[i].client] \in {"ready", "failed", "stillborn"}
    BY <1>1 DEF IInv, Queued
  <1>6. Queued'
    <2>1. \A i \in DOMAIN microtasks' : microtasks'[i].client = microtasks'[1].client
      BY <1>1, <1>5
    <2>2. \A c \in Clients : \A i \in DOMAIN waiting'[c] :
             call'[waiting'[c][i]] = IF i = 1 THEN "opening" ELSE "joined"
      BY <1>3 DEF IInv, Queued
    <2>3. \A c \in Clients : status'[c] = "opening" <=> waiting'[c] # <<>>
      BY DEF IInv, Queued
    <2> QED
      BY <1>4, <1>5, <2>1, <2>2, <2>3 DEF Queued
  <1>7. ~OpenerDue' /\ (microtasks' # <<>> => microtasks'[1].client = microtasks[1].client)
    BY <1>1, <1>4, <1>5 DEF OpenerDue
  <1> QED
    BY <1>2, <1>6, <1>7 DEF Arriving

\* No client is opened, and no call goes back to awaiting.
LEMMA SupplyKept ==
    ASSUME Supply, UsedClients' = UsedClients,
           \A x \in Calls : call[x] \notin {"idle", "joined"} => call'[x] \notin {"idle", "joined"}
    PROVE  Supply'
  <1>1. Openers' \in SUBSET Calls /\ Openers \in SUBSET Openers'
    BY DEF Openers
  <1>2. IsFiniteSet(Openers')
    BY <1>1, RuntimeAssumption, FS_Subset
  <1>3. IsFiniteSet(Openers) /\ Cardinality(Openers) <= Cardinality(Openers')
    BY <1>1, <1>2, FS_Subset
  <1>4. Cardinality(Openers) \in Nat /\ Cardinality(Openers') \in Nat
    BY <1>2, <1>3, FS_CardinalityType
  <1>5. Cardinality(UsedClients) \in Nat
    BY Fewer DEF UsedClients
  <1> QED
    BY <1>3, <1>4, <1>5 DEF Supply

\* The call k opens the unused client n.
LEMMA SupplyGrows ==
    ASSUME Supply, Typed, NEW k \in Calls, call[k] \in {"idle", "joined"}, NEW n \in Clients,
           status[n] = "unused", status' = [status EXCEPT ![n] = "opening"],
           call' = [call EXCEPT ![k] = "opening"]
    PROVE  Supply'
  <1>1. UsedClients' = UsedClients \cup {n} /\ n \notin UsedClients /\ UsedClients \in SUBSET Clients
    BY DEF UsedClients, Typed, TypeOK
  <1>2. Openers' = Openers \cup {k} /\ k \notin Openers /\ Openers \in SUBSET Calls
    BY DEF Openers, Typed, TypeOK
  <1>3. IsFiniteSet(UsedClients) /\ IsFiniteSet(Openers)
    BY <1>1, <1>2, Sorts, RuntimeAssumption, FS_Subset
  <1>4. /\ Cardinality(UsedClients') = Cardinality(UsedClients) + 1
        /\ Cardinality(Openers') = Cardinality(Openers) + 1
    BY <1>1, <1>2, <1>3, FS_AddElement
  <1>5. Cardinality(UsedClients) \in Nat /\ Cardinality(Openers) \in Nat
    BY <1>3, FS_CardinalityType
  <1> QED
    BY <1>4, <1>5 DEF Supply

\* Nothing becomes loose.
LEMMA BoundKept ==
    ASSUME Typed, Bounded, Loose' \subseteq Loose, UNCHANGED disowned
    PROVE  Bounded'
  <1>0. Arriving \subseteq Clients
    BY Members DEF Arriving, OpenerDue
  <1>1. Loose \in SUBSET Clients /\ Loose' \in SUBSET Loose /\ disowned \in SUBSET Clients
    BY <1>0 DEF Loose, Alive, Typed, TypeOK
  <1>2. Cardinality(Loose') <= Cardinality(Loose) /\ Cardinality(Loose') \in Nat /\ Cardinality(Loose) \in Nat
    BY <1>1, Fewer
  <1>3. Cardinality(disowned) \in Nat
    BY <1>1, Fewer
  <1> QED
    BY <1>2, <1>3 DEF Bounded

-----------------------------------------------------------------------------
(* #connect.                                                               *)

\* A step that leaves the slot, the queues and the clients alone.
LEMMA CallMoves ==
    ASSUME IInv, UNCHANGED <<client, connecting, status, waiting, microtasks, stopping, disowned>>,
           call' \in [Calls -> CallStates], using' \in [Calls -> Clients \cup {None}], models' \in BOOLEAN,
           \A x \in Calls : call'[x] = "using" => using'[x] \in Clients,
           \A x \in Calls : call[x] \in {"opening", "joined"} => call'[x] = call[x],
           \A x \in Calls : call[x] \notin {"idle", "joined"} => call'[x] \notin {"idle", "joined"}
    PROVE  IInv'
  <1>1. Typed'
    BY Members DEF IInv, Typed, TypeOK, CallStates
  <1>2. OnePlace' /\ Queued' /\ (OpenerDue' <=> OpenerDue) /\ Arriving' = Arriving
    BY QuietQueues
  <1>3. Slot'
    BY <1>2 DEF IInv, Slot
  <1>4. Supply'
    BY SupplyKept DEF IInv, UsedClients
  <1>5. Loose' = Loose
    BY <1>2 DEF Loose, Alive
  <1>6. Bounded'
    BY <1>5, BoundKept DEF IInv
  <1> QED
    BY <1>1, <1>2, <1>3, <1>4, <1>6 DEF IInv

\* A call that awaits nothing is in no queue.
LEMMA Bystanders ==
    ASSUME IInv, NEW k \in Calls, call[k] \notin {"opening", "joined"}, NEW v, call' = [call EXCEPT ![k] = v]
    PROVE  /\ \A d \in Clients : \A i \in DOMAIN waiting[d] :
                 waiting[d][i] \in Calls /\ waiting[d][i] # k /\ call'[waiting[d][i]] = call[waiting[d][i]]
           /\ \A i \in DOMAIN microtasks :
                 microtasks[i].call \in Calls /\ microtasks[i].call # k
                   /\ call'[microtasks[i].call] = call[microtasks[i].call]
           /\ call'[k] = v
  <1>1. /\ \A x \in Calls : x # k => call'[x] = call[x]
        /\ call'[k] = v
    BY DEF IInv, Typed, TypeOK
  <1>2. \A d \in Clients : \A i \in DOMAIN waiting[d] :
           waiting[d][i] \in Calls /\ call[waiting[d][i]] \in {"opening", "joined"}
    BY Members DEF IInv, Queued
  <1>3. \A i \in DOMAIN microtasks :
           microtasks[i].call \in Calls /\ call[microtasks[i].call] \in {"opening", "joined"}
    BY Members DEF IInv, Queued
  <1> QED
    BY <1>1, <1>2, <1>3

\* A call joins a client whose promise has not settled.
LEMMA JoinsWaiting ==
    ASSUME IInv, NEW k \in Calls, call[k] = "idle", NEW c \in Clients, status[c] = "opening",
           waiting' = [waiting EXCEPT ![c] = Append(@, k)],
           call' = [call EXCEPT ![k] = "joined"],
           UNCHANGED <<client, connecting, models, status, microtasks, using, stopping, disowned>>
    PROVE  IInv'
  <1>1. /\ waiting[c] \in Seq(Calls) /\ waiting[c] # <<>> /\ Len(waiting[c]) \in Nat /\ Len(waiting[c]) > 0
        /\ DOMAIN waiting[c] = 1..Len(waiting[c])
        /\ waiting'[c] = Append(waiting[c], k)
        /\ waiting' \in [Clients -> Seq(Calls)]
        /\ DOMAIN waiting'[c] = 1..(Len(waiting[c]) + 1)
        /\ waiting'[c][Len(waiting[c]) + 1] = k
        /\ \A i \in DOMAIN waiting[c] : waiting'[c][i] = waiting[c][i]
        /\ \A d \in Clients : d # c => waiting'[d] = waiting[d]
    BY DEF IInv, Queued, Typed
  <1>2. \A i \in DOMAIN waiting'[c] :
           (i \in DOMAIN waiting[c] /\ waiting'[c][i] = waiting[c][i])
             \/ (i = Len(waiting[c]) + 1 /\ i # 1 /\ waiting'[c][i] = k)
    BY <1>1
  <1>3. /\ \A d \in Clients : \A i \in DOMAIN waiting[d] :
              waiting[d][i] \in Calls /\ waiting[d][i] # k /\ call'[waiting[d][i]] = call[waiting[d][i]]
        /\ \A i \in DOMAIN microtasks :
              microtasks[i].call \in Calls /\ microtasks[i].call # k
                /\ call'[microtasks[i].call] = call[microtasks[i].call]
    BY Bystanders
  <1>4. OnePlace'
    <2>1. \A d \in Clients : \A i, j \in DOMAIN waiting'[d] : waiting'[d][i] = waiting'[d][j] => i = j
      BY <1>1, <1>2, <1>3 DEF IInv, OnePlace
    <2>2. \A d, e \in Clients : d # e =>
             \A i \in DOMAIN waiting'[d], j \in DOMAIN waiting'[e] : waiting'[d][i] # waiting'[e][j]
      BY <1>1, <1>2, <1>3 DEF IInv, OnePlace
    <2>3. \A d \in Clients : \A i \in DOMAIN waiting'[d], j \in DOMAIN microtasks' :
             waiting'[d][i] # microtasks'[j].call
      BY <1>1, <1>2, <1>3 DEF IInv, OnePlace
    <2> QED
      BY <2>1, <2>2, <2>3 DEF IInv, OnePlace
  <1>5. call'[k] = "joined"
    BY DEF IInv, Typed, TypeOK
  <1>6. Queued'
    <2>1. \A d \in Clients : \A i \in DOMAIN waiting'[d] :
             call'[waiting'[d][i]] = IF i = 1 THEN "opening" ELSE "joined"
      BY <1>1, <1>2, <1>3, <1>5 DEF IInv, Queued
    <2>2. \A d \in Clients : status'[d] = "opening" <=> waiting'[d] # <<>>
      BY <1>1 DEF IInv, Queued
    <2> QED
      BY <1>3, <2>1, <2>2 DEF IInv, Queued
  <1>7. (OpenerDue' <=> OpenerDue) /\ Arriving' = Arriving
    BY <1>3, Members DEF IInv, OpenerDue, Arriving
  <1>8. Typed'
    <2>1. \A d \in Clients : \A i \in DOMAIN waiting'[d] : waiting'[d][i] \in Calls
      BY <1>1, <1>2, <1>3
    <2> QED
      BY <1>1, <2>1 DEF IInv, Typed, TypeOK
  <1>9. Slot'
    BY <1>7 DEF IInv, Slot
  <1>10. Supply'
    BY SupplyKept DEF IInv, UsedClients, Typed, TypeOK
  <1>11. Loose' = Loose
    BY <1>7 DEF Loose, Alive
  <1>12. Bounded'
    BY <1>11, BoundKept DEF IInv
  <1> QED
    BY <1>4, <1>6, <1>8, <1>9, <1>10, <1>12 DEF IInv

\* A call joins a client whose promise has settled and whose opener is due.
LEMMA JoinsDue ==
    ASSUME IInv, NEW k \in Calls, call[k] = "idle", connecting \in Arriving,
           microtasks' = Append(microtasks, [call |-> k, client |-> connecting]),
           call' = [call EXCEPT ![k] = "joined"],
           UNCHANGED <<client, connecting, models, status, waiting, using, stopping, disowned>>
    PROVE  IInv'
  <1> DEFINE m == [call |-> k, client |-> connecting]
  <1>1. OpenerDue /\ microtasks # <<>> /\ connecting = microtasks[1].client /\ connecting \in Clients
    BY Members DEF IInv, Arriving, OpenerDue
  <1>2. m \in Continuations /\ m.call = k /\ m.client = connecting
    BY <1>1 DEF Continuations
  <1>3. /\ microtasks \in Seq(Continuations) /\ Len(microtasks) \in Nat /\ 1 \in DOMAIN microtasks
        /\ DOMAIN microtasks = 1..Len(microtasks)
        /\ microtasks' \in Seq(Continuations)
        /\ DOMAIN microtasks' = 1..(Len(microtasks) + 1)
        /\ \A i \in DOMAIN microtasks : microtasks'[i] = microtasks[i]
        /\ microtasks'[Len(microtasks) + 1] = m
    BY <1>1, <1>2 DEF IInv, Typed
  <1> HIDE DEF m
  <1>4. \A i \in DOMAIN microtasks' :
           (i \in DOMAIN microtasks /\ microtasks'[i] = microtasks[i])
             \/ (i = Len(microtasks) + 1 /\ microtasks'[i] = m)
    BY <1>3
  <1>5. /\ \A d \in Clients : \A i \in DOMAIN waiting[d] :
              waiting[d][i] \in Calls /\ waiting[d][i] # k /\ call'[waiting[d][i]] = call[waiting[d][i]]
        /\ \A i \in DOMAIN microtasks :
              microtasks[i].call \in Calls /\ microtasks[i].call # k
                /\ call'[microtasks[i].call] = call[microtasks[i].call]
        /\ call'[k] = "joined"
    BY Bystanders
  <1>6. OnePlace'
    <2>1. \A i, j \in DOMAIN microtasks' : microtasks'[i].call = microtasks'[j].call => i = j
      BY <1>2, <1>4, <1>5 DEF IInv, OnePlace
    <2>2. \A d \in Clients : \A i \in DOMAIN waiting'[d], j \in DOMAIN microtasks' :
             waiting'[d][i] # microtasks'[j].call
      BY <1>2, <1>4, <1>5 DEF IInv, OnePlace
    <2> QED
      BY <2>1, <2>2 DEF IInv, OnePlace
  <1>7. microtasks'[1] = microtasks[1] /\ microtasks' # <<>>
    BY <1>3
  <1>8. Queued'
    <2>1. \A i \in DOMAIN microtasks' :
             /\ call'[microtasks'[i].call] = "joined" \/ (i = 1 /\ call'[microtasks'[i].call] = "opening")
             /\ microtasks'[i].client = microtasks'[1].client
             /\ status[microtasks'[i].client] \in {"ready", "failed", "stillborn"}
      BY <1>1, <1>2, <1>3, <1>4, <1>5, <1>7 DEF IInv, Queued
    <2>2. \A d \in Clients : \A i \in DOMAIN waiting'[d] :
             call'[waiting'[d][i]] = IF i = 1 THEN "opening" ELSE "joined"
      BY <1>5 DEF IInv, Queued
    <2> QED
      BY <2>1, <2>2 DEF IInv, Queued
  <1>9. OpenerDue' /\ Arriving' = Arriving
    BY <1>1, <1>3, <1>5, <1>7 DEF OpenerDue, Arriving
  <1>10. Typed'
    BY <1>3 DEF IInv, Typed, TypeOK
  <1>11. Slot'
    BY <1>9 DEF IInv, Slot
  <1>12. Supply'
    BY SupplyKept DEF IInv, UsedClients, Typed, TypeOK
  <1>13. Loose' = Loose
    BY <1>9 DEF Loose, Alive
  <1>14. Bounded'
    BY <1>13, BoundKept DEF IInv
  <1> QED
    BY <1>6, <1>8, <1>10, <1>11, <1>12, <1>14 DEF IInv

\* The call k opens the next client: at once, or when it finds that the client it
\* had joined has failed.
LEMMA Opens ==
    ASSUME IInv, NEW k \in Calls, NEW n, n = NextClient,
           \/ call[k] = "idle" /\ microtasks' = microtasks /\ connecting = None /\ UNCHANGED disowned
           \/ /\ microtasks # <<>> /\ microtasks[1].call = k /\ call[k] = "joined"
              /\ microtasks' = Tail(microtasks) /\ disowned' = Disowned,
           client # None => status[client] # "ready",
           client' = None, connecting' = n, models' \in BOOLEAN,
           status' = [status EXCEPT ![n] = "opening"],
           waiting' = [waiting EXCEPT ![n] = Append(@, k)],
           call' = [call EXCEPT ![k] = "opening"],
           UNCHANGED <<using, stopping>>
    PROVE  IInv'
  <1>1. n \in Clients /\ status[n] = "unused" /\ n # None
    BY FreshClient, Sorts DEF IInv
  <1>2. /\ status'[n] = "opening" /\ \A c \in Clients : c # n => status'[c] = status[c]
        /\ status' \in [Clients -> Statuses]
        /\ call'[k] = "opening" /\ \A x \in Calls : x # k => call'[x] = call[x]
        /\ call' \in [Calls -> CallStates]
    BY <1>1 DEF IInv, Typed, TypeOK, Statuses, CallStates
  <1>3. /\ waiting' \in [Clients -> Seq(Calls)] /\ waiting'[n] = <<k>>
        /\ \A c \in Clients : c # n => waiting'[c] = waiting[c]
        /\ DOMAIN waiting'[n] = {1} /\ waiting'[n][1] = k /\ waiting'[n] # <<>>
    <2>1. waiting[n] = <<>>
      BY <1>1 DEF IInv, Queued
    <2>2. waiting' = [waiting EXCEPT ![n] = <<k>>] /\ waiting'[n] = <<k>>
      BY <1>1, <2>1 DEF IInv, Typed
    <2>3. <<k>> \in Seq(Calls) /\ DOMAIN <<k>> = {1} /\ <<k>>[1] = k /\ <<k>> # <<>>
      OBVIOUS
    <2>4. /\ waiting' \in [Clients -> Seq(Calls)]
          /\ \A c \in Clients : c # n => waiting'[c] = waiting[c]
      BY <2>2, <2>3 DEF IInv, Typed
    <2> QED
      BY <2>2, <2>3, <2>4
  <1>4. \A d \in Clients : \A i \in DOMAIN waiting[d] : waiting[d][i] \in Calls /\ waiting[d][i] # k
    <2>1. CASE call[k] = "idle"
      BY <2>1, Members DEF IInv, Queued
    <2>2. CASE microtasks # <<>> /\ microtasks[1].call = k
      BY <2>2, Members DEF IInv, OnePlace
    <2> QED
      BY <2>1, <2>2
  <1>5. /\ microtasks' \in Seq(Continuations)
        /\ \A i \in DOMAIN microtasks' : microtasks'[i].call \in Calls /\ microtasks'[i].call # k
        /\ \E t \in {0, 1} :
              /\ \A i \in DOMAIN microtasks' : i + t \in DOMAIN microtasks /\ microtasks'[i] = microtasks[i + t]
                                               /\ (i + t = 1 => i = 1)
              /\ \A i, j \in DOMAIN microtasks' : i + t = j + t => i = j
        /\ \A i \in DOMAIN microtasks' : 1 \in DOMAIN microtasks'
    <2>1. CASE microtasks' = microtasks /\ call[k] = "idle"
      <3>1. microtasks \in Seq(Continuations) /\ \A i \in DOMAIN microtasks : microtasks[i].call \in Calls
        BY Members DEF IInv, Typed
      <3>2. \A i \in DOMAIN microtasks : microtasks[i].call # k
        BY <2>1 DEF IInv, Queued
      <3>3. \A i \in DOMAIN microtasks : 1 \in DOMAIN microtasks /\ i + 0 = i
        BY <3>1
      <3> QED
        BY <2>1, <3>1, <3>2, <3>3
    <2>2. CASE microtasks' = Tail(microtasks) /\ microtasks # <<>> /\ microtasks[1].call = k
      <3>1. /\ 1 \in DOMAIN microtasks /\ microtasks' \in Seq(Continuations)
            /\ \A i \in DOMAIN microtasks' :
                  i + 1 \in DOMAIN microtasks /\ i + 1 # 1 /\ microtasks'[i] = microtasks[i + 1]
            /\ \A i, j \in DOMAIN microtasks' : i + 1 = j + 1 => i = j
            /\ \A i \in DOMAIN microtasks' : 1 \in DOMAIN microtasks'
        BY <2>2, Popped DEF IInv
      <3>2. \A i \in DOMAIN microtasks' : microtasks'[i].call \in Calls /\ microtasks'[i].call # k
        BY <2>2, <3>1, Members DEF IInv, OnePlace
      <3> QED
        BY <3>1, <3>2
    <2> QED
      BY <2>1, <2>2
  <1>6. OnePlace'
    <2>1. \A d \in Clients : \A i, j \in DOMAIN waiting'[d] : waiting'[d][i] = waiting'[d][j] => i = j
      BY <1>3 DEF IInv, OnePlace
    <2>2. \A d, e \in Clients : d # e =>
             \A i \in DOMAIN waiting'[d], j \in DOMAIN waiting'[e] : waiting'[d][i] # waiting'[e][j]
      BY <1>3, <1>4 DEF IInv, OnePlace
    <2>3. \A i, j \in DOMAIN microtasks' : microtasks'[i].call = microtasks'[j].call => i = j
      BY <1>5 DEF IInv, OnePlace
    <2>4. \A d \in Clients : \A i \in DOMAIN waiting'[d], j \in DOMAIN microtasks' :
             waiting'[d][i] # microtasks'[j].call
      BY <1>3, <1>4, <1>5 DEF IInv, OnePlace
    <2> QED
      BY <2>1, <2>2, <2>3, <2>4 DEF OnePlace
  <1>7. \A i \in DOMAIN microtasks' :
           /\ call'[microtasks'[i].call] = "joined" \/ (i = 1 /\ call'[microtasks'[i].call] = "opening")
           /\ microtasks'[i].client = microtasks[1].client
           /\ microtasks'[i].client = microtasks'[1].client
           /\ status[microtasks'[i].client] \in {"ready", "failed", "stillborn"}
           /\ status'[microtasks'[i].client] = status[microtasks'[i].client]
    <2>1. \A i \in DOMAIN microtasks' :
           /\ call[microtasks'[i].call] = "joined" \/ (i = 1 /\ call[microtasks'[i].call] = "opening")
           /\ microtasks'[i].client = microtasks[1].client
           /\ status[microtasks'[i].client] \in {"ready", "failed", "stillborn"}
           /\ microtasks'[i].client \in Clients
      BY <1>5, Members DEF IInv, Queued
    <2> QED
      BY <1>1, <1>2, <1>5, <2>1
  <1>8. Queued'
    <2>1. \A d \in Clients : \A i \in DOMAIN waiting'[d] :
             call'[waiting'[d][i]] = IF i = 1 THEN "opening" ELSE "joined"
      BY <1>2, <1>3, <1>4 DEF IInv, Queued
    <2>2. \A d \in Clients : status'[d] = "opening" <=> waiting'[d] # <<>>
      BY <1>2, <1>3 DEF IInv, Queued
    <2> QED
      BY <1>7, <2>1, <2>2 DEF Queued
  <1>9. Typed'
    <2>1. \A d \in Clients : \A i \in DOMAIN waiting'[d] : waiting'[d][i] \in Calls
      BY <1>3, <1>4
    <2>2. disowned' \subseteq Clients
      BY DEF IInv, Typed, TypeOK, Disowned
    <2>3. \A x \in Calls : using'[x] \in IF call'[x] = "using" THEN Clients ELSE Clients \cup {None}
      BY <1>2 DEF IInv, Typed, TypeOK
    <2> QED
      BY <1>1, <1>2, <1>3, <1>5, <2>1, <2>2, <2>3 DEF IInv, Typed, TypeOK, Statuses, CallStates
  <1>10. Arriving' = Arriving /\ n \notin Arriving
    <2>1. CASE microtasks' = microtasks /\ call[k] = "idle"
      <3>1. OpenerDue' <=> OpenerDue
        BY <1>2, <1>5, <2>1, Members DEF OpenerDue, IInv
      <3>2. OpenerDue => status[microtasks[1].client] # "unused"
        BY Members DEF IInv, OpenerDue, Queued
      <3> QED
        BY <1>1, <2>1, <3>1, <3>2 DEF Arriving
    <2>2. CASE microtasks' = Tail(microtasks) /\ microtasks # <<>> /\ microtasks[1].call = k /\ call[k] = "joined"
      <3>1. ~OpenerDue
        BY <2>2 DEF OpenerDue
      <3>2. ASSUME OpenerDue' PROVE FALSE
        <4>1. 1 \in DOMAIN microtasks' /\ 1 + 1 \in DOMAIN microtasks /\ microtasks'[1] = microtasks[1 + 1]
          BY <2>2, <3>2, Popped DEF IInv, OpenerDue
        <4>2. call[microtasks'[1].call] = "joined"
          BY <4>1 DEF IInv, Queued
        <4> QED
          BY <1>2, <1>5, <3>2, <4>1, <4>2 DEF OpenerDue
      <3> QED
        BY <3>1, <3>2 DEF Arriving
    <2> QED
      BY <2>1, <2>2
  <1>11. Slot'
    <2>1. connecting' # None => connecting' \notin disowned'
      BY <1>1, Members DEF IInv, Slot, Disowned, Arriving, OpenerDue, Queued
    <2>2. \A c \in disowned' : status'[c] # "unused"
      <3>1. connecting # None => status[connecting] # "unused" /\ connecting \in Clients
        BY Members DEF IInv, Slot, Arriving, OpenerDue, Queued, Typed, TypeOK
      <3>2. \A c \in disowned' : c \in Clients /\ status[c] # "unused"
        BY <3>1 DEF IInv, Slot, Disowned, Typed, TypeOK
      <3> QED
        BY <1>2, <3>2
    <2>3. \A c \in stopping : status'[c] \notin {"unused", "opening"} /\ c \notin Arriving'
      BY <1>1, <1>2, <1>10 DEF IInv, Slot, Typed, TypeOK
    <2> QED
      BY <1>2, <2>1, <2>2, <2>3 DEF Slot
  <1>12. Supply'
    BY <1>1, SupplyGrows DEF IInv
  <1>13. Bounded'
    <2>1. Alive' \subseteq Alive \cup {n}
      BY <1>2 DEF Alive
    <2>2. client # None => client \notin Alive \cup Arriving
      BY DEF IInv, Slot, Alive
    <2>3. Loose' \subseteq Loose \cup ({connecting} \ {None})
      <3>1. None \notin Alive /\ None \notin Arriving
        BY Sorts, Members DEF Arriving, OpenerDue, IInv, Alive
      <3> QED
        BY <1>10, <2>1, <2>2, <3>1 DEF Loose
    <2>4. CASE connecting = None
      <3>1. disowned' = disowned
        BY <2>4 DEF Disowned
      <3> QED
        BY <2>3, <2>4, <3>1, BoundKept DEF IInv
    <2>5. CASE connecting # None
      <3>1. disowned' = disowned \cup {connecting}
        BY <2>5 DEF Disowned
      <3>2. connecting \in Clients /\ connecting \notin disowned /\ disowned \in SUBSET Clients
        BY <2>5 DEF IInv, Slot, Typed, TypeOK
      <3>3. Loose \in SUBSET Clients
        BY Members DEF IInv, Loose, Alive, Arriving, OpenerDue
      <3>4. Cardinality(Loose) <= Cardinality(disowned)
        BY DEF IInv, Bounded
      <3>5. Cardinality(Loose') <= Cardinality(disowned \cup {connecting})
        BY <2>3, <3>2, <3>3, <3>4, OneMore
      <3> QED
        BY <3>1, <3>5 DEF Bounded
    <2> QED
      BY <2>4, <2>5
  <1> QED
    BY <1>6, <1>8, <1>9, <1>11, <1>12, <1>13 DEF IInv

-----------------------------------------------------------------------------
(* The actions.                                                            *)

LEMMA StartCallStep ==
    ASSUME IInv, NEW k \in Calls, StartCall(k)
    PROVE  IInv'
  <1>1. call[k] = "idle" /\ UNCHANGED <<shutdowns, stopping, disowned>>
    BY DEF StartCall
  <1>2. CASE k \in Resolvers /\ models
    BY <1>1, <1>2, CallMoves DEF StartCall, IInv, Typed, TypeOK, CallStates
  <1>3. CASE ~(k \in Resolvers /\ models) /\ Discarded(client)
    <2>1. ConnectFrom(k, None, None, microtasks) /\ models' = FALSE
      BY <1>3 DEF StartCall, Connect
    <2>2. connecting = None /\ status[client] # "ready"
      BY <1>3 DEF Discarded, IInv, Slot
    <2>3. status[NextClient] = "unused"
      BY <1>1, FreshClient DEF IInv
    <2>4. /\ client' = None /\ connecting' = NextClient /\ microtasks' = microtasks
          /\ status' = [status EXCEPT ![NextClient] = "opening"]
          /\ waiting' = [waiting EXCEPT ![NextClient] = Append(@, k)]
          /\ call' = [call EXCEPT ![k] = "opening"] /\ UNCHANGED using
      BY <2>1, <2>3 DEF ConnectFrom, Shared, AwaitClient
    <2> QED
      BY <1>1, <2>1, <2>2, <2>4, Opens
  <1>4. CASE ~(k \in Resolvers /\ models) /\ ~Discarded(client)
    <2>1. ConnectFrom(k, client, connecting, microtasks) /\ UNCHANGED models
      BY <1>4 DEF StartCall, Connect
    <2>2. CASE client # None
      <3>1. UseClient(k, client) /\ UNCHANGED <<client, connecting, microtasks>> /\ client \in Clients
        BY <2>1, <2>2 DEF ConnectFrom, IInv, Typed, TypeOK
      <3>2. /\ call' = [call EXCEPT ![k] = "using"] /\ using' = [using EXCEPT ![k] = client]
            /\ UNCHANGED <<status, waiting>>
        BY <3>1 DEF UseClient
      <3>3. /\ call' \in [Calls -> CallStates] /\ using' \in [Calls -> Clients \cup {None}]
            /\ \A x \in Calls : x # k => call'[x] = call[x] /\ using'[x] = using[x]
            /\ call'[k] = "using" /\ using'[k] = client /\ models' \in BOOLEAN
        BY <2>1, <3>1, <3>2 DEF IInv, Typed, TypeOK, CallStates
      <3>4. \A x \in Calls : call'[x] = "using" => using'[x] \in Clients
        BY <3>1, <3>3 DEF IInv, Typed, TypeOK
      <3>5. /\ \A x \in Calls : call[x] \in {"opening", "joined"} => call'[x] = call[x]
            /\ \A x \in Calls : call[x] \notin {"idle", "joined"} => call'[x] \notin {"idle", "joined"}
        BY <1>1, <3>3
      <3>6. UNCHANGED <<client, connecting, status, waiting, microtasks, stopping, disowned>>
        BY <1>1, <3>1, <3>2
      <3> QED
        BY <3>3, <3>4, <3>5, <3>6, CallMoves
    <2>3. CASE client = None /\ connecting # None
      <3>1. AwaitClient(k, connecting, microtasks) /\ call' = [call EXCEPT ![k] = "joined"]
            /\ UNCHANGED <<client, connecting, status>> /\ connecting \in Clients
        BY <2>1, <2>3 DEF ConnectFrom, Shared, IInv, Typed, TypeOK
      <3>2. CASE status[connecting] = "opening"
        BY <1>1, <2>1, <3>1, <3>2, JoinsWaiting DEF AwaitClient
      <3>3. CASE status[connecting] # "opening"
        <4>1. connecting \in Arriving
          BY <2>3, <3>3 DEF IInv, Slot
        <4>2. status[connecting] # "unused"
          BY <4>1, Members DEF IInv, Arriving, OpenerDue, Queued
        <4> QED
          BY <1>1, <2>1, <3>1, <3>3, <4>1, <4>2, JoinsDue DEF AwaitClient
      <3> QED
        BY <3>2, <3>3
    <2>4. CASE client = None /\ connecting = None
      <3>1. status[NextClient] = "unused"
        BY <1>1, FreshClient DEF IInv
      <3>2. /\ client' = None /\ connecting' = NextClient /\ microtasks' = microtasks
            /\ status' = [status EXCEPT ![NextClient] = "opening"]
            /\ waiting' = [waiting EXCEPT ![NextClient] = Append(@, k)]
            /\ call' = [call EXCEPT ![k] = "opening"] /\ UNCHANGED using
        BY <2>1, <2>4, <3>1 DEF ConnectFrom, Shared, AwaitClient
      <3> QED
        BY <1>1, <2>1, <2>4, <3>2, Opens DEF IInv, Typed, TypeOK
    <2> QED
      BY <2>2, <2>3, <2>4
  <1> QED
    BY <1>2, <1>3, <1>4

\* A promise settles: the calls that await it are queued in the order they came.
LEMMA OpenSettlesStep ==
    ASSUME IInv, NEW c \in Clients, OpenSettles(c)
    PROVE  IInv'
  <1>1. /\ microtasks = <<>> /\ status[c] = "opening"
        /\ microtasks' = [i \in DOMAIN waiting[c] |-> [call |-> waiting[c][i], client |-> c]]
        /\ waiting' = [waiting EXCEPT ![c] = <<>>]
        /\ UNCHANGED <<client, connecting, models, call, using, shutdowns, stopping, disowned>>
    BY DEF OpenSettles, Quiet
  <1>2. PICK outcome \in {"ready", "failed", "stillborn"} : status' = [status EXCEPT ![c] = outcome]
    BY DEF OpenSettles
  <1>3. /\ status'[c] = outcome /\ \A d \in Clients : d # c => status'[d] = status[d]
        /\ status' \in [Clients -> Statuses]
    BY <1>2 DEF IInv, Typed, TypeOK, Statuses
  <1>4. /\ waiting[c] \in Seq(Calls) /\ waiting[c] # <<>> /\ 1 \in DOMAIN waiting[c]
        /\ \A i \in DOMAIN waiting[c] : waiting[c][i] \in Calls
        /\ DOMAIN waiting[c] = 1..Len(waiting[c]) /\ Len(waiting[c]) \in Nat
    <2>1. waiting[c] \in Seq(Calls) /\ waiting[c] # <<>>
      BY <1>1 DEF IInv, Queued, Typed
    <2> QED
      BY <2>1
  <1>5. /\ DOMAIN microtasks' = DOMAIN waiting[c]
        /\ \A i \in DOMAIN microtasks' : microtasks'[i].call = waiting[c][i] /\ microtasks'[i].client = c
        /\ microtasks' \in Seq(Continuations) /\ microtasks' # <<>>
    <2>1. /\ DOMAIN microtasks' = DOMAIN waiting[c]
          /\ \A i \in DOMAIN microtasks' : microtasks'[i] = [call |-> waiting[c][i], client |-> c]
      BY <1>1
    <2>2. \A i \in DOMAIN waiting[c] : [call |-> waiting[c][i], client |-> c] \in Continuations
      BY <1>4 DEF Continuations
    <2>3. microtasks' \in [1..Len(waiting[c]) -> Continuations]
      BY <1>1, <1>4, <2>2
    <2>4. microtasks' \in Seq(Continuations)
      BY <1>4, <2>3
    <2>5. microtasks' # <<>>
      BY <1>4, <2>1, <2>4
    <2>6. \A i \in DOMAIN microtasks' : microtasks'[i].call = waiting[c][i] /\ microtasks'[i].client = c
      <3> SUFFICES ASSUME NEW i \in DOMAIN microtasks'
                   PROVE  microtasks'[i].call = waiting[c][i] /\ microtasks'[i].client = c
        OBVIOUS
      <3> DEFINE x == waiting[c][i]
      <3>1. microtasks'[i] = [call |-> x, client |-> c]
        BY <2>1
      <3> HIDE DEF x
      <3>2. [call |-> x, client |-> c].call = x /\ [call |-> x, client |-> c].client = c
        OBVIOUS
      <3>3. microtasks'[i].call = x /\ microtasks'[i].client = c
        BY <3>1, <3>2
      <3> QED
        BY <3>3 DEF x
    <2> QED
      BY <2>1, <2>4, <2>5, <2>6
  <1>6. /\ waiting' \in [Clients -> Seq(Calls)] /\ waiting'[c] = <<>> /\ DOMAIN waiting'[c] = {}
        /\ \A d \in Clients : d # c => waiting'[d] = waiting[d]
    <2>1. <<>> \in Seq(Calls) /\ DOMAIN <<>> = {}
      OBVIOUS
    <2>2. waiting'[c] = <<>>
      BY <1>1 DEF IInv, Typed
    <2>3. waiting' \in [Clients -> Seq(Calls)] /\ \A d \in Clients : d # c => waiting'[d] = waiting[d]
      BY <1>1, <2>1 DEF IInv, Typed
    <2>4. DOMAIN waiting'[c] = {}
      BY <2>2
    <2> QED
      BY <2>2, <2>3, <2>4
  <1>7. OnePlace'
    <2>1. \A d \in Clients : \A i, j \in DOMAIN waiting'[d] : waiting'[d][i] = waiting'[d][j] => i = j
      BY <1>6 DEF IInv, OnePlace
    <2>2. \A d, e \in Clients : d # e =>
             \A i \in DOMAIN waiting'[d], j \in DOMAIN waiting'[e] : waiting'[d][i] # waiting'[e][j]
      BY <1>6 DEF IInv, OnePlace
    <2>3. \A i, j \in DOMAIN microtasks' : microtasks'[i].call = microtasks'[j].call => i = j
      BY <1>5 DEF IInv, OnePlace
    <2>4. \A d \in Clients : \A i \in DOMAIN waiting'[d], j \in DOMAIN microtasks' :
             waiting'[d][i] # microtasks'[j].call
      BY <1>5, <1>6 DEF IInv, OnePlace
    <2> QED
      BY <2>1, <2>2, <2>3, <2>4 DEF OnePlace
  <1>8. Queued'
    <2>1. \A d \in Clients : status'[d] = "opening" <=> waiting'[d] # <<>>
      <3>1. status'[c] # "opening" /\ waiting'[c] = <<>>
        BY <1>2, <1>3, <1>6
      <3>2. \A d \in Clients : status[d] = "opening" <=> waiting[d] # <<>>
        BY DEF IInv, Queued
      <3>3. ASSUME NEW d \in Clients, d # c
            PROVE  status'[d] = "opening" <=> waiting'[d] # <<>>
        BY <1>3, <1>6, <3>2, <3>3
      <3> QED
        BY <3>1, <3>3
    <2>2. \A d \in Clients : \A i \in DOMAIN waiting'[d] :
             call'[waiting'[d][i]] = IF i = 1 THEN "opening" ELSE "joined"
      BY <1>1, <1>6 DEF IInv, Queued
    <2>3. \A i \in DOMAIN microtasks' :
             call'[microtasks'[i].call] = "joined" \/ (i = 1 /\ call'[microtasks'[i].call] = "opening")
      BY <1>1, <1>5 DEF IInv, Queued
    <2>4. \A i \in DOMAIN microtasks' :
             /\ microtasks'[i].client = microtasks'[1].client
             /\ status'[microtasks'[i].client] \in {"ready", "failed", "stillborn"}
      BY <1>3, <1>4, <1>5
    <2> QED
      BY <2>1, <2>2, <2>3, <2>4 DEF Queued
  <1>9. Typed'
    <2>1. \A d \in Clients : \A i \in DOMAIN waiting'[d] : waiting'[d][i] \in Calls
      BY <1>6, Members DEF IInv
    <2> QED
      BY <1>1, <1>3, <1>5, <1>6, <2>1 DEF IInv, Typed, TypeOK, Statuses
  <1>10. OpenerDue' /\ Arriving' = {c} /\ ~OpenerDue /\ Arriving = {}
    <2>1. call[waiting[c][1]] = "opening"
      BY <1>4 DEF IInv, Queued
    <2> QED
      BY <1>1, <1>4, <1>5, <2>1 DEF OpenerDue, Arriving
  <1>11. c # client /\ c \notin stopping
    BY <1>1, Sorts DEF IInv, Slot
  <1>12. Slot'
    <2>1. connecting' # None => status'[connecting'] = "opening" \/ connecting' \in Arriving'
      BY <1>1, <1>3, <1>10 DEF IInv, Slot, Typed, TypeOK
    <2>2. \A d \in disowned' : status'[d] # "unused"
      BY <1>1, <1>3 DEF IInv, Slot, Typed, TypeOK
    <2>3. \A d \in stopping' \cup ({client'} \ {None}) :
             status'[d] \notin {"unused", "opening"} /\ d \notin Arriving'
      BY <1>1, <1>3, <1>10, <1>11 DEF IInv, Slot, Typed, TypeOK
    <2> QED
      BY <1>1, <1>10, <2>1, <2>2, <2>3 DEF IInv, Slot
  <1>13. Supply'
    <2>1. UsedClients' = UsedClients
      BY <1>1, <1>3 DEF UsedClients
    <2> QED
      BY <1>1, <2>1, SupplyKept DEF IInv
  <1>14. Bounded'
    <2>1. Alive' \cup Arriving' \subseteq Alive \cup Arriving
      BY <1>1, <1>3, <1>10 DEF Alive
    <2>2. Loose' \subseteq Loose
      BY <1>1, <2>1 DEF Loose
    <2> QED
      BY <1>1, <2>2, BoundKept DEF IInv
  <1> QED
    BY <1>7, <1>8, <1>9, <1>12, <1>13, <1>14 DEF IInv

\* A resumed call is done with, or it uses the client it awaited.
LEMMA Given ==
    ASSUME Typed, NEW k \in Calls, NEW c \in Clients,
           \/ call' = [call EXCEPT ![k] = "done"] /\ UNCHANGED using
           \/ call' = [call EXCEPT ![k] = "using"] /\ using' = [using EXCEPT ![k] = c]
    PROVE  /\ call' \in [Calls -> CallStates] /\ using' \in [Calls -> Clients \cup {None}]
           /\ \A x \in Calls : using'[x] \in IF call'[x] = "using" THEN Clients ELSE Clients \cup {None}
           /\ \A x \in Calls : call[x] \notin {"idle", "joined"} => call'[x] \notin {"idle", "joined"}
  <1> USE DEF Typed, TypeOK, CallStates
  <1>1. CASE call' = [call EXCEPT ![k] = "done"] /\ UNCHANGED using
    BY <1>1
  <1>2. CASE call' = [call EXCEPT ![k] = "using"] /\ using' = [using EXCEPT ![k] = c]
    <2>1. call' \in [Calls -> CallStates] /\ using' \in [Calls -> Clients \cup {None}]
      BY <1>2
    <2>2. \A x \in Calls : x # k => call'[x] = call[x] /\ using'[x] = using[x]
      BY <1>2
    <2>3. call'[k] = "using" /\ using'[k] = c
      BY <1>2
    <2> QED
      BY <2>1, <2>2, <2>3
  <1> QED
    BY <1>1, <1>2

\* The opener of the client c is resumed: c takes the slot, unless it failed.
LEMMA ResumeOpenerStep ==
    ASSUME IInv, microtasks # <<>>, NEW k, k = microtasks[1].call, NEW c, c = microtasks[1].client,
           ResumeOpener(k, c), UNCHANGED <<shutdowns, stopping>>
    PROVE  IInv'
  <1>1. /\ call[k] = "opening" /\ connecting' = None /\ microtasks' = Tail(microtasks)
        /\ UNCHANGED <<models, disowned, status, waiting, stopping>>
        /\ \/ status[c] = "failed" /\ call' = [call EXCEPT ![k] = "done"] /\ UNCHANGED <<client, using>>
           \/ status[c] # "failed" /\ client' = c /\ call' = [call EXCEPT ![k] = "using"]
              /\ using' = [using EXCEPT ![k] = c]
    BY DEF ResumeOpener, Settled, UseClient
  <1>2. /\ 1 \in DOMAIN microtasks /\ k \in Calls /\ c \in Clients /\ c # None
        /\ status[c] \in {"ready", "failed", "stillborn"}
    BY Popped, Members, Sorts DEF IInv, Queued
  <1>3. PICK v \in {"done", "using"} : call' = [call EXCEPT ![k] = v]
    BY <1>1
  <1>4. /\ OnePlace' /\ Queued' /\ ~OpenerDue' /\ Arriving' = {}
        /\ microtasks' # <<>> => microtasks'[1].client = c
    BY <1>1, <1>3, PopQueue
  <1>5. OpenerDue /\ Arriving = {c}
    BY <1>1 DEF OpenerDue, Arriving
  <1>6. Typed'
    <2>1. microtasks' \in Seq(Continuations)
      BY <1>1, Popped DEF IInv
    <2>2. /\ call' \in [Calls -> CallStates] /\ using' \in [Calls -> Clients \cup {None}]
          /\ \A x \in Calls : using'[x] \in IF call'[x] = "using" THEN Clients ELSE Clients \cup {None}
      BY <1>1, <1>2, Given DEF IInv
    <2> QED
      BY <1>1, <1>2, <2>1, <2>2 DEF IInv, Typed, TypeOK, CallStates
  <1>7. client # c /\ c \notin stopping
    BY <1>2, <1>5 DEF IInv, Slot
  <1>8. Slot'
    <2>1. \A d \in stopping' \cup ({client'} \ {None}) :
             status'[d] \notin {"unused", "opening"} /\ d \notin Arriving'
      BY <1>1, <1>2, <1>4 DEF IInv, Slot
    <2>2. microtasks' # <<>> /\ ~OpenerDue' /\ status'[microtasks'[1].client] # "failed" =>
             client' \in {None, microtasks'[1].client}
      BY <1>1, <1>4
    <2> QED
      BY <1>1, <2>1, <2>2 DEF IInv, Slot
  <1>9. Supply'
    <2>1. \A x \in Calls : call[x] \notin {"idle", "joined"} => call'[x] \notin {"idle", "joined"}
      BY <1>2, <1>3 DEF IInv, Typed, TypeOK
    <2> QED
      BY <1>1, <2>1, SupplyKept DEF IInv, UsedClients
  <1>10. Bounded'
    <2>1. Alive' = Alive /\ disowned' = disowned /\ Loose \in SUBSET Clients /\ disowned \in SUBSET Clients
      BY <1>1, Members DEF IInv, Typed, TypeOK, Loose, Alive, Arriving, OpenerDue
    <2>2. c \notin Loose'
      BY <1>1, <1>4, <2>1 DEF Loose, Alive
    <2>3. CASE c = connecting
      <3>1. client = None
        BY <1>2, <2>3 DEF IInv, Slot
      <3>2. Loose' \subseteq Loose
        BY <1>1, <1>4, <2>1, <2>2, <2>3, <3>1, Sorts DEF Loose, Alive
      <3> QED
        BY <2>1, <3>2, BoundKept DEF IInv
    <2>4. CASE c # connecting
      <3>1. c \in Loose
        BY <1>5, <1>7, <2>4 DEF Loose
      <3>2. \E x \in Clients : Loose' \subseteq (Loose \ {c}) \cup {x}
        <4>1. CASE client = None /\ connecting = None
          <5>1. Loose' \subseteq (Loose \ {c}) \cup {c}
            BY <1>1, <1>4, <2>1, <2>2, <4>1, Sorts DEF Loose, Alive
          <5> QED
            BY <1>2, <5>1
        <4>2. CASE client # None
          <5>1. connecting = None /\ client \in Clients
            BY <4>2 DEF IInv, Slot, Typed, TypeOK
          <5>2. Loose' \subseteq (Loose \ {c}) \cup {client}
            BY <1>1, <1>4, <2>1, <2>2, <5>1, Sorts DEF Loose, Alive
          <5> QED
            BY <5>1, <5>2
        <4>3. CASE client = None /\ connecting # None
          <5>1. connecting \in Clients
            BY <4>3 DEF IInv, Typed, TypeOK
          <5>2. Loose' \subseteq (Loose \ {c}) \cup {connecting}
            BY <1>1, <1>4, <2>1, <2>2, <4>3, Sorts DEF Loose, Alive
          <5> QED
            BY <5>1, <5>2
        <4> QED
          BY <4>1, <4>2, <4>3
      <3>3. Cardinality(Loose') <= Cardinality(Loose)
        BY <2>1, <3>1, <3>2, Exchange
      <3>4. Loose' \in SUBSET Clients
        BY <1>4, <2>1 DEF Loose, Alive
      <3>5. Cardinality(Loose') \in Nat /\ Cardinality(Loose) \in Nat /\ Cardinality(disowned) \in Nat
        BY <2>1, <3>4, Fewer
      <3> QED
        BY <2>1, <3>3, <3>5 DEF IInv, Bounded
    <2> QED
      BY <2>3, <2>4
  <1> QED
    BY <1>4, <1>6, <1>8, <1>9, <1>10 DEF IInv

\* A call that joined the client c is resumed.
LEMMA ResumeJoinerStep ==
    ASSUME IInv, microtasks # <<>>, NEW k, k = microtasks[1].call, NEW c, c = microtasks[1].client,
           ResumeJoiner(k, c), UNCHANGED <<shutdowns, stopping>>
    PROVE  IInv'
  <1>1. call[k] = "joined" /\ ~OpenerDue /\ Arriving = {}
    BY DEF ResumeJoiner, OpenerDue, Arriving
  <1>2. /\ 1 \in DOMAIN microtasks /\ k \in Calls /\ c \in Clients
        /\ status[c] \in {"ready", "failed", "stillborn"}
    BY Popped, Members DEF IInv, Queued
  <1>3. CASE status[c] \in {"failed", "ready"}
    <2>1. /\ microtasks' = Tail(microtasks)
          /\ UNCHANGED <<client, connecting, models, status, waiting, disowned>>
          /\ \/ call' = [call EXCEPT ![k] = "done"] /\ UNCHANGED using
             \/ call' = [call EXCEPT ![k] = "using"] /\ using' = [using EXCEPT ![k] = c]
      BY <1>3 DEF ResumeJoiner, UseClient
    <2>2. PICK v \in {"done", "using"} : call' = [call EXCEPT ![k] = v]
      BY <2>1
    <2>3. /\ OnePlace' /\ Queued' /\ ~OpenerDue' /\ Arriving' = {}
          /\ microtasks' # <<>> => microtasks'[1].client = c
      BY <2>1, <2>2, PopQueue
    <2>4. Typed'
      <3>1. microtasks' \in Seq(Continuations)
        BY <2>1, Popped DEF IInv
      <3>2. /\ call' \in [Calls -> CallStates] /\ using' \in [Calls -> Clients \cup {None}]
            /\ \A x \in Calls : using'[x] \in IF call'[x] = "using" THEN Clients ELSE Clients \cup {None}
        BY <1>2, <2>1, Given DEF IInv
      <3> QED
        BY <2>1, <3>1, <3>2 DEF IInv, Typed, TypeOK, CallStates
    <2>5. Slot'
      BY <1>1, <2>1, <2>3 DEF IInv, Slot
    <2>6. Supply'
      <3>1. \A x \in Calls : call[x] \notin {"idle", "joined"} => call'[x] \notin {"idle", "joined"}
        BY <1>2, <2>2 DEF IInv, Typed, TypeOK
      <3> QED
        BY <2>1, <3>1, SupplyKept DEF IInv, UsedClients
    <2>7. Loose' \subseteq Loose
      BY <1>1, <2>1, <2>3 DEF Loose, Alive
    <2>8. Bounded'
      BY <2>1, <2>7, BoundKept DEF IInv
    <2> QED
      BY <2>3, <2>4, <2>5, <2>6, <2>8 DEF IInv
  <1>4. CASE status[c] = "stillborn"
    <2>1. ConnectFrom(k, None, None, Tail(microtasks)) /\ disowned' = Disowned /\ models' = FALSE
      BY <1>4 DEF ResumeJoiner
    <2>2. client # None => status[client] # "ready"
      BY <1>1, <1>4 DEF IInv, Slot
    <2>3. status[NextClient] = "unused"
      BY <1>1, <1>2, FreshClient DEF IInv
    <2>4. /\ client' = None /\ connecting' = NextClient /\ microtasks' = Tail(microtasks)
          /\ status' = [status EXCEPT ![NextClient] = "opening"]
          /\ waiting' = [waiting EXCEPT ![NextClient] = Append(@, k)]
          /\ call' = [call EXCEPT ![k] = "opening"] /\ UNCHANGED using
      BY <2>1, <2>3 DEF ConnectFrom, Shared, AwaitClient
    <2> QED
      BY <1>1, <1>2, <2>1, <2>2, <2>4, Opens
  <1> QED
    BY <1>2, <1>3, <1>4

LEMMA ResumeStep == IInv /\ Resume => IInv'
  <1> SUFFICES ASSUME IInv, Resume PROVE IInv'
    OBVIOUS
  <1> DEFINE k == microtasks[1].call
             c == microtasks[1].client
  <1>1. microtasks # <<>> /\ UNCHANGED <<shutdowns, stopping>> /\ Head(microtasks) = microtasks[1]
    BY Popped DEF Resume, Quiet, IInv
  <1>2. ResumeOpener(k, c) \/ ResumeJoiner(k, c)
    BY <1>1 DEF Resume
  <1> QED
    BY <1>1, <1>2, ResumeOpenerStep, ResumeJoinerStep

LEMMA EndCallStep ==
    ASSUME IInv, NEW k \in Calls, EndCall(k)
    PROVE  IInv'
  <1>1. /\ call[k] = "using" /\ call' = [call EXCEPT ![k] = "done"]
        /\ UNCHANGED <<status, waiting, microtasks, using, shutdowns, stopping, disowned>>
    BY DEF EndCall
  <1>2. /\ call' \in [Calls -> CallStates] /\ using' \in [Calls -> Clients \cup {None}]
        /\ \A x \in Calls : call'[x] = "using" => using'[x] \in Clients
        /\ \A x \in Calls : call[x] \in {"opening", "joined"} => call'[x] = call[x]
        /\ \A x \in Calls : call[x] \notin {"idle", "joined"} => call'[x] \notin {"idle", "joined"}
    BY <1>1 DEF IInv, Typed, TypeOK, CallStates
  <1>3. CASE UNCHANGED <<client, connecting>>
    <2>1. models' \in BOOLEAN
      BY DEF EndCall, IInv, Typed, TypeOK
    <2> QED
      BY <1>1, <1>2, <1>3, <2>1, CallMoves
  <1>4. CASE ~UNCHANGED <<client, connecting>>
    <2>1. /\ client' = None /\ connecting' = None /\ models' = FALSE
          /\ status[using[k]] # "ready" /\ client = using[k]
      BY <1>4 DEF EndCall, ForgetsOwn
    <2>2. client \in Clients /\ client # None /\ connecting = None
      <3>1. using[k] \in Clients
        BY <1>1 DEF IInv, Typed, TypeOK
      <3> QED
        BY <2>1, <3>1, Sorts DEF IInv, Slot
    <2>3. OnePlace' /\ Queued' /\ (OpenerDue' <=> OpenerDue) /\ Arriving' = Arriving
      BY <1>1, <1>2, QuietQueues
    <2>4. Typed'
      BY <1>1, <1>2, <2>1 DEF IInv, Typed, TypeOK, CallStates
    <2>5. Slot'
      BY <1>1, <2>1, <2>3 DEF IInv, Slot
    <2>6. Supply'
      BY <1>1, <1>2, SupplyKept DEF IInv, UsedClients
    <2>7. client \notin Alive \cup Arriving
      BY <2>1, <2>2 DEF IInv, Slot, Alive
    <2>8. Loose' \subseteq Loose
      BY <1>1, <2>1, <2>2, <2>3, <2>7 DEF Loose, Alive
    <2>9. Bounded'
      BY <1>1, <2>8, BoundKept DEF IInv
    <2> QED
      BY <2>3, <2>4, <2>5, <2>6, <2>9 DEF IInv
  <1> QED
    BY <1>3, <1>4

\* A client that was stored ends: its connection fails, or its shutdown is over.
LEMMA Dies ==
    ASSUME IInv, NEW c \in Clients, microtasks = <<>>, status[c] \notin {"unused", "opening"},
           status' = [status EXCEPT ![c] = "dead"], stopping' = stopping \/ stopping' = stopping \ {c},
           UNCHANGED <<client, connecting, models, waiting, microtasks, call, using, disowned>>
    PROVE  IInv'
  <1>1. /\ status'[c] = "dead" /\ \A d \in Clients : d # c => status'[d] = status[d]
        /\ status' \in [Clients -> Statuses]
    BY DEF IInv, Typed, TypeOK, Statuses
  <1>2. OnePlace' /\ Queued' /\ (OpenerDue' <=> OpenerDue) /\ Arriving' = Arriving
    BY <1>1, QuietQueues
  <1>3. Arriving = {}
    BY DEF Arriving, OpenerDue
  <1>4. Typed'
    BY <1>1 DEF IInv, Typed, TypeOK, Statuses
  <1>5. Slot'
    <2>1. connecting # None => status'[connecting] = "opening"
      BY <1>1, <1>3 DEF IInv, Slot, Typed, TypeOK
    <2>2. \A d \in disowned : status'[d] # "unused"
      BY <1>1 DEF IInv, Slot, Typed, TypeOK
    <2>3. \A d \in stopping' \cup ({client} \ {None}) :
             status'[d] \notin {"unused", "opening"} /\ d \notin Arriving'
      BY <1>1, <1>2, <1>3 DEF IInv, Slot, Typed, TypeOK
    <2> QED
      BY <2>1, <2>2, <2>3 DEF IInv, Slot
  <1>6. Supply'
    <2>1. UsedClients' = UsedClients
      BY <1>1 DEF UsedClients
    <2> QED
      BY <2>1, SupplyKept DEF IInv
  <1>7. Loose' \subseteq Loose
    <2>1. Alive' \subseteq Alive \ {c}
      BY <1>1 DEF Alive
    <2> QED
      BY <1>2, <1>3, <2>1 DEF Loose
  <1>8. Bounded'
    BY <1>7, BoundKept DEF IInv
  <1> QED
    BY <1>2, <1>4, <1>5, <1>6, <1>8 DEF IInv

LEMMA ShutdownStep == IInv /\ Shutdown => IInv'
  <1> SUFFICES ASSUME IInv, Shutdown PROVE IInv'
    OBVIOUS
  <1>1. /\ stopping' = stopping \cup ({client} \ {None}) /\ disowned' = Disowned
        /\ client' = None /\ connecting' = None /\ models' = FALSE
        /\ UNCHANGED <<status, waiting, microtasks, call, using>>
    BY DEF Shutdown
  <1>2. OnePlace' /\ Queued' /\ (OpenerDue' <=> OpenerDue) /\ Arriving' = Arriving
    BY <1>1, QuietQueues
  <1>3. Typed'
    BY <1>1 DEF IInv, Typed, TypeOK, Disowned
  <1>4. connecting # None =>
           status[connecting] # "unused" /\ connecting \in Clients /\ connecting \notin disowned
    BY Members DEF IInv, Slot, Arriving, OpenerDue, Queued, Typed, TypeOK
  <1>5. Slot'
    <2>1. \A d \in disowned' : status'[d] # "unused"
      BY <1>1, <1>4 DEF IInv, Slot, Disowned
    <2>2. \A d \in stopping' : status'[d] \notin {"unused", "opening"} /\ d \notin Arriving'
      BY <1>1, <1>2 DEF IInv, Slot
    <2> QED
      BY <1>1, <2>1, <2>2 DEF Slot
  <1>6. Supply'
    BY <1>1, SupplyKept DEF IInv, UsedClients
  <1>7. Bounded'
    <2>1. Loose' \subseteq Loose \cup ({connecting} \ {None})
      BY <1>1, <1>2, Sorts, Members DEF IInv, Loose, Alive, Arriving, OpenerDue
    <2>2. CASE connecting = None
      BY <1>1, <2>1, <2>2, BoundKept DEF IInv, Disowned
    <2>3. CASE connecting # None
      <3>1. disowned' = disowned \cup {connecting} /\ disowned \in SUBSET Clients
        BY <1>1, <2>3 DEF Disowned, IInv, Typed, TypeOK
      <3>2. Loose \in SUBSET Clients
        BY Members DEF IInv, Loose, Alive, Arriving, OpenerDue
      <3>3. Cardinality(Loose') <= Cardinality(disowned \cup {connecting})
        BY <1>4, <2>1, <2>3, <3>1, <3>2, OneMore DEF IInv, Bounded
      <3> QED
        BY <3>1, <3>3 DEF Bounded
    <2> QED
      BY <2>2, <2>3
  <1> QED
    BY <1>2, <1>3, <1>5, <1>6, <1>7 DEF IInv

LEMMA StutterStep == IInv /\ UNCHANGED vars => IInv'
  <1> SUFFICES ASSUME IInv, UNCHANGED vars PROVE IInv'
    OBVIOUS
  <1>1. UNCHANGED <<client, connecting, models, status, waiting, microtasks, call, using, stopping, disowned>>
    BY DEF vars
  <1>2. models' \in BOOLEAN /\ call' \in [Calls -> CallStates] /\ using' \in [Calls -> Clients \cup {None}]
        /\ \A x \in Calls : call'[x] = "using" => using'[x] \in Clients
    BY <1>1 DEF IInv, Typed, TypeOK, CallStates
  <1> QED
    BY <1>1, <1>2, CallMoves

-----------------------------------------------------------------------------
(* The theorems.                                                           *)

LEMMA InitIInv == Init => IInv
  <1> SUFFICES ASSUME Init PROVE IInv
    OBVIOUS
  <1>1. <<>> \in Seq(Calls) /\ <<>> \in Seq(Continuations) /\ DOMAIN <<>> = {}
    OBVIOUS
  <1>2. waiting \in [Clients -> Seq(Calls)] /\ \A c \in Clients : waiting[c] = <<>> /\ DOMAIN waiting[c] = {}
    BY <1>1 DEF Init
  <1>3. microtasks = <<>> /\ DOMAIN microtasks = {} /\ ~OpenerDue /\ Arriving = {}
    BY <1>1 DEF Init, OpenerDue, Arriving
  <1>4. Typed
    BY <1>1, <1>2 DEF Init, Typed, TypeOK
  <1>5. OnePlace
    BY <1>2, <1>3 DEF OnePlace
  <1>6. Queued
    BY <1>2, <1>3 DEF Init, Queued
  <1>7. Slot
    BY <1>3 DEF Init, Slot
  <1>8. UsedClients = {} /\ Openers = {} /\ Loose = {} /\ disowned = {}
    BY <1>3 DEF Init, UsedClients, Openers, Loose, Alive
  <1>9. Cardinality({}) = 0
    BY FS_EmptySet
  <1>10. Supply /\ Bounded
    BY <1>8, <1>9 DEF Supply, Bounded
  <1> QED
    BY <1>4, <1>5, <1>6, <1>7, <1>10 DEF IInv

LEMMA NextIInv == IInv /\ [Next]_vars => IInv'
  <1> SUFFICES ASSUME IInv, [Next]_vars PROVE IInv'
    OBVIOUS
  <1>1. ASSUME NEW c \in Clients, ClientFails(c) PROVE IInv'
    BY <1>1, Dies DEF ClientFails, Quiet
  <1>2. ASSUME NEW c \in Clients, ShutdownCompletes(c) PROVE IInv'
    <2>1. status[c] \notin {"unused", "opening"}
      BY <1>2 DEF ShutdownCompletes, IInv, Slot
    <2> QED
      BY <1>2, <2>1, Dies DEF ShutdownCompletes, Quiet
  <1>3. CASE Finished \/ UNCHANGED vars
    BY <1>3, StutterStep DEF Finished
  <1> QED
    BY <1>1, <1>2, <1>3, StartCallStep, EndCallStep, OpenSettlesStep, ResumeStep, ShutdownStep DEF Next

\* The inductive invariant holds for every number of calls and shutdowns.
THEOREM IInvHolds == Spec => []IInv
  BY InitIInv, NextIInv, PTL DEF Spec

\* However many calls overlap with the failure of the bridge, its replacement and
\* shutdown, no more processes are left behind than #forgetClient disowned, and
\* no settled promise stays in #connecting.
THEOREM BridgesStayOwned == Spec => []BridgesAreOwned
  <1>1. IInv => BridgesAreOwned
    <2> SUFFICES ASSUME IInv PROVE BridgesAreOwned
      OBVIOUS
    <2>1. ConnectingIsPending
      BY DEF IInv, Slot, ConnectingIsPending, Quiet, Arriving, OpenerDue
    <2>2. LeftBehind \in SUBSET Loose /\ Loose \in SUBSET Clients /\ disowned \in SUBSET Clients
      BY Members DEF LeftBehind, Loose, IInv, Typed, TypeOK, Alive, Arriving, OpenerDue
    <2>3. /\ Cardinality(LeftBehind) <= Cardinality(Loose) /\ Cardinality(LeftBehind) \in Nat
          /\ Cardinality(Loose) \in Nat /\ Cardinality(disowned) \in Nat
      BY <2>2, Fewer
    <2>4. LostOnlyIfDisowned
      BY <2>3 DEF IInv, Bounded, LostOnlyIfDisowned
    <2> QED
      BY <2>1, <2>4 DEF IInv, Typed, BridgesAreOwned
  <1> QED
    BY <1>1, IInvHolds, PTL

\* The count of shutdown calls is a number.
LEMMA ShutdownsAreCounted == Spec => [](shutdowns \in Nat)
  <1>1. Init => shutdowns \in Nat
    BY DEF Init
  <1>2. shutdowns \in Nat /\ [Next]_vars => (shutdowns \in Nat)'
    BY DEF Next, StartCall, EndCall, OpenSettles, ClientFails, ShutdownCompletes, Resume, Shutdown,
           Finished, vars
  <1> QED
    BY <1>1, <1>2, PTL DEF Spec

\* Only shutdown, or another client that takes its place, makes the runtime let go
\* of a client that is ready, for every number of calls.
THEOREM HealthyClientStays == Spec => HealthyClientIsKept
  <1> DEFINE Keeps == client # None /\ status[client] = "ready" /\ client' # client =>
                         client' # None \/ shutdowns' # shutdowns
  <1>1. IInv /\ shutdowns \in Nat /\ [Next]_vars => [Keeps]_vars
    <2> SUFFICES ASSUME IInv, shutdowns \in Nat, Next, client # None, status[client] = "ready", client' # client, client' = None
                 PROVE  shutdowns' # shutdowns
      OBVIOUS
    <2>1. ASSUME NEW k \in Calls, StartCall(k) PROVE FALSE
      <3>1. ~Discarded(client)
        BY DEF Discarded
      <3> QED
        BY <2>1, <3>1 DEF StartCall, Connect, ConnectFrom
    <2>2. ASSUME NEW k \in Calls, EndCall(k) PROVE FALSE
      BY <2>2 DEF EndCall, ForgetsOwn
    <2>3. CASE Resume
      <3> DEFINE k == microtasks[1].call
                 c == microtasks[1].client
      <3>1. microtasks # <<>> /\ Head(microtasks) = microtasks[1] /\ 1 \in DOMAIN microtasks
        BY <2>3, Popped DEF Resume, Quiet, IInv
      <3>2. c \in Clients /\ c # None
        BY <3>1, Members, Sorts DEF IInv
      <3>3. ResumeOpener(k, c) \/ ResumeJoiner(k, c)
        BY <2>3, <3>1 DEF Resume
      <3>4. ~ResumeOpener(k, c)
        BY <3>2 DEF ResumeOpener, UseClient
      <3>5. call[k] = "joined" /\ status[c] \in {"stillborn", "dead"}
        BY <3>3, <3>4 DEF ResumeJoiner
      <3>6. client \in {None, c}
        BY <3>1, <3>5 DEF IInv, Slot, OpenerDue
      <3> QED
        BY <3>5, <3>6
    <2>4. CASE Shutdown
      <3>1. shutdowns' = shutdowns + 1
        BY <2>4 DEF Shutdown
      <3> QED
        BY <3>1
    <2>5. ASSUME NEW c \in Clients, OpenSettles(c) \/ ClientFails(c) \/ ShutdownCompletes(c) PROVE FALSE
      BY <2>5 DEF OpenSettles, ClientFails, ShutdownCompletes
    <2>6. CASE Finished
      BY <2>6 DEF Finished, vars
    <2> QED
      BY <2>1, <2>2, <2>3, <2>4, <2>5, <2>6 DEF Next
  <1> QED
    BY <1>1, IInvHolds, ShutdownsAreCounted, PTL DEF Spec, HealthyClientIsKept
===============================================================================
