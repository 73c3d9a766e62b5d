-------------------------- MODULE DiscoveryProofs ---------------------------
(***************************************************************************)
(* What discovery leaves behind, for any agents, cards and failures: every *)
(* match can be called, and with distinct names the call is made as it is  *)
(* configured for the agent it goes to.                                    *)
(***************************************************************************)
EXTENDS Discovery, FiniteSetTheorems, WellFoundedInduction, TLAPS

(* A cached card is that of an agent with the name it is cached under.      *)
CardsAreOfTheirName ==
    \A name \in ServerNames : agent_cards[name] # NoCard =>
        /\ agent_cards[name].of \in DOMAIN Agents
        /\ Agents[agent_cards[name].of] = name

CardsTyped ==
    /\ next \in Nat
    /\ agent_cards \in [ServerNames -> Entry \cup {NoCard}]
    /\ \A x \in DOMAIN store : store[x].server \in ServerNames

(* The inductive invariant.                                                 *)
DInv == /\ CardsTyped
        /\ CardsAreOfTheirName
        /\ MatchesAreCallable
        /\ UniqueNames => TimeoutIsOfAgent
-----------------------------------------------------------------------------
LEMMA LeastOfOne == ASSUME NEW i \in Nat PROVE Min({i}) = i
BY DEF Min

LEMMA InitDInv == Init => DInv
<1>. SUFFICES ASSUME Init PROVE DInv
  OBVIOUS
<1>. QED
  BY DEF Init, DInv, CardsTyped, CardsAreOfTheirName, MatchesAreCallable, TimeoutIsOfAgent

(* Caching a card keeps cards under their names and takes none away.        *)
LEMMA CachedKeeps ==
    ASSUME DInv, Discovering, NEW card \in Cards, Cached(card)
    PROVE  /\ Agents[next] \in ServerNames
           /\ agent_cards' \in [ServerNames -> Entry \cup {NoCard}]
           /\ CardsAreOfTheirName'
           /\ agent_cards'[Agents[next]] # NoCard
           /\ \A name \in ServerNames :
                 agent_cards[name] # NoCard => agent_cards'[name] # NoCard
<1>. DEFINE entry == [of |-> next, card |-> card]
<1>1. next \in DOMAIN Agents /\ Agents[next] \in ServerNames
  BY DiscoveryAssumption DEF Discovering
<1>2. entry \in Entry /\ entry # NoCard
  BY <1>1, DiscoveryAssumption DEF Entry
<1>3. \A name \in ServerNames :
         agent_cards'[name] = IF name = Agents[next] THEN entry ELSE agent_cards[name]
  BY <1>1 DEF DInv, CardsTyped, Cached
<1>4. agent_cards' \in [ServerNames -> Entry \cup {NoCard}]
  BY <1>1, <1>2 DEF DInv, CardsTyped, Cached
<1>5. entry.of = next
  OBVIOUS
<1>. HIDE DEF entry
<1>6. CardsAreOfTheirName'
  BY <1>1, <1>3, <1>5 DEF DInv, CardsAreOfTheirName
<1>. QED  BY <1>1, <1>2, <1>3, <1>4, <1>6

(* What populate stores is of the agent at hand or was there before.        *)
LEMMA PopulateStores ==
    ASSUME NEW card, Populate(card), NEW x \in DOMAIN store'
    PROVE  \/ store'[x].server = Agents[next]
           \/ x \in DOMAIN store /\ store'[x] = store[x]
BY DEF Populate, upsert, Documents

LEMMA StepDInv == DInv /\ [Next]_vars => DInv'
<1>. SUFFICES ASSUME DInv, [Next]_vars PROVE DInv'
  OBVIOUS
<1>1. ASSUME Discovering, next' = next + 1, UNCHANGED <<serving, call>>,
             NEW card \in Cards, Cached(card), Populate(card) \/ UNCHANGED index
      PROVE  DInv'
  <2>1. \A x \in DOMAIN store' :
           store'[x].server = Agents[next] \/ (x \in DOMAIN store /\ store'[x] = store[x])
    BY <1>1, PopulateStores DEF index
  <2>2. \A x \in DOMAIN store' : store'[x].server \in ServerNames
    BY <1>1, <2>1, CachedKeeps DEF DInv, CardsTyped
  <2>3. next \in DOMAIN Agents
    BY <1>1 DEF Discovering
  <2>4. MatchesAreCallable'
    BY <1>1, <2>1, <2>2, <2>3, CachedKeeps
    DEF DInv, MatchesAreCallable, Callable, Configured, CardsTyped
  <2>5. CardsTyped'
    BY <1>1, <2>2, CachedKeeps DEF DInv, CardsTyped
  <2>6. (UniqueNames => TimeoutIsOfAgent)'
    BY <1>1 DEF DInv, UniqueNames, TimeoutIsOfAgent
  <2>. QED  BY <1>1, <2>4, <2>5, <2>6, CachedKeeps DEF DInv
<1>2. CASE EncodeFails \/ Discover
  BY <1>1, <1>2 DEF EncodeFails, Discover
<1>3. ASSUME UNCHANGED <<agent_cards, index, call>>, next' \in {next, next + 1}
      PROVE  DInv'
  BY <1>3
  DEF DInv, index, CardsTyped, CardsAreOfTheirName, MatchesAreCallable, Callable, Configured,
      UniqueNames, TimeoutIsOfAgent
<1>4. CASE FetchFails \/ Serve \/ Refuse \/ UNCHANGED vars
  BY <1>3, <1>4 DEF FetchFails, Serve, Refuse, vars, index
<1>5. ASSUME UNCHANGED <<next, agent_cards, index>>,
             UniqueNames => call' = NoCall \/ call'.agent = call'.entry.of
      PROVE  DInv'
  BY <1>5
  DEF DInv, index, CardsTyped, CardsAreOfTheirName, MatchesAreCallable, Callable, Configured,
      UniqueNames, TimeoutIsOfAgent
<1>6. CASE Return
  BY <1>5, <1>6 DEF Return
<1>7. CASE Invoke
  <2>0. PICK query \in Queries : \E x \in Matches(store, bm25, query) :
           /\ Callable(store[x].server)
           /\ call' = [query |-> query, point |-> x,
                       agent |-> Min(Configured(store[x].server)),
                       entry |-> agent_cards[store[x].server]]
    BY <1>7 DEF Invoke
  <2>1. PICK x \in Matches(store, bm25, query) :
           /\ Callable(store[x].server)
           /\ call' = [query |-> query, point |-> x,
                       agent |-> Min(Configured(store[x].server)),
                       entry |-> agent_cards[store[x].server]]
    BY <2>0
  <2>. DEFINE name == store[x].server
  <2>2. ASSUME UniqueNames PROVE Min(Configured(name)) = agent_cards[name].of
    <3>1. PICK i \in DOMAIN Agents : Agents[i] = name
      BY <2>1 DEF Callable, Configured
    <3>2. name \in ServerNames /\ i \in Nat
      BY <3>1, DiscoveryAssumption
    <3>3. agent_cards[name].of \in DOMAIN Agents /\ Agents[agent_cards[name].of] = name
      BY <2>1, <3>2 DEF Callable, DInv, CardsAreOfTheirName
    <3>4. agent_cards[name].of = i /\ Configured(name) = {i}
      BY <2>2, <3>1, <3>3 DEF UniqueNames, Configured
    <3>. QED  BY <3>2, <3>4, LeastOfOne
  <2>. QED  BY <1>5, <1>7, <2>1, <2>2 DEF Invoke
<1>. QED  BY <1>2, <1>4, <1>6, <1>7 DEF Next

(***************************************************************************)
(* Every skill that can be matched leads to a configured agent with a      *)
(* cached card, whatever failed on the way: the exceptions of              *)
(* orchestrator.py:153-158 are never raised.                               *)
(***************************************************************************)
THEOREM MatchesLeadToCalls == Spec => []MatchesAreCallable
<1>1. DInv => MatchesAreCallable
  BY DEF DInv
<1>. QED  BY <1>1, InitDInv, StepDInv, PTL DEF Spec

(***************************************************************************)
(* If no two agents have one name, each call is made with the headers and  *)
(* the timeout of the agent it goes to (orchestrator.py:152-161).          *)
(***************************************************************************)
THEOREM CallsAreConfigured ==
    ASSUME UniqueNames
    PROVE  Spec => []TimeoutIsOfAgent
<1>1. DInv => TimeoutIsOfAgent
  BY DEF DInv
<1>. QED  BY <1>1, InitDInv, StepDInv, PTL DEF Spec
-----------------------------------------------------------------------------
LEMMA GreatestOf ==
    ASSUME NEW n \in Nat, NEW S \in SUBSET (1..n), S # {}
    PROVE  Max(S) \in S
<1>. DEFINE T == {n - i : i \in S}
<1>1. T \subseteq Nat /\ T # {}
  <2>1. \A i \in S : i \in 1..n /\ n - i \in Nat
    OBVIOUS
  <2>. QED  BY <2>1
<1>. HIDE DEF T
<1>2. PICK m \in T : \A k \in T : m <= k
  <2>. DEFINE R == OpToRel(<, Nat)
  <2>1. \A k, m \in T : k < m => <<k, m>> \in R
    BY <1>1 DEF OpToRel
  <2>2. IsWellFoundedOn(R, Nat)
    BY NatLessThanWellFounded
  <2>. HIDE DEF R
  <2>3. PICK m \in T : \A k \in T : <<k, m>> \notin R
    BY <1>1, <2>2, WFMin
  <2>4. m \in T /\ \A k \in T : ~(k < m)
    BY <2>1, <2>3
  <2>5. \A k \in T : m <= k
    BY <1>1, <2>4
  <2>. QED  BY <2>4, <2>5
<1>3. PICK i \in S : m = n - i
  BY <1>2 DEF T
<1>4. \A j \in S : i >= j
  <2>. SUFFICES ASSUME NEW j \in S PROVE i >= j
    OBVIOUS
  <2>1. n - i <= n - j
    BY <1>2, <1>3 DEF T
  <2>. QED  BY <2>1
<1>. QED  BY <1>4 DEF Max

(* Only stored points are matched.                                          *)
LEMMA MatchesAreStored ==
    ASSUME NEW query, NEW x \in Matches(store, bm25, query)
    PROVE  x \in DOMAIN store
BY DEF Matches, DenseIds, Best, Fused, Sparse

(* What an agent's turn can store: points of its own, of listed skills.     *)
LEMMA DocumentsOf ==
    ASSUME NEW server \in ServerNames, NEW skills \in Seq(Skill),
           NEW x \in DOMAIN Documents(server, skills)
    PROVE  /\ \E id \in SkillIds : x = PointId[server, id]
           /\ Documents(server, skills)[x].server = server
           /\ \E i \in DOMAIN skills : Documents(server, skills)[x].id = skills[i].id
<1>. DEFINE S == {i \in DOMAIN skills : PointId[server, skills[i].id] = x}
<1>1. PICK i \in DOMAIN skills : x = PointId[server, skills[i].id]
  BY DEF Documents
<1>2. skills[i].id \in SkillIds
  <2>1. skills[i] \in Skill
    OBVIOUS
  <2>. QED  BY <2>1 DEF Skill
<1>3. Len(skills) \in Nat /\ S \in SUBSET (1..Len(skills)) /\ S # {}
  <2>1. i \in S
    BY <1>1
  <2>2. DOMAIN skills = 1..Len(skills) /\ Len(skills) \in Nat
    OBVIOUS
  <2>3. S \subseteq DOMAIN skills
    OBVIOUS
  <2>. QED  BY <2>1, <2>2, <2>3
<1>4. Max(S) \in S
  BY <1>3, GreatestOf
<1>5. Documents(server, skills)[x] =
        [server |-> server, id |-> skills[Max(S)].id, text |-> skills[Max(S)].text]
  BY DEF Documents
<1>. HIDE DEF S
<1>6. /\ Documents(server, skills)[x].server = server
      /\ Documents(server, skills)[x].id = skills[Max(S)].id
  BY <1>5
<1>7. Max(S) \in DOMAIN skills
  BY <1>4 DEF S
<1>. QED  BY <1>1, <1>2, <1>6, <1>7
-----------------------------------------------------------------------------
(* A set of integers has one greatest member at most.                       *)
LEMMA MaxIs ==
    ASSUME NEW S, S \subseteq Int, NEW m \in S, \A y \in S : m >= y
    PROVE  Max(S) = m
<1>1. Max(S) \in S /\ \A y \in S : Max(S) >= y
  BY DEF Max
<1>2. Max(S) \in Int /\ m \in Int /\ Max(S) >= m /\ m >= Max(S)
  BY <1>1
<1>. QED  BY <1>2

(* A finite set of integers has one.                                        *)
LEMMA FiniteHasMax ==
    ASSUME NEW S, IsFiniteSet(S), S \subseteq Int, S # {}
    PROVE  \E m \in S : \A y \in S : m >= y
<1>. DEFINE R   == StrictSubsetOrdering(S)
            Bad == {T \in FiniteSubsetsOf(S) :
                      T # {} /\ ~ \E m \in T : \A y \in T : m >= y}
<1>0. S \in FiniteSubsetsOf(S)
  BY FS_FiniteSubsetsOfFinite
<1>1. SUFFICES ASSUME Bad # {} PROVE FALSE
  <2>1. ASSUME Bad = {} PROVE \E m \in S : \A y \in S : m >= y
    BY <1>0, <2>1
  <2>. HIDE DEF Bad
  <2>. QED  BY <2>1
<1>2. Bad \subseteq FiniteSubsetsOf(S) /\ IsWellFoundedOn(R, FiniteSubsetsOf(S))
  BY FS_StrictSubsetOrderingWellFounded
<1>. HIDE DEF R, Bad
<1>3. PICK T \in Bad : \A U \in Bad : <<U, T>> \notin R
  BY <1>1, <1>2, WFMin
<1>4. T \in SUBSET S /\ IsFiniteSet(T) /\ T # {}
      /\ ~ \E m \in T : \A y \in T : m >= y
  BY <1>3 DEF Bad, FiniteSubsetsOf
<1>5. PICK x \in T : TRUE
  BY <1>4
<1>. DEFINE U == T \ {x}
<1>6. IsFiniteSet(U) /\ U \subseteq S /\ U \subseteq T /\ U # T
  BY <1>4, <1>5, FS_RemoveElement
<1>7. <<U, T>> \in R
  BY <1>4, <1>6 DEF R, StrictSubsetOrdering
<1>8. U \notin Bad
  BY <1>3, <1>7
<1>9. U = {} \/ \E m \in U : \A y \in U : m >= y
  <2>. HIDE DEF U
  <2>. QED  BY <1>6, <1>8 DEF Bad, FiniteSubsetsOf
<1>10. CASE U = {}
  <2>1. \A y \in T : y = x /\ x \in Int
    BY <1>4, <1>5, <1>10
  <2>2. \A y \in T : x >= y
    BY <2>1
  <2>. QED  BY <1>4, <1>5, <2>2
<1>11. ASSUME NEW m \in U, \A y \in U : m >= y
       PROVE  FALSE
  <2>1. m \in T /\ m \in Int /\ x \in Int /\ \A y \in T : y = x \/ m >= y
    BY <1>4, <1>5, <1>11
  <2>2. CASE m >= x
    BY <1>4, <2>1, <2>2
  <2>3. CASE ~(m >= x)
    <3>1. \A y \in T : y \in Int /\ x >= y
      BY <1>4, <2>1, <2>3
    <3>. QED  BY <1>4, <1>5, <3>1
  <2>. QED  BY <2>2, <2>3
<1>. QED  BY <1>9, <1>10, <1>11

(* The points a store can have are finitely many.                           *)
LEMMA StoresAreFinite ==
    ASSUME NEW st, DOMAIN st \subseteq Points
    PROVE  IsFiniteSet(DOMAIN st) /\ Cardinality(DOMAIN st) \in Nat
<1>1. Scroll \in Surjection(1..Len(Scroll), Points) /\ Len(Scroll) \in Nat
  <2>1. Scroll \in [1..Len(Scroll) -> Points] /\ Len(Scroll) \in Nat
    BY SkillRAGAssumption
  <2>. QED  BY <2>1, SkillRAGAssumption DEF Surjection
<1>2. IsFiniteSet(1..Len(Scroll))
  BY <1>1, FS_Interval
<1>3. IsFiniteSet(Points)
  BY <1>1, <1>2, FS_Surjection
<1>. QED  BY <1>3, FS_Subset, FS_CardinalityType

(* The store is scrolled point by point, and none is left out.              *)
LEMMA GetAll ==
    ASSUME NEW st
    PROVE  /\ get_all(st) \in Seq(DOMAIN st)
           /\ \A i \in DOMAIN Scroll : Scroll[i] \in DOMAIN st =>
                 \E j \in DOMAIN get_all(st) : get_all(st)[j] = Scroll[i]
<1>. DEFINE kept    == {i \in DOMAIN Scroll : Scroll[i] \in DOMAIN st}
            upto(i) == {j \in kept : j <= i}
            rank(i) == Cardinality(upto(i))
            size    == Cardinality(kept)
            at(n)   == CHOOSE i \in kept : rank(i) = n
<1>1. DOMAIN Scroll = 1..Len(Scroll) /\ Len(Scroll) \in Nat
  BY SkillRAGAssumption
<1>2. IsFiniteSet(kept) /\ size \in Nat
  <2>1. IsFiniteSet(DOMAIN Scroll)
    BY <1>1, FS_Interval
  <2>2. kept \in SUBSET DOMAIN Scroll
    OBVIOUS
  <2>. HIDE DEF kept
  <2>. QED  BY <2>1, <2>2, FS_Subset, FS_CardinalityType
<1>3. \A i \in kept : i \in Int /\ i \in upto(i) /\ upto(i) \in SUBSET kept
  BY <1>1
<1>4. get_all(st) = [n \in 1..size |-> Scroll[at(n)]]
  BY DEF get_all
<1>5. \A i \in kept : Scroll[i] \in DOMAIN st
  OBVIOUS
<1>6. \A i \in kept : \A j : j \in upto(i) <=> j \in kept /\ j <= i
  OBVIOUS
<1>7. \A i \in DOMAIN Scroll : Scroll[i] \in DOMAIN st => i \in kept
  OBVIOUS
<1>. HIDE DEF kept, upto
<1>8. ASSUME NEW i \in kept
      PROVE  IsFiniteSet(upto(i)) /\ rank(i) \in 1..size
  <2>1. IsFiniteSet(upto(i)) /\ rank(i) <= size
    BY <1>2, <1>3, FS_Subset
  <2>2. rank(i) \in Nat /\ rank(i) # 0
    BY <1>3, <2>1, FS_CardinalityType, FS_EmptySet
  <2>. HIDE DEF rank, size
  <2>. QED  BY <1>2, <2>1, <2>2
<1>9. ASSUME NEW i \in kept, NEW j \in kept, i < j
      PROVE  rank(i) # rank(j)
  <2>1. upto(i) \in SUBSET upto(j)
    BY <1>3, <1>6, <1>9
  <2>2. j \in upto(j) /\ j \notin upto(i)
    BY <1>3, <1>6, <1>9
  <2>. QED  BY <1>8, <2>1, <2>2, FS_Subset
<1>10. \A i, j \in kept : rank(i) = rank(j) => i = j
  <2>. HIDE DEF rank
  <2>. QED  BY <1>3, <1>9
<1>11. \A n \in 1..size : \E i \in kept : rank(i) = n
  <2>. DEFINE f == [i \in kept |-> rank(i)]
  <2>1. IsFiniteSet(1..size) /\ Cardinality(1..size) = size
    <3>. HIDE DEF size
    <3>. QED  BY <1>2, FS_Interval
  <2>2. f \in Injection(kept, 1..size)
    <3>. HIDE DEF rank, size
    <3>1. f \in [kept -> 1..size] /\ \A i \in kept : f[i] = rank(i)
      BY <1>8
    <3>2. \A i, j \in kept : f[i] = f[j] => i = j
      BY <1>10, <3>1
    <3>. HIDE DEF f
    <3>. QED  BY <3>1, <3>2 DEF Injection, IsInjective
  <2>. HIDE DEF f
  <2>3. f \in Surjection(kept, 1..size)
    BY <2>1, <2>2, FS_Injection
  <2>. HIDE DEF rank
  <2>. QED  BY <2>3 DEF Surjection, f
<1>12. \A n \in 1..size : at(n) \in kept /\ rank(at(n)) = n
  <2>. HIDE DEF rank, size
  <2>. QED  BY <1>11
<1>13. get_all(st) \in Seq(DOMAIN st)
  <2>. HIDE DEF size, at
  <2>1. get_all(st) \in [1..size -> DOMAIN st]
    BY <1>4, <1>5, <1>12
  <2>. QED  BY <1>2, <2>1
<1>14. ASSUME NEW i \in DOMAIN Scroll, Scroll[i] \in DOMAIN st
       PROVE  \E j \in DOMAIN get_all(st) : get_all(st)[j] = Scroll[i]
  <2>1. i \in kept /\ rank(i) \in 1..size
    BY <1>7, <1>8, <1>14
  <2>2. at(rank(i)) = i
    <3>1. at(rank(i)) \in kept /\ rank(at(rank(i))) = rank(i)
      BY <1>12, <2>1
    <3>. HIDE DEF at, rank
    <3>. QED  BY <1>10, <2>1, <3>1
  <2>. HIDE DEF at, rank, size
  <2>. QED  BY <1>4, <2>1, <2>2
<1>. QED  BY <1>13, <1>14

(* So the index of words covers every point, each under its own text.       *)
LEMMA StoredIsScrolled ==
    ASSUME NEW st, DOMAIN st \subseteq Points, NEW x \in DOMAIN st
    PROVE  \E j \in DOMAIN get_all(st) : get_all(st)[j] = x
<1>1. PICK i \in DOMAIN Scroll : Scroll[i] = x
  BY SkillRAGAssumption
<1>. QED  BY <1>1, GetAll

LEMMA CorpusType ==
    ASSUME NEW st, \A x \in DOMAIN st : st[x] \in Doc
    PROVE  Corpus(st) \in Seq(Texts)
<1>. DEFINE ids == get_all(st)
<1>1. ids \in Seq(DOMAIN st)
  BY GetAll
<1>. HIDE DEF ids
<1>2. Len(ids) \in Nat /\ DOMAIN ids = 1..Len(ids)
      /\ \A j \in DOMAIN ids : ids[j] \in DOMAIN st
  BY <1>1
<1>3. \A j \in DOMAIN ids : st[ids[j]].text \in Texts
  BY <1>2 DEF Doc
<1>4. [j \in DOMAIN ids |-> st[ids[j]].text] \in Seq(Texts)
  BY <1>2, <1>3
<1>. QED  BY <1>4 DEF Corpus, ids
-----------------------------------------------------------------------------
LEMMA LeastOf ==
    ASSUME NEW S \in SUBSET Nat, S # {}
    PROVE  Min(S) \in S
<1>. DEFINE R == OpToRel(<, Nat)
<1>1. \A k, m \in S : k < m => <<k, m>> \in R
  BY DEF OpToRel
<1>2. IsWellFoundedOn(R, Nat)
  BY NatLessThanWellFounded
<1>. HIDE DEF R
<1>3. PICK m \in S : \A k \in S : <<k, m>> \notin R
  BY <1>2, WFMin
<1>4. \A k \in S : ~(k < m)
  BY <1>1, <1>3
<1>5. \A k \in S : m <= k
  BY <1>4
<1>. QED  BY <1>5 DEF Min

LEMMA DocumentsType ==
    ASSUME NEW server \in ServerNames, NEW skills \in Seq(Skill),
           NEW x \in DOMAIN Documents(server, skills)
    PROVE  x \in Points /\ Documents(server, skills)[x] \in Doc
<1>. DEFINE S == {i \in DOMAIN skills : PointId[server, skills[i].id] = x}
<1>1. PICK i \in DOMAIN skills : x = PointId[server, skills[i].id]
  BY DEF Documents
<1>2. DOMAIN skills = 1..Len(skills) /\ Len(skills) \in Nat
      /\ \A j \in DOMAIN skills : skills[j].id \in SkillIds /\ skills[j].text \in Texts
  <2>1. \A j \in DOMAIN skills : skills[j] \in Skill
    OBVIOUS
  <2>. QED  BY <2>1 DEF Skill
<1>3. Len(skills) \in Nat /\ S \in SUBSET (1..Len(skills)) /\ S # {}
  <2>1. i \in S /\ S \subseteq DOMAIN skills
    BY <1>1
  <2>. HIDE DEF S
  <2>. QED  BY <1>2, <2>1
<1>4. Max(S) \in S
  BY <1>3, GreatestOf
<1>5. Documents(server, skills)[x] =
        [server |-> server, id |-> skills[Max(S)].id, text |-> skills[Max(S)].text]
  BY DEF Documents
<1>6. Max(S) \in DOMAIN skills
  BY <1>4
<1>. HIDE DEF S
<1>7. x \in Points
  <2>1. PICK id \in SkillIds : x = PointId[server, id]
    BY <1>1, <1>2, Zenon
  <2>. QED  BY <2>1 DEF Points
<1>8. skills[Max(S)].id \in SkillIds /\ skills[Max(S)].text \in Texts
  BY <1>2, <1>6
<1>. QED  BY <1>5, <1>7, <1>8 DEF Doc

(* What an agent's turn stores is typed, and so is the index made of it.    *)
LEMMA PopulateType ==
    ASSUME TypeOK, Discovering, NEW card \in Cards, Populate(card)
    PROVE  /\ DOMAIN store' \subseteq Points
           /\ \A x \in DOMAIN store' : store'[x] \in Doc
           /\ bm25' \in Seq(Texts)
<1>. DEFINE docs == Documents(Agents[next], card.skills)
            full == upsert(store, docs)
<1>1. Agents[next] \in ServerNames /\ card.skills \in Seq(Skill)
  BY DiscoveryAssumption DEF Discovering, Card
<1>2. \A x \in DOMAIN docs : x \in Points /\ docs[x] \in Doc
  BY <1>1, DocumentsType
<1>. HIDE DEF docs
<1>3. DOMAIN full \subseteq Points /\ \A x \in DOMAIN full : full[x] \in Doc
  BY <1>2 DEF TypeOK, upsert
<1>4. store' = full /\ bm25' = IF Builds(full) THEN Corpus(full) ELSE bm25
  BY DEF Populate, docs
<1>. HIDE DEF full
<1>5. Corpus(full) \in Seq(Texts)
  BY <1>3, CorpusType
<1>. QED  BY <1>3, <1>4, <1>5 DEF TypeOK

LEMMA InitTypeOK == Init => TypeOK
<1>. SUFFICES ASSUME Init PROVE TypeOK
  OBVIOUS
<1>1. 1 \in 1..(Len(Agents) + 1)
  BY DiscoveryAssumption
<1>2. DOMAIN store = {} /\ bm25 \in Seq(Texts)
  BY DEF Init
<1>. QED  BY <1>1, <1>2 DEF Init, TypeOK

LEMMA StepTypeOK == TypeOK /\ [Next]_vars => TypeOK'
<1>. SUFFICES ASSUME TypeOK, [Next]_vars PROVE TypeOK'
  OBVIOUS
<1>1. Discovering => next \in DOMAIN Agents /\ next + 1 \in 1..(Len(Agents) + 1)
  BY DiscoveryAssumption DEF Discovering
<1>2. ASSUME NEW card \in Cards, Cached(card), Discovering
      PROVE  agent_cards' \in [ServerNames -> Entry \cup {NoCard}]
  <2>1. [of |-> next, card |-> card] \in Entry
    BY <1>1, <1>2, DiscoveryAssumption DEF Entry
  <2>. QED  BY <1>2, <2>1 DEF Cached, TypeOK
<1>3. CASE FetchFails
  BY <1>1, <1>3 DEF FetchFails, index, TypeOK
<1>4. CASE EncodeFails
  BY <1>1, <1>2, <1>4 DEF EncodeFails, index, TypeOK
<1>5. CASE Discover
  BY <1>1, <1>2, <1>5, PopulateType DEF Discover, TypeOK
<1>6. CASE Serve
  BY <1>6 DEF Serve, index, TypeOK
<1>7. CASE Invoke
  <2>1. PICK query \in Queries : \E x \in Matches(store, bm25, query) :
           /\ Callable(store[x].server)
           /\ call' = [query |-> query, point |-> x,
                       agent |-> Min(Configured(store[x].server)),
                       entry |-> agent_cards[store[x].server]]
    BY <1>7 DEF Invoke
  <2>2. PICK x \in Matches(store, bm25, query) :
           /\ Callable(store[x].server)
           /\ call' = [query |-> query, point |-> x,
                       agent |-> Min(Configured(store[x].server)),
                       entry |-> agent_cards[store[x].server]]
    BY <2>1
  <2>. DEFINE name == store[x].server
  <2>3. x \in Points /\ name \in ServerNames
    BY MatchesAreStored DEF TypeOK, Doc
  <2>4. Min(Configured(name)) \in DOMAIN Agents
    <3>1. Configured(name) \in SUBSET Nat /\ Configured(name) \subseteq DOMAIN Agents
          /\ Configured(name) # {}
      BY <2>2, DiscoveryAssumption DEF Callable, Configured
    <3>. QED  BY <3>1, LeastOf
  <2>5. agent_cards[name] \in Entry
    BY <2>2, <2>3 DEF Callable, TypeOK
  <2>6. call' \in Call
    BY <2>2, <2>3, <2>4, <2>5, DiscoveryAssumption DEF Call
  <2>. QED  BY <1>7, <2>6 DEF Invoke, index, TypeOK
<1>8. CASE Refuse \/ UNCHANGED vars
  BY <1>8 DEF Refuse, vars, TypeOK
<1>9. CASE Return
  BY <1>9 DEF Return, index, TypeOK
<1>. QED  BY <1>3, <1>4, <1>5, <1>6, <1>7, <1>8, <1>9 DEF Next

(***************************************************************************)
(* The loop over the agents ends within the list, only skills are indexed  *)
(* and only texts of stored skills are in the index of words, and a call   *)
(* is made of a stored point, a configured agent and a cached card         *)
(* (agent_rag.py:266-338, 403-431, orchestrator.py:141-176).               *)
(***************************************************************************)
THEOREM DiscoveryTypeCorrect == Spec => []TypeOK
BY InitTypeOK, StepTypeOK, PTL DEF Spec
-----------------------------------------------------------------------------
LEMMA NextIsNatural == TypeOK => next \in Nat
BY DiscoveryAssumption DEF TypeOK

LEMMA InitIndex == Init => IndexInv
<1>. SUFFICES ASSUME Init PROVE IndexInv
  OBVIOUS
<1>. QED
  BY InitTypeOK DEF Init, IndexInv, StoredIsOffered, WordsMatchStore, WordsKept, SkillIsOffered

LEMMA TurnKeepsIndex ==
    ASSUME UniqueNames, OwnPoints, IndexInv, TypeOK', Discovering, NEW card \in Cards,
           Cached(card), Populate(card) \/ UNCHANGED index,
           next' = next + 1, UNCHANGED <<serving, call>>
    PROVE  IndexInv'
<1>. DEFINE name == Agents[next]
            docs == Documents(name, card.skills)
            full == upsert(store, docs)
<1>1. /\ next \in DOMAIN Agents /\ name \in ServerNames /\ next \in Nat
      /\ card.skills \in Seq(Skill)
  BY DiscoveryAssumption, NextIsNatural DEF Discovering, Card, IndexInv
<1>2. /\ agent_cards'[name].card = card
      /\ agent_cards'[name] # NoCard
      /\ \A other \in ServerNames \ {name} : agent_cards'[other] = agent_cards[other]
  <2>1. [of |-> next, card |-> card] \in Entry
    BY <1>1, DiscoveryAssumption DEF Entry
  <2>. QED  BY <1>1, <2>1, DiscoveryAssumption DEF Cached, IndexInv, TypeOK
(* What was stored before is of another agent, and stays.                   *)
<1>3. ASSUME NEW x \in DOMAIN store
      PROVE  /\ store[x].server \in ServerNames /\ store[x].server # name
             /\ x \notin DOMAIN docs
  <2>1. PICK i \in DOMAIN Agents : i < next /\ store[x].server = Agents[i]
    BY DEF IndexInv, StoredIsOffered
  <2>2. Agents[i] \in ServerNames /\ Agents[i] # name
    BY <1>1, <2>1, DiscoveryAssumption DEF UniqueNames
  <2>3. PICK id \in SkillIds : x = PointId[store[x].server, id]
    BY DEF IndexInv, StoredIsOffered
  <2>4. ASSUME x \in DOMAIN docs PROVE FALSE
    <3>1. PICK id2 \in SkillIds : x = PointId[name, id2]
      BY <1>1, <2>4, DocumentsOf
    <3>2. PointId[store[x].server, id] = PointId[name, id2]
      BY <2>3, <3>1
    <3>. HIDE DEF name
    <3>. QED  BY <1>1, <2>1, <2>2, <3>2 DEF OwnPoints
  <2>. QED  BY <2>1, <2>2, <2>4
<1>4. /\ DOMAIN full = DOMAIN store \cup DOMAIN docs
      /\ \A x \in DOMAIN store : full[x] = store[x]
      /\ \A x \in DOMAIN docs : full[x] = docs[x]
  BY <1>3 DEF upsert
<1>5. store' = full \/ store' = store
  BY DEF Populate, index
<1>6. \A x \in DOMAIN store' :
         \/ x \in DOMAIN store /\ store'[x] = store[x]
         \/ x \in DOMAIN docs /\ store'[x] = docs[x]
  <2>. HIDE DEF full
  <2>. QED  BY <1>4, <1>5
<1>7. ASSUME NEW x \in DOMAIN store'
      PROVE  LET n == store'[x].server
             IN  /\ \E i \in DOMAIN Agents : i < next + 1 /\ n = Agents[i]
                 /\ \E id \in SkillIds : x = PointId[n, id]
                 /\ agent_cards'[n] # NoCard
                 /\ \E i \in DOMAIN agent_cards'[n].card.skills :
                       agent_cards'[n].card.skills[i].id = store'[x].id
  <2>1. CASE x \in DOMAIN store /\ store'[x] = store[x]
    <3>1. /\ \E i \in DOMAIN Agents : i < next /\ store[x].server = Agents[i]
          /\ \E id \in SkillIds : x = PointId[store[x].server, id]
          /\ agent_cards[store[x].server] # NoCard
          /\ \E i \in DOMAIN agent_cards[store[x].server].card.skills :
                agent_cards[store[x].server].card.skills[i].id = store[x].id
      BY <2>1 DEF IndexInv, StoredIsOffered
    <3>2. agent_cards'[store[x].server] = agent_cards[store[x].server]
      BY <1>2, <1>3, <2>1
    <3>3. \A i \in DOMAIN Agents : i < next => i < next + 1
      BY <1>1, DiscoveryAssumption
    <3>. QED  BY <2>1, <3>1, <3>2, <3>3
  <2>2. CASE x \in DOMAIN docs /\ store'[x] = docs[x]
    <3>1. /\ \E id \in SkillIds : x = PointId[name, id]
          /\ docs[x].server = name
          /\ \E i \in DOMAIN card.skills : docs[x].id = card.skills[i].id
      BY <1>1, <2>2, DocumentsOf
    <3>2. next < next + 1
      BY <1>1
    <3>. HIDE DEF docs
    <3>. QED  BY <1>1, <1>2, <2>2, <3>1, <3>2
  <2>. QED  BY <1>6, <2>1, <2>2
<1>8. StoredIsOffered'
  BY <1>7 DEF StoredIsOffered
<1>9. WordsMatchStore' /\ WordsKept'
  <2>1. CASE UNCHANGED index
    BY <2>1 DEF index, IndexInv, WordsMatchStore, WordsKept
  <2>2. CASE Populate(card)
    <3>1. store' = full /\ bm25' = IF Builds(full) THEN Corpus(full) ELSE bm25
      BY <2>2 DEF Populate
    <3>2. bm25 # <<>> => \E x \in DOMAIN full : full[x].text \in Worded
      BY <1>4 DEF IndexInv, WordsKept
    <3>. HIDE DEF full
    <3>3. bm25 # <<>> => Builds(full)
      BY <3>2 DEF Builds
    <3>4. Corpus(full) # <<>> /\ Builds(full) => \E x \in DOMAIN full : full[x].text \in Worded
      BY DEF Corpus, Builds
    <3>. QED  BY <3>1, <3>2, <3>3, <3>4 DEF WordsMatchStore, WordsKept
  <2>. QED  BY <2>1, <2>2
<1>10. call' = NoCall
  BY <1>1 DEF IndexInv, Discovering
<1>. QED  BY <1>2, <1>8, <1>9, <1>10 DEF IndexInv, SkillIsOffered

LEMMA StepIndex ==
    ASSUME UniqueNames, OwnPoints, IndexInv, [Next]_vars
    PROVE  IndexInv'
<1>0. TypeOK' /\ next' \in Nat
  <2>1. TypeOK'
    BY StepTypeOK DEF IndexInv
  <2>. QED  BY <2>1, NextIsNatural, DiscoveryAssumption DEF TypeOK
<1>1. ASSUME EncodeFails \/ Discover PROVE IndexInv'
  <2>1. /\ Discovering /\ next' = next + 1 /\ UNCHANGED <<serving, call>>
        /\ \E card \in Cards : Cached(card) /\ (Populate(card) \/ UNCHANGED index)
    BY <1>1 DEF EncodeFails, Discover
  <2>. QED  BY <1>0, <2>1, TurnKeepsIndex
<1>2. ASSUME UNCHANGED <<agent_cards, index, call>>, next' \in {next, next + 1},
             serving' = serving \/ serving' = TRUE
      PROVE  IndexInv'
  <2>1. next \in Nat /\ next' \in Nat
    BY <1>0, NextIsNatural DEF IndexInv
  <2>2. \A i \in DOMAIN Agents : i < next => i < next'
    BY <1>2, <2>1, DiscoveryAssumption
  <2>3. StoredIsOffered'
    BY <1>2, <2>2 DEF IndexInv, StoredIsOffered, index
  <2>. QED
    BY <1>0, <1>2, <2>3 DEF IndexInv, index, WordsMatchStore, WordsKept, SkillIsOffered
<1>3. ASSUME FetchFails \/ Serve \/ Refuse \/ UNCHANGED vars PROVE IndexInv'
  BY <1>2, <1>3 DEF FetchFails, Serve, Refuse, vars, index
<1>4. ASSUME Return PROVE IndexInv'
  BY <1>0, <1>4
  DEF Return, index, IndexInv, StoredIsOffered, WordsMatchStore, WordsKept, SkillIsOffered
<1>5. ASSUME Invoke PROVE IndexInv'
  <2>1. PICK query \in Queries : \E x \in Matches(store, bm25, query) :
           call' = [query |-> query, point |-> x,
                    agent |-> Min(Configured(store[x].server)),
                    entry |-> agent_cards[store[x].server]]
    BY <1>5 DEF Invoke
  <2>2. PICK x \in Matches(store, bm25, query) :
           call' = [query |-> query, point |-> x,
                    agent |-> Min(Configured(store[x].server)),
                    entry |-> agent_cards[store[x].server]]
    BY <2>1
  <2>3. call'.point = x /\ call'.entry = agent_cards[store[x].server]
    BY <2>2
  <2>4. x \in DOMAIN store
    BY MatchesAreStored
  <2>5. SkillIsOffered'
    <3>1. PICK i \in DOMAIN agent_cards[store[x].server].card.skills :
             agent_cards[store[x].server].card.skills[i].id = store[x].id
      BY <2>4 DEF IndexInv, StoredIsOffered
    <3>2. store' = store
      BY <1>5 DEF Invoke, index
    <3>. QED  BY <2>3, <3>1, <3>2 DEF SkillIsOffered
  <2>6. UNCHANGED <<next, agent_cards, store, bm25, serving>> /\ serving
    BY <1>5 DEF Invoke, index
  <2>. QED
    BY <1>0, <2>5, <2>6 DEF IndexInv, StoredIsOffered, WordsMatchStore, WordsKept
<1>. QED  BY <1>1, <1>3, <1>4, <1>5 DEF Next

(***************************************************************************)
(* If no two agents share a name or a point, no turn and no failure of an  *)
(* agent undoes what discovery did for another (agent_rag.py:398-431).     *)
(***************************************************************************)
THEOREM DiscoveryIsSound ==
    ASSUME UniqueNames, OwnPoints
    PROVE  Spec => []IndexInv
<1>1. IndexInv /\ [Next]_vars => IndexInv'
  BY StepIndex
<1>. QED  BY <1>1, InitIndex, PTL DEF Spec

(***************************************************************************)
(* If no two agents share a name or a point, a call asks for a skill that  *)
(* the card it is made with lists (orchestrator.py:141-176).               *)
(***************************************************************************)
THEOREM CallsAskForListedSkills ==
    ASSUME UniqueNames, OwnPoints
    PROVE  Spec => []SkillIsOffered
<1>1. IndexInv => SkillIsOffered
  BY DEF IndexInv
<1>. QED  BY <1>1, DiscoveryIsSound, PTL

(***************************************************************************)
(* For the same agents, the scores of words are paired with the points     *)
(* they are of, also when building the index of words has failed in        *)
(* between (agent_rag.py:331-338, 354-360).                                *)
(***************************************************************************)
THEOREM ScoresMeetTheirPoints ==
    ASSUME UniqueNames, OwnPoints
    PROVE  Spec => []WordsMatchStore
<1>1. IndexInv => WordsMatchStore
  BY DEF IndexInv
<1>. QED  BY <1>1, DiscoveryIsSound, PTL
-----------------------------------------------------------------------------
(* A point is retrieved if at most top_k are as similar to the query.       *)
LEMMA NearIsRetrieved ==
    ASSUME TypeOK, NEW query \in Query, NEW S \in DenseIds(store, query),
           NEW x \in DOMAIN store, Near(query, x)
    PROVE  x \in S
<1>. DEFINE d(y) == query.dense[store[y].text]
            near == {y \in DOMAIN store : d(y) >= d(x)}
            c    == Cardinality(DOMAIN store)
<1>1. IsFiniteSet(DOMAIN store) /\ c \in Nat
  BY StoresAreFinite DEF TypeOK
<1>2. S \in SUBSET DOMAIN store /\ Cardinality(S) = Min({top_k, c})
      /\ \A y \in S, z \in DOMAIN store \ S : d(y) >= d(z)
  BY DEF DenseIds
<1>3. near \in SUBSET DOMAIN store /\ Cardinality(near) <= top_k
  BY DEF Near
<1>4. SUFFICES ASSUME x \notin S PROVE FALSE
  OBVIOUS
<1>5. S \subseteq near
  BY <1>2, <1>4
<1>6. IsFiniteSet(S) /\ IsFiniteSet(near) /\ Cardinality(S) \in Nat
      /\ Cardinality(near) \in Nat
  <2>. HIDE DEF near
  <2>. QED  BY <1>1, <1>2, <1>3, FS_Subset, FS_CardinalityType
(* No more than S are as similar, so x, which is as similar as itself, ...  *)
<1>7. CASE Cardinality(S) = c
  BY <1>1, <1>2, <1>4, <1>7, FS_Subset
<1>8. CASE Cardinality(S) = top_k
  <2>1. Cardinality(S) <= Cardinality(near) /\ (Cardinality(S) = Cardinality(near) => S = near)
    <3>. HIDE DEF near
    <3>. QED  BY <1>5, <1>6, FS_Subset
  <2>2. S = near
    <3>. HIDE DEF near
    <3>. QED  BY <1>3, <1>6, <1>8, <2>1, SkillRAGAssumption
  <2>3. \A y \in S : d(y) >= d(x)
    BY <1>2, <1>4
  <2>4. x \in near
    <3>1. store[x].text \in Texts
      BY DEF TypeOK, Doc
    <3>2. d(x) \in Int
      BY <3>1, SkillRAGAssumption DEF Query
    <3>. QED  BY <3>2 DEF near
  <2>. QED  BY <1>4, <2>2, <2>4
<1>9. Min({top_k, c}) \in {top_k, c}
  <2>. HIDE DEF c
  <2>. QED  BY <1>1, SkillRAGAssumption DEF Min
<1>. QED  BY <1>2, <1>7, <1>8, <1>9

LEMMA ClampedIs ==
    ASSUME NEW query \in Query, NEW t \in Texts
    PROVE  Clamped(query, t) = IF query.raw[t] > 0 THEN query.raw[t] ELSE 0
<1>1. query.raw[t] \in Int
  BY DEF Query
<1>2. {0, query.raw[t]} \subseteq Int
  BY <1>1
<1>. DEFINE r == query.raw[t]
<1>. HIDE DEF r
<1>3. ASSUME r > 0 PROVE Max({0, r}) = r
  <2>1. \A y \in {0, r} : r >= y
    BY <1>1, <1>3 DEF r
  <2>. QED  BY <1>2, <2>1, MaxIs DEF r
<1>4. ASSUME ~(r > 0) PROVE Max({0, r}) = 0
  <2>1. \A y \in {0, r} : 0 >= y
    BY <1>1, <1>4 DEF r
  <2>. QED  BY <1>2, <2>1, MaxIs DEF r
<1>. QED  BY <1>3, <1>4 DEF Clamped, r

LEMMA MonotoneScore ==
    ASSUME NEW a \in Int, NEW b \in Int, NEW c \in Nat, a >= b
    PROVE  4 * a * c >= 4 * b * c
<1>1. PICK d \in Nat : a = b + d
  <2>1. a - b \in Nat /\ a = b + (a - b)
    OBVIOUS
  <2>. QED  BY <2>1
<1>2. d * c \in Nat
  OBVIOUS
<1>3. 4 * a * c = 4 * b * c + 4 * (d * c)
  BY <1>1
<1>4. 4 * b * c \in Int
  OBVIOUS
<1>. QED  BY <1>2, <1>3, <1>4

(* The best raw score of all stored texts, or 1: what FullScore compares to. *)
BestRaw(st, query) == Max({1} \cup {query.raw[st[y].text] : y \in DOMAIN st})

LEMMA BestRawIs ==
    ASSUME NEW st, NEW query \in Query, DOMAIN st \subseteq Points,
           \A x \in DOMAIN st : st[x] \in Doc
    PROVE  /\ BestRaw(st, query) \in Nat \ {0}
           /\ \A y \in DOMAIN st : BestRaw(st, query) >= query.raw[st[y].text]
           /\ \/ BestRaw(st, query) = 1
              \/ \E y \in DOMAIN st : BestRaw(st, query) = query.raw[st[y].text]
<1>. DEFINE raws == {query.raw[st[y].text] : y \in DOMAIN st}
            f    == [y \in DOMAIN st |-> query.raw[st[y].text]]
<1>1. \A y \in DOMAIN st : query.raw[st[y].text] \in Int
  BY DEF Query, Doc
<1>2. f \in Surjection(DOMAIN st, raws)
  BY DEF Surjection
<1>3. IsFiniteSet(raws)
  <2>. HIDE DEF f, raws
  <2>. QED  BY <1>2, StoresAreFinite, FS_Surjection
<1>4. raws \subseteq Int
  BY <1>1
<1>5. \A m \in raws : \E y \in DOMAIN st : m = query.raw[st[y].text]
  OBVIOUS
<1>6. \A y \in DOMAIN st : query.raw[st[y].text] \in raws
  OBVIOUS
<1>7. BestRaw(st, query) = Max({1} \cup raws)
  BY DEF BestRaw
<1>. HIDE DEF raws, f
<1>8. IsFiniteSet({1} \cup raws) /\ {1} \cup raws \subseteq Int
  BY <1>3, <1>4, FS_AddElement
<1>9. PICK m \in {1} \cup raws : \A y \in {1} \cup raws : m >= y
  BY <1>8, FiniteHasMax
<1>10. BestRaw(st, query) = m
  BY <1>7, <1>8, <1>9, MaxIs
<1>11. m \in Int /\ m >= 1
  BY <1>8, <1>9
<1>12. \A y \in DOMAIN st : m >= query.raw[st[y].text]
  BY <1>6, <1>9
<1>13. m = 1 \/ \E y \in DOMAIN st : m = query.raw[st[y].text]
  BY <1>5, <1>9
<1>14. m \in Nat \ {0}
  BY <1>11
<1>. QED  BY <1>10, <1>12, <1>13, <1>14

(* The scores are divided by that very number.                              *)
LEMMA LargestIsBest ==
    ASSUME NEW st, NEW query \in Query, DOMAIN st \subseteq Points,
           \A x \in DOMAIN st : st[x] \in Doc, DOMAIN st # {}
    PROVE  Largest(Corpus(st), query) = BestRaw(st, query)
<1>. DEFINE ids    == get_all(st)
            best   == BestRaw(st, query)
            raw(y) == query.raw[st[y].text]
            C(y)   == Clamped(query, st[y].text)
            S      == {0} \cup {Clamped(query, Corpus(st)[j]) : j \in DOMAIN Corpus(st)}
<1>1. \A y \in DOMAIN st : raw(y) \in Int /\ C(y) = IF raw(y) > 0 THEN raw(y) ELSE 0
  <2>1. \A y \in DOMAIN st : st[y].text \in Texts
    BY DEF Doc
  <2>. QED  BY <2>1, ClampedIs DEF Query
<1>2. Corpus(st) = [j \in DOMAIN ids |-> st[ids[j]].text]
  BY DEF Corpus
<1>3. \A j \in DOMAIN ids : ids[j] \in DOMAIN st
  <2>1. ids \in Seq(DOMAIN st)
    BY GetAll
  <2>. HIDE DEF ids
  <2>. QED  BY <2>1
<1>4. \A y \in DOMAIN st : \E j \in DOMAIN ids : ids[j] = y
  BY StoredIsScrolled
<1>. HIDE DEF ids
<1>5. \A s \in S : s = 0 \/ \E y \in DOMAIN st : s = C(y)
  BY <1>2, <1>3
<1>6. \A y \in DOMAIN st : C(y) \in S
  BY <1>2, <1>4
<1>7. 0 \in S
  OBVIOUS
<1>8. Largest(Corpus(st), query) = IF Max(S) = 0 THEN 1 ELSE Max(S)
  BY DEF Largest
<1>9. /\ best \in Nat \ {0}
      /\ \A y \in DOMAIN st : best >= raw(y)
      /\ best = 1 \/ \E y \in DOMAIN st : best = raw(y)
  BY BestRawIs
<1>. HIDE DEF S, C, raw, best
<1>10. S \subseteq Int /\ \A s \in S : best >= s
  BY <1>1, <1>5, <1>9
<1>11. CASE \E y \in DOMAIN st : raw(y) > 0
  <2>1. PICK y \in DOMAIN st : best = raw(y)
    <3>1. PICK z \in DOMAIN st : raw(z) > 0
      BY <1>11
    <3>2. best = 1 => best = raw(z)
      BY <1>1, <1>9, <3>1
    <3>. QED  BY <1>9, <3>2
  <2>2. best \in S
    BY <1>1, <1>6, <1>9, <2>1
  <2>3. Max(S) = best
    BY <1>10, <2>2, MaxIs
  <2>. QED  BY <1>8, <1>9, <2>3 DEF best
<1>12. CASE \A y \in DOMAIN st : ~(raw(y) > 0)
  <2>1. \A s \in S : s = 0
    BY <1>1, <1>5, <1>12
  <2>2. Max(S) = 0
    <3>1. \A s \in S : 0 >= s
      BY <2>1
    <3>. QED  BY <1>7, <1>10, <3>1, MaxIs
  <2>3. best = 1
    BY <1>1, <1>9, <1>12
  <2>. QED  BY <1>8, <2>2, <2>3 DEF best
<1>. QED  BY <1>11, <1>12

(* Every stored point gets the score of its own text.                       *)
LEMMA SparseIs ==
    ASSUME NEW st, NEW query, DOMAIN st \subseteq Points, DOMAIN st # {}
    PROVE  /\ DOMAIN Sparse(st, Corpus(st), query) = DOMAIN st
           /\ \A x \in DOMAIN st :
                 Sparse(st, Corpus(st), query)[x] = Clamped(query, st[x].text)
<1>. DEFINE ids   == get_all(st)
            words == Corpus(st)
            n     == Min({Len(ids), Len(words)})
            at(x) == CHOOSE j \in 1..n : ids[j] = x
<1>1. ids \in Seq(DOMAIN st)
  BY GetAll
<1>2. \A y \in DOMAIN st : \E j \in DOMAIN ids : ids[j] = y
  BY StoredIsScrolled
<1>3. words = [j \in DOMAIN ids |-> st[ids[j]].text]
  BY DEF Corpus
<1>4. Sparse(st, words, query) =
        [x \in {y \in DOMAIN st : \E j \in 1..n : ids[j] = y} |->
            Clamped(query, words[at(x)])]
  BY DEF Sparse
<1>. HIDE DEF ids, words
<1>5. DOMAIN ids = 1..Len(ids) /\ Len(ids) \in Nat /\ Len(words) = Len(ids)
  <2>1. DOMAIN ids = 1..Len(ids) /\ Len(ids) \in Nat
    BY <1>1
  <2>2. DOMAIN words = 1..Len(ids) /\ words \in Seq({words[j] : j \in 1..Len(ids)})
    BY <1>3, <2>1
  <2>. QED  BY <2>1, <2>2
<1>6. n = Len(ids)
  BY <1>5 DEF Min
<1>. HIDE DEF n, at
<1>7. {y \in DOMAIN st : \E j \in 1..n : ids[j] = y} = DOMAIN st
  BY <1>2, <1>5, <1>6
<1>8. ASSUME NEW x \in DOMAIN st
      PROVE  words[at(x)] = st[x].text
  <2>1. at(x) \in 1..n /\ ids[at(x)] = x
    BY <1>2, <1>5, <1>6 DEF at
  <2>. QED  BY <1>3, <1>5, <1>6, <2>1
<1>. QED  BY <1>4, <1>7, <1>8 DEF words

(***************************************************************************)
(* What _fuse_scores compares is FullScore, for every point retrieved by   *)
(* its similarity; another one's similarity counts as 0.                   *)
(***************************************************************************)
LEMMA BestIsBest ==
    ASSUME TypeOK, WordsMatchStore, NEW query \in Query,
           NEW x \in Matches(store, bm25, query), NEW y \in DOMAIN store, Near(query, y),
           ~(~Near(query, x) /\ query.dense[store[x].text] < 0)
    PROVE  FullScore(query, x) >= FullScore(query, y)
<1>. DEFINE best == BestRaw(store, query)
            d(z) == query.dense[store[z].text]
            w(z) == Clamped(query, store[z].text)
<1>1. /\ DOMAIN store \subseteq Points
      /\ \A z \in DOMAIN store : store[z] \in Doc
      /\ x \in DOMAIN store
  BY MatchesAreStored DEF TypeOK
<1>2. PICK S \in DenseIds(store, query) : x \in Best(Fused(store, bm25, query, S))
  BY DEF Matches
<1>3. S \subseteq DOMAIN store /\ y \in S
  BY <1>1, NearIsRetrieved DEF DenseIds
<1>4. x \in S \/ d(x) >= 0
  <2>1. x \in S \/ ~Near(query, x)
    BY <1>1, NearIsRetrieved
  <2>2. d(x) \in Int
    <3>1. store[x].text \in Texts
      BY <1>1 DEF Doc
    <3>. QED  BY <3>1, SkillRAGAssumption DEF Query
  <2>. QED  BY <2>1, <2>2
<1>. DEFINE F == Fused(store, bm25, query, S)
<1>5. x \in DOMAIN F /\ \A z \in DOMAIN F : F[x] >= F[z]
  BY <1>2 DEF Best
<1>6. best \in Nat \ {0}
  BY <1>1, BestRawIs
<1>7. \A z \in DOMAIN store : d(z) \in Int /\ w(z) \in Nat
  <2>1. \A z \in DOMAIN store : store[z].text \in Texts
    BY <1>1 DEF Doc
  <2>2. \A t \in Texts : query.dense[t] \in Int /\ query.raw[t] \in Int
    BY SkillRAGAssumption DEF Query
  <2>3. \A t \in Texts : Clamped(query, t) \in Nat
    BY <2>2, ClampedIs
  <2>. QED  BY <2>1, <2>2, <2>3
<1>8. \A z \in DOMAIN store : FullScore(query, z) =
         4 * d(z) * best + (IF bm25 = <<>> THEN 0 ELSE w(z)) * Unit
  BY DEF FullScore, BestRaw, Clamped
<1>9. CASE bm25 = <<>>
  <2>1. Largest(bm25, query) = 1
    <3>1. {0} \cup {Clamped(query, bm25[j]) : j \in DOMAIN bm25} = {0}
      BY <1>9
    <3>2. Max({0}) = 0
      BY MaxIs
    <3>. QED  BY <3>1, <3>2 DEF Largest
  <2>2. DOMAIN Sparse(store, bm25, query) = {}
    <3>1. get_all(store) \in Seq(DOMAIN store)
      BY GetAll
    <3>2. Len(get_all(store)) \in Nat /\ Len(bm25) = 0
      BY <1>9, <3>1
    <3>3. Min({Len(get_all(store)), Len(bm25)}) = 0
      BY <3>2 DEF Min
    <3>4. \A j : j \notin 1..0
      OBVIOUS
    <3>. QED  BY <3>3, <3>4 DEF Sparse
  <2>3. DOMAIN F = S /\ \A z \in S : F[z] = 4 * d(z) * 1 + 0 * Unit
    BY <2>1, <2>2 DEF Fused
  <2>. HIDE DEF F, d, best, w
  <2>4. d(x) >= d(y)
    <3>1. F[x] >= F[y] /\ F[x] = 4 * d(x) * 1 + 0 * Unit /\ F[y] = 4 * d(y) * 1 + 0 * Unit
      BY <1>3, <1>5, <2>3
    <3>. QED  BY <1>1, <1>7, <3>1, SkillRAGAssumption
  <2>5. 4 * d(x) * best >= 4 * d(y) * best
    BY <1>1, <1>6, <1>7, <2>4, MonotoneScore
  <2>6. \A z \in DOMAIN store : FullScore(query, z) = 4 * d(z) * best
    BY <1>6, <1>7, <1>8, <1>9, SkillRAGAssumption
  <2>. QED  BY <1>1, <2>5, <2>6
<1>10. CASE bm25 # <<>>
  <2>1. bm25 = Corpus(store) /\ DOMAIN store # {}
    BY <1>1, <1>10 DEF WordsMatchStore
  <2>2. Largest(bm25, query) = best
    BY <1>1, <2>1, LargestIsBest
  <2>3. /\ DOMAIN Sparse(store, bm25, query) = DOMAIN store
        /\ \A z \in DOMAIN store : Sparse(store, bm25, query)[z] = w(z)
    BY <1>1, <2>1, SparseIs
  <2>4. \A z \in DOMAIN store : z \in DOMAIN F
          /\ F[z] = 4 * (IF z \in S THEN d(z) ELSE 0) * best + w(z) * Unit
    BY <1>3, <2>2, <2>3 DEF Fused
  <2>. HIDE DEF F, d, best, w
  <2>5. F[y] = FullScore(query, y)
    BY <1>3, <1>8, <1>10, <2>4
  <2>6. F[x] <= FullScore(query, x)
    <3>1. CASE x \in S
      <4>1. F[x] = FullScore(query, x)
        BY <1>1, <1>8, <1>10, <2>4, <3>1
      <4>2. w(x) * Unit \in Int /\ 4 * d(x) * best \in Int
        BY <1>1, <1>6, <1>7, SkillRAGAssumption
      <4>. QED  BY <1>1, <1>8, <1>10, <4>1, <4>2
    <3>2. CASE x \notin S
      <4>1. F[x] = 4 * 0 * best + w(x) * Unit
        BY <1>1, <2>4, <3>2
      <4>2. 4 * d(x) * best >= 4 * 0 * best
        BY <1>1, <1>4, <1>6, <1>7, <3>2, MonotoneScore
      <4>3. w(x) * Unit \in Int /\ 4 * d(x) * best \in Int /\ 4 * 0 * best \in Int
        BY <1>1, <1>6, <1>7, SkillRAGAssumption
      <4>4. FullScore(query, x) = 4 * d(x) * best + w(x) * Unit
        BY <1>1, <1>8, <1>10
      <4>. QED  BY <4>1, <4>2, <4>3, <4>4
    <3>. QED  BY <3>1, <3>2
  <2>7. F[x] >= F[y]
    BY <1>5, <2>4
  <2>8. F[x] \in Int /\ F[y] \in Int /\ FullScore(query, x) \in Int
    <3>1. \A z \in DOMAIN store : w(z) * Unit \in Int /\ 4 * d(z) * best \in Int
                                /\ 4 * 0 * best \in Int
      BY <1>6, <1>7, SkillRAGAssumption
    <3>2. \A z \in DOMAIN store : F[z] \in Int
      BY <2>4, <3>1
    <3>. QED  BY <1>1, <1>8, <1>10, <3>1, <3>2
  <2>. QED  BY <2>5, <2>6, <2>7, <2>8
<1>. QED  BY <1>9, <1>10

BestInv == IndexInv /\ BestIsMatched

LEMMA StepBest ==
    ASSUME UniqueNames, OwnPoints, BestInv, [Next]_vars
    PROVE  BestInv'
<1>1. IndexInv'
  BY StepIndex DEF BestInv
<1>2. SUFFICES ASSUME call' # NoCall PROVE BestIsMatched'
  BY <1>1 DEF BestInv, BestIsMatched
<1>3. ASSUME Invoke PROVE BestIsMatched'
  <2>1. PICK query \in Queries : \E x \in Matches(store, bm25, query) :
           call' = [query |-> query, point |-> x,
                    agent |-> Min(Configured(store[x].server)),
                    entry |-> agent_cards[store[x].server]]
    BY <1>3 DEF Invoke
  <2>2. PICK x \in Matches(store, bm25, query) :
           call' = [query |-> query, point |-> x,
                    agent |-> Min(Configured(store[x].server)),
                    entry |-> agent_cards[store[x].server]]
    BY <2>1
  <2>3. call'.query = query /\ call'.point = x
    BY <2>2
  <2>4. store' = store /\ bm25' = bm25
    BY <1>3 DEF Invoke, index
  <2>5. query \in Query
    BY DiscoveryAssumption
  <2>6. \A y \in DOMAIN store : Near(query, y) =>
           \/ ~Near(query, x) /\ query.dense[store[x].text] < 0
           \/ FullScore(query, x) >= FullScore(query, y)
    BY <2>5, BestIsBest DEF BestInv, IndexInv
  <2>. QED  BY <2>3, <2>4, <2>6 DEF BestIsMatched, FullScore, Near
<1>4. ASSUME UNCHANGED <<store, bm25, call>> PROVE BestIsMatched'
  BY <1>2, <1>4 DEF BestInv, BestIsMatched, FullScore, Near
<1>5. ~Discovering
  <2>1. Discovering => call = NoCall
    BY DEF BestInv, IndexInv, Discovering
  <2>2. Discovering => call' = call
    BY <2>1 DEF Next, vars, FetchFails, EncodeFails, Discover, Discovering, Serve, Invoke,
            Refuse, Return
  <2>. QED  BY <1>2, <2>1, <2>2
<1>6. CASE Serve \/ Refuse \/ UNCHANGED vars
  BY <1>4, <1>6 DEF Serve, Refuse, vars, index
<1>7. ~Return
  BY <1>2 DEF Return
<1>. QED  BY <1>3, <1>5, <1>6, <1>7 DEF Next, FetchFails, EncodeFails, Discover

(***************************************************************************)
(* As long as no two agents share a name or a point, each call goes to a   *)
(* skill that none of the top_k most similar ones outdoes in the weighted  *)
(* sum of similarity and normalised words, however discovery went and      *)
(* however many skills there are (agent_rag.py:300-397).                   *)
(***************************************************************************)
THEOREM CallsGoToTheBest ==
    ASSUME UniqueNames, OwnPoints
    PROVE  Spec => []BestIsMatched
<1>1. Init => BestInv
  BY InitIndex DEF BestInv, Init, BestIsMatched
<1>2. BestInv /\ [Next]_vars => BestInv'
  BY StepBest
<1>3. BestInv => BestIsMatched
  BY DEF BestInv
<1>. QED  BY <1>1, <1>2, <1>3, PTL DEF Spec
=============================================================================
