----------------------------- MODULE Discovery ------------------------------
(***************************************************************************)
(* discover_agents at start-up (app/services/agent_rag.py) and the lookups *)
(* _invoke_agent makes of what it left (app/services/orchestrator.py).     *)
(* Discovery runs before the service serves: one agent after the other, an *)
(* exception of one leaves the others alone.                               *)
(***************************************************************************)
EXTENDS SkillRAG

CONSTANTS
    Agents,     \* cfg.agents: the configured names, in the order of the YAML file
    Cards,      \* the cards an agent may serve
    Queries,    \* what operations may look like to the index

    NoCard,     \* what agent_cards holds for a name without a card
    NoCall

VARIABLES
    next,        \* the agent discover_agents is at
    agent_cards, \* cfg.agent_cards: by name, whose card it is and the card
    store, bm25, \* the two halves of the index
    skill_rag,   \* cfg.skill_rag: whether there is an index
    serving,     \* lifespan has got past discovery
    call         \* an agent call: its operation, and what it is made with

index == <<store, bm25>>

vars == <<next, agent_cards, store, bm25, skill_rag, serving, call>>

Card == [name : ServerNames, skills : Seq(Skill)]

Entry == [of : DOMAIN Agents, card : Card]

Call == [query : Query, point : Points, agent : DOMAIN Agents, entry : Entry]

ASSUME DiscoveryAssumption ==
    /\ Agents \in Seq(ServerNames)
    /\ Cards \subseteq Card
    /\ Queries \subseteq Query
    /\ NoCard \notin Entry /\ NoCall \notin Call

Init ==
    /\ next = 1
    /\ agent_cards = [name \in ServerNames |-> NoCard]
    /\ store = <<>>
    /\ bm25 = <<>>
    /\ skill_rag = FALSE
    /\ serving = FALSE
    /\ call = NoCall

Discovering == ~serving /\ next \in DOMAIN Agents
-----------------------------------------------------------------------------
(* Mutant of Cached: the name is taken from the card.                       *)
CachedByCardName(card) ==
    agent_cards' = [agent_cards EXCEPT ![card.name] = [of |-> next, card |-> card]]

(* A card is kept under the name the agent is configured with.              *)
Cached(card) ==
    agent_cards' = [agent_cards EXCEPT ![Agents[next]] = [of |-> next, card |-> card]]

(* fetch_agent_card raised, after its retries: the agent is left out.       *)
FetchFails ==
    /\ Discovering
    /\ next' = next + 1
    /\ UNCHANGED <<agent_cards, index, skill_rag, serving, call>>

(* The card is cached, then embedding one of its skills raised.             *)
EncodeFails ==
    /\ Discovering
    /\ \E card \in Cards : card.skills # <<>> /\ Cached(card)
    /\ next' = next + 1
    /\ UNCHANGED <<index, skill_rag, serving, call>>

(* Mutant of Populate: the index of words is built of the new skills only.  *)
PopulateNewOnly(card) ==
    LET docs == Documents(Agents[next], card.skills)
    IN  /\ store' = upsert(store, docs)
        /\ bm25' = IF Builds(docs) THEN Corpus(docs) ELSE bm25

(***************************************************************************)
(* The skills are stored, then the index of words is rebuilt of all of     *)
(* them.  If BM25Okapi raises, the old index stays and the turn of this    *)
(* agent is over: its card and its points are kept.                        *)
(***************************************************************************)
Populate(card) ==
    LET full == upsert(store, Documents(Agents[next], card.skills))
    IN  /\ store' = full
        /\ bm25' = IF Builds(full) THEN Corpus(full) ELSE bm25

(* Mutant of Discover: a card is cached once its skills are indexed.        *)
DiscoverIndexFirst ==
    /\ Discovering
    /\ \E card \in Cards :
          /\ Populate(card)
          /\ IF Builds(store') THEN Cached(card) ELSE UNCHANGED agent_cards
    /\ next' = next + 1
    /\ UNCHANGED <<skill_rag, serving, call>>

Discover ==
    /\ Discovering
    /\ \E card \in Cards : Cached(card) /\ Populate(card)
    /\ next' = next + 1
    /\ UNCHANGED <<skill_rag, serving, call>>

(* The index is returned, however many agents have failed.                  *)
Serve ==
    /\ ~serving
    /\ next = Len(Agents) + 1
    /\ skill_rag' = (Agents # <<>>)
    /\ serving' = TRUE
    /\ UNCHANGED <<next, agent_cards, index, call>>
-----------------------------------------------------------------------------
(* The agents configured with the name.                                     *)
Configured(name) == {i \in DOMAIN Agents : Agents[i] = name}

Callable(name) == Configured(name) # {} /\ agent_cards[name] # NoCard

(***************************************************************************)
(* The operation of a phase is matched with an agent and a skill; the      *)
(* first agent of the name gives the headers and the timeout.              *)
(***************************************************************************)
Invoke ==
    /\ serving /\ skill_rag
    /\ call = NoCall
    /\ \E query \in Queries : \E x \in Matches(store, bm25, query) :
          LET name == store[x].server
          IN  /\ Callable(name)
              /\ call' = [query |-> query, point |-> x, agent |-> Min(Configured(name)),
                          entry |-> agent_cards[name]]
    /\ UNCHANGED <<next, agent_cards, index, skill_rag, serving>>

(* No index, no match, no configuration or no card: an exception, no call.  *)
Refuse ==
    /\ serving /\ call = NoCall
    /\ \/ ~skill_rag
       \/ \E query \in Queries : \/ Matches(store, bm25, query) = {}
                                 \/ \E x \in Matches(store, bm25, query) :
                                       ~Callable(store[x].server)
    /\ UNCHANGED vars

(* send_message has ended.                                                  *)
Return ==
    /\ call # NoCall
    /\ call' = NoCall
    /\ UNCHANGED <<next, agent_cards, index, skill_rag, serving>>

Next == FetchFails \/ EncodeFails \/ Discover \/ Serve \/ Invoke \/ Refuse \/ Return

Spec == Init /\ [][Next]_vars
-----------------------------------------------------------------------------
TypeOK ==
    /\ next \in 1..(Len(Agents) + 1)
    /\ agent_cards \in [ServerNames -> Entry \cup {NoCard}]
    /\ DOMAIN store \subseteq Points
    /\ \A x \in DOMAIN store : store[x] \in Doc
    /\ bm25 \in Seq(Texts)
    /\ skill_rag \in BOOLEAN /\ serving \in BOOLEAN
    /\ call \in Call \cup {NoCall}

UniqueNames == \A i, j \in DOMAIN Agents : Agents[i] = Agents[j] => i = j

(* No two agents have a point in common.                                    *)
OwnPoints ==
    \A m, n \in ServerNames, i, j \in SkillIds : PointId[m, i] = PointId[n, j] => m = n

(***************************************************************************)
(* Whatever fails during discovery, every skill that can be matched leads  *)
(* to a configured agent whose card is cached: the last two exceptions of  *)
(* _invoke_agent cannot happen (orchestrator.py:152-158, agent_rag.py:     *)
(* 415-423: the card is cached before its skills are indexed).             *)
(***************************************************************************)
MatchesAreCallable ==
    \A x \in DOMAIN store : Callable(store[x].server)

(***************************************************************************)
(* A call asks for a skill its agent lists: the card that is used has the  *)
(* matched skill id (orchestrator.py:141-176, agent_rag.py:278-297).       *)
(***************************************************************************)
SkillIsOffered ==
    call # NoCall =>
        \E i \in DOMAIN call.entry.card.skills :
            call.entry.card.skills[i].id = store[call.point].id

(***************************************************************************)
(* A call is made with the headers and the timeout configured for the very *)
(* agent it goes to (models.py:96-99 "each A2A send_message to this        *)
(* agent"; orchestrator.py:152-161).                                       *)
(***************************************************************************)
TimeoutIsOfAgent == call # NoCall => call.agent = call.entry.of

(***************************************************************************)
(* The index of words, if there is one, is that of the texts now stored:   *)
(* _sparse_scores pairs the two by position (agent_rag.py:331-338,         *)
(* 354-360).                                                               *)
(***************************************************************************)
WordsMatchStore == bm25 # <<>> => bm25 = Corpus(store)

(* A text's similarity and its share of the best BM25 score of all stored.  *)
FullScore(query, x) ==
    LET raw(y) == query.raw[store[y].text]
        best   == Max({1} \cup {raw(y) : y \in DOMAIN store})
        words  == IF bm25 = <<>> THEN 0 ELSE Max({0, raw(x)})
    IN  4 * query.dense[store[x].text] * best + words * Unit

(* Even if all skills as similar to the query come first, this one is among *)
(* the top_k.                                                               *)
Near(query, x) ==
    LET d(y) == query.dense[store[y].text]
    IN  Cardinality({y \in DOMAIN store : d(y) >= d(x)}) <= top_k

(***************************************************************************)
(* Of the skills among the top_k most similar to the operation none        *)
(* outdoes the matched one, be that one of them or found by its words only *)
(* (agent_rag.py:303 "the single highest-scoring" pair; 340-397).  One     *)
(* that is found by its words only loses its similarity, which helps it if *)
(* that is negative.                                                       *)
(***************************************************************************)
BestIsMatched ==
    call # NoCall =>
        LET query  == call.query
            spared == /\ ~Near(query, call.point)
                      /\ query.dense[store[call.point].text] < 0
        IN  \A x \in DOMAIN store : Near(query, x) =>
               spared \/ FullScore(query, call.point) >= FullScore(query, x)
-----------------------------------------------------------------------------
(***************************************************************************)
(* With distinct names and points nothing an agent left in the index is    *)
(* touched by a later turn: every point is of an agent whose turn is over  *)
(* and a skill its cached card lists (agent_rag.py:278-297, 412-423).      *)
(***************************************************************************)
StoredIsOffered ==
    \A x \in DOMAIN store :
        LET name == store[x].server
        IN  /\ \E i \in DOMAIN Agents : i < next /\ name = Agents[i]
            /\ \E id \in SkillIds : x = PointId[name, id]
            /\ agent_cards[name] # NoCard
            /\ \E i \in DOMAIN agent_cards[name].card.skills :
                  agent_cards[name].card.skills[i].id = store[x].id

(* Once the index of words was built it can always be built again.          *)
WordsKept == bm25 # <<>> => \E x \in DOMAIN store : store[x].text \in Worded

(***************************************************************************)
(* The inductive invariant: what discovery has done for an agent is never  *)
(* undone by the turn, or the failure, of another, and only a service that *)
(* serves makes calls (agent_rag.py:398-431, orchestrator.py:141-176).     *)
(***************************************************************************)
IndexInv ==
    /\ TypeOK
    /\ StoredIsOffered
    /\ WordsMatchStore
    /\ WordsKept
    /\ SkillIsOffered
    /\ call # NoCall => serving
=============================================================================
