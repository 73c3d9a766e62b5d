------------------------------ MODULE SkillRAG ------------------------------
(***************************************************************************)
(* The index of agent skills (AgentSkillRAG, app/services/agent_rag.py) as *)
(* operators on its two halves: the vector store and the BM25 index.  What *)
(* embeddings and BM25 compute is a parameter of a query: a similarity and *)
(* a raw score for every text.                                             *)
(***************************************************************************)
EXTENDS Integers, Sequences, FiniteSetsExt

CONSTANTS
    ServerNames,  \* the strings that name agents
    SkillIds,     \* the ids that skills have in agent cards
    Texts,        \* name and description of a skill, as one text
    Worded,       \* the texts _tokenize leaves a token of
    PointId,      \* the point of an agent's skill: a hash of <name>::<id>
    Scroll,       \* all points in the order in which the store scrolls them
    top_k,
    Unit          \* a similarity of 1.0, in the integers used for it

(* Two skills may have one point: a name or an id may contain the "::".     *)
Points == {PointId[c] : c \in ServerNames \X SkillIds}

Skill == [id : SkillIds, text : Texts]
Doc   == [server : ServerNames, id : SkillIds, text : Texts]

(* What a query makes of each text: cosine similarity and raw BM25 score.   *)
Query == [dense : [Texts -> (-Unit)..Unit], raw : [Texts -> Int]]

ASSUME SkillRAGAssumption ==
    /\ Worded \subseteq Texts
    /\ DOMAIN PointId = ServerNames \X SkillIds
    /\ Scroll \in Seq(Points)
    /\ \A x \in Points : \E i \in DOMAIN Scroll : Scroll[i] = x
    /\ top_k \in Nat \ {0} /\ Unit \in Nat \ {0}
-----------------------------------------------------------------------------
(* populate: one point per skill; of two skills with one point the later.     *)
Documents(server, skills) ==
    [x \in {PointId[server, skills[i].id] : i \in DOMAIN skills} |->
        LET last == Max({i \in DOMAIN skills : PointId[server, skills[i].id] = x})
        IN  [server |-> server, id |-> skills[last].id, text |-> skills[last].text]]

(* A point with a known id replaces what the store had for it.              *)
upsert(store, docs) ==
    [x \in DOMAIN store \cup DOMAIN docs |->
        IF x \in DOMAIN docs THEN docs[x] ELSE store[x]]

(* The ids of the store in scroll order: the nth is the nth that is kept.   *)
get_all(store) ==
    LET kept    == {i \in DOMAIN Scroll : Scroll[i] \in DOMAIN store}
        rank(i) == Cardinality({j \in kept : j <= i})
    IN  [n \in 1..Cardinality(kept) |-> Scroll[CHOOSE i \in kept : rank(i) = n]]

(* The texts of _rebuild_bm25; without any, the index is None in the code.  *)
Corpus(store) ==
    LET ids == get_all(store)
    IN  IF DOMAIN store = {} THEN <<>> ELSE [j \in DOMAIN ids |-> store[ids[j]].text]

(* BM25Okapi divides by the number of different tokens of its corpus.       *)
Builds(store) ==
    DOMAIN store = {} \/ \E x \in DOMAIN store : store[x].text \in Worded
-----------------------------------------------------------------------------
(* _dense_scores: the top_k points by similarity; which of equals is open.  *)
DenseIds(store, query) ==
    LET score(x) == query.dense[store[x].text]
    IN  {S \in SUBSET DOMAIN store :
           /\ Cardinality(S) = Min({top_k, Cardinality(DOMAIN store)})
           /\ \A x \in S, y \in DOMAIN store \ S : score(x) >= score(y)}

Clamped(query, text) == Max({0, query.raw[text]})

(* Mutant of Largest: the scores are not normalised.                        *)
LargestIsOne(bm25, query) == 1

(* The largest clamped score, 1 if there is none above 0.                   *)
Largest(bm25, query) ==
    LET mx == Max({0} \cup {Clamped(query, bm25[j]) : j \in DOMAIN bm25})
    IN  IF mx = 0 THEN 1 ELSE mx

(* _sparse_scores: zip pairs the scores of the corpus with the ids of the   *)
(* store by position.  In units of 1/Largest.                               *)
Sparse(store, bm25, query) ==
    LET ids   == get_all(store)
        n     == Min({Len(ids), Len(bm25)})
        at(x) == CHOOSE j \in 1..n : ids[j] = x
    IN  [x \in {y \in DOMAIN store : \E j \in 1..n : ids[j] = y} |->
            Clamped(query, bm25[at(x)])]

(***************************************************************************)
(* _fuse_scores: 0.8 of the similarity plus 0.2 of the normalised score, a *)
(* missing one counts 0; in units of 1 / (5 * Unit * Largest), so that every *)
(* comparison is one of integers.                                          *)
(***************************************************************************)
Fused(store, bm25, query, retrieved) ==
    LET sparse == Sparse(store, bm25, query)
        d(x) == IF x \in retrieved THEN query.dense[store[x].text] ELSE 0
        s(x) == IF x \in DOMAIN sparse THEN sparse[x] ELSE 0
    IN  [x \in retrieved \cup DOMAIN sparse |->
            4 * d(x) * Largest(bm25, query) + s(x) * Unit]

Best(score) == {x \in DOMAIN score : \A y \in DOMAIN score : score[x] >= score[y]}

(* match: sorting a dictionary of a set leaves open which of equals is first. *)
Matches(store, bm25, query) ==
    UNION {Best(Fused(store, bm25, query, S)) : S \in DenseIds(store, query)}
=============================================================================
