SPECIFICATION Spec
CONSTANTS
    n1 = n1
    n2 = n2
    s1 = s1
    s2 = s2
    ServerNames = {n1, n2}
    SkillIds = {s1, s2}
    Texts = {"plain", "other", "wordless"}
    Worded = {"plain", "other"}
    PointId <- MCPointId
    Scroll <- MCScroll
    top_k = 2
    Unit = 2
    Agents <- MCUnique
    Cards <- MCCards
    Queries <- MCQueries
    NoCard = NoCard
    NoCall = NoCall
INVARIANTS
    IndexInv
    MatchesAreCallable
    SkillIsOffered
    TimeoutIsOfAgent
    WordsMatchStore
    BestIsMatched
