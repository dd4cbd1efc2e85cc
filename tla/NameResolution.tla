--------------------------- MODULE NameResolution ---------------------------
(***************************************************************************)
(* From a name in the source text to a symbol of the project: registry.c   *)
(* and lsp_resolve.h.                                                       *)
(*                                                                         *)
(* A name is a sequence of segments, whichever separator it was written    *)
(* with.  The registry is the sequence of symbols in the order they were   *)
(* added.  Of a confidence only what it is compared with is kept.          *)
(***************************************************************************)
EXTENDS GraphBuffer

CONSTANTS
    TestWords,    \* segments that mark a test, mock or fixture
    Builtins      \* names of Perl's core functions

NoName      == <<>>
Unresolved  == [qn |-> NoName, strategy |-> "none", candidates |-> 0]
Found(q, s, n) == [qn |-> q, strategy |-> s, candidates |-> n]
OrElse(r, next) == IF r = Unresolved THEN next ELSE r

\* Exact names win over later ones of the same name.
Registered(reg) == {reg[i].qn : i \in DOMAIN reg}
Register(reg, q, label) ==
    IF q \in Registered(reg) THEN reg ELSE Append(reg, [qn |-> q, label |-> label])
RegisteredLabel(reg, q) ==
    IF q \in Registered(reg) THEN reg[SelectInSeq(reg, LAMBDA r : r.qn = q)].label ELSE "none"

\* The index by simple name.
Candidates(reg, name) ==
    LET hits == SelectSeq(reg, LAMBDA r : Last(r.qn) = name)
    IN [i \in DOMAIN hits |-> hits[i].qn]

CommonPrefix(a, b) == Len(LongestCommonPrefix({a, b}))

IsTest(q) == ToSet(q) \cap TestWords # {}

Score(q, mod) == CommonPrefix(q, mod) + (IF IsTest(q) THEN 0 ELSE 1000)

\* The first candidate with the best score.
Nearest(cands, mod) ==
    cands[CHOOSE i \in DOMAIN cands :
            /\ \A j \in DOMAIN cands : Score(cands[j], mod) <= Score(cands[i], mod)
            /\ \A j \in 1 .. i - 1 : Score(cands[j], mod) < Score(cands[i], mod)]

\* The module of q contains, or is contained in, something imported.
Reachable(q, imports) ==
    \E i \in DOMAIN imports : \/ Occurs(Front(q), imports[i].to)
                              \/ Occurs(imports[i].to, Front(q))

-----------------------------------------------------------------------------
(* Strategies, in the order cbm_registry_resolve tries them.                *)

\* What a local name was imported as.  A run of the parallel path looks in a
\* hash table, where the last of two equal names stays; the other path scans.
Imported(imports, local, hashed) ==
    LET p == IF hashed THEN SelectLastInSeq(imports, LAMBDA m : m.local = local)
                       ELSE SelectInSeq(imports, LAMBDA m : m.local = local)
    IN IF p = 0 THEN NoName ELSE imports[p].to

\* In what was imported, or somewhere below it.
InImport(reg, to, rest, qualified) ==
    LET below(q) == Len(q) > Len(to \o rest) /\ IsPrefix(to, q) /\ IsSuffix(rest, q)
        first(under) == IF under = <<>> THEN Unresolved ELSE Found(Head(under), "import_map_suffix", 1)
    IN CASE to = NoName                        -> Unresolved
         [] to \o rest \in Registered(reg)     -> Found(to \o rest, "import_map", 1)
         [] qualified                          -> first(SelectSeq(Candidates(reg, Last(rest)), below))
         [] OTHER                              -> Unresolved

ByImport(reg, callee, imports, hashed) ==
    InImport(reg, Imported(imports, Head(callee), hashed),
             IF Len(callee) > 1 THEN Tail(callee) ELSE callee, Len(callee) > 1)

BySameModule(reg, callee, mod) ==
    IF mod \o callee \in Registered(reg) THEN Found(mod \o callee, "same_module", 1)
    ELSE IF Len(callee) > 1 /\ mod \o Tail(callee) \in Registered(reg)
    THEN Found(mod \o Tail(callee), "same_module", 1)
    ELSE Unresolved

\* The only candidate whose name ends in a qualified callee.
ByTail(cands, callee) ==
    LET hits == SelectSeq(cands, LAMBDA q : IsSuffix(callee, q))
    IN IF Len(callee) > 1 /\ Len(hits) = 1 THEN hits[1] ELSE NoName

AmongMany(cands, mod, imports) ==
    LET near == SelectSeq(cands, LAMBDA q : Reachable(q, imports))
    IN CASE Len(near) = 1 -> Found(near[1], "suffix_match", Len(cands))
         [] Len(near) > 1 -> Found(Nearest(near, mod), "suffix_match", Len(near))
         [] OTHER         -> Found(Nearest(cands, mod), "suffix_match", Len(cands))

MaxCandidates == 256      \* REG_MAX_CANDIDATES

Chosen(cands, callee, mod, imports) ==
    CASE Len(cands) \notin 1 .. MaxCandidates -> Unresolved
      [] Len(cands) = 1 -> Found(cands[1], "unique_name", 1)
      [] Len(cands) > 1 /\ ByTail(cands, callee) # NoName ->
           Found(ByTail(cands, callee), "qualified_suffix", 1)
      [] OTHER -> IF imports # <<>> THEN AmongMany(cands, mod, imports)
                  ELSE Found(Nearest(cands, mod), "suffix_match", Len(cands))

ByLookup(reg, callee, mod, imports) == Chosen(Candidates(reg, Last(callee)), callee, mod, imports)

\* cbm_registry_resolve.
Resolve(reg, callee, mod, imports, hashed) ==
    OrElse(ByImport(reg, callee, imports, hashed),
           OrElse(BySameModule(reg, callee, mod), ByLookup(reg, callee, mod, imports)))

TypeLike == {"Class", "Struct", "Interface", "Enum", "Type", "Trait"}

\* resolve_as_class: only a type may be inherited from.
ResolveType(reg, name, mod, imports, hashed) ==
    LET r == Resolve(reg, name, mod, imports, hashed)
    IN IF RegisteredLabel(reg, r.qn) \in TypeLike THEN r.qn ELSE NoName

\* A weak match of a Perl method or builtin is noise.
PerlNoise(lang, method, callee, strategy) ==
    /\ lang = "perl" /\ (method \/ (Len(callee) = 1 /\ callee[1] \in Builtins))
    /\ strategy \notin {"none", "same_module", "import_map", "import_map_suffix"}

-----------------------------------------------------------------------------
(* Calls a language server resolved: [fn, to, sure], `sure' its confidence.  *)

Floor == 6      \* CBM_LSP_CONFIDENCE_FLOOR, in tenths
AllowTail(lang) == lang \in {"java", "kotlin"}
Tail2(q) == IF Len(q) < 2 THEN NoName ELSE SubSeq(q, Len(q) - 1, Len(q))

\* cbm_pipeline_find_lsp_resolution: the surest answer for the caller and the
\* last segment, else, where files are classes, the only one by tails.
LspAnswer(lsp, call, lang) ==
    LET sure(r)  == r.sure >= Floor /\ Last(r.to) = Last(call.callee)
        exact    == SelectSeq(lsp, LAMBDA r : sure(r) /\ r.fn = call.fn)
        tails    == SelectSeq(lsp, LAMBDA r : sure(r) /\ Tail2(r.fn) = Tail2(call.fn))
        best     == CHOOSE i \in DOMAIN exact :
                       /\ \A j \in DOMAIN exact : exact[j].sure <= exact[i].sure
                       /\ \A j \in 1 .. i - 1 : exact[j].sure < exact[i].sure
    IN IF call.fn = NoName THEN NoName
       ELSE IF exact # <<>> THEN exact[best].to
       ELSE IF AllowTail(lang) /\ Tail2(call.fn) # NoName /\ Len(tails) = 1 THEN tails[1].to
       ELSE NoName

\* cbm_pipeline_lsp_target_node: as given, under the project, or by its tail.
LspTarget(g, project, q, lang) ==
    LET named == SelectSeq(ByName(g, Last(q)),
                           LAMBDA n : /\ n.label \in {"Function", "Method"}
                                      /\ Tail2(n.qn) = Tail2(q))
    IN IF Has(g, q) THEN q
       ELSE IF Head(q) # project /\ Has(g, <<project>> \o q) THEN <<project>> \o q
       ELSE IF AllowTail(lang) /\ Tail2(q) # NoName /\ Len(named) = 1 THEN named[1].qn
       ELSE NoName

============================================================================
