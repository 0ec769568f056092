----------------------------- MODULE StrategyScan -----------------------------
(***************************************************************************)
(* What the platform reads in an uploaded strategy before it runs it       *)
(* (services/strategy_validation/scanning.py, authoring.py) and what the   *)
(* worker finds when it does (engine/strategies/user_loader.py).           *)
(*                                                                         *)
(* A file is a record: whether it parses, the nodes _violation looks at,   *)
(* whether something else in it raises when it is imported, and its body.  *)
(* The body has the class statements ("class" when the module binds the    *)
(* name, "nested" in a function, a class or a branch not taken) and every  *)
(* other statement that binds a name of the module ("bind": an import, an  *)
(* assignment, a def, a del), in the order of ast.walk.  A base, and what  *)
(* a "bind" binds its name to, is a name or any other expression (dotted); *)
(* outer is what it is when no statement of the file binds it: an import,  *)
(* an attribute, a builtin.  A class has the parts the rules read: how     *)
(* OnData is bound, its __init__ and the indicator names it spells as      *)
(* literals.  Lines are numbers, messages are their kinds.                 *)
(***************************************************************************)
EXTENDS Naturals, Sequences, FiniteSets

CONSTANTS
    AllowedRoots,      \* ALLOWED_IMPORT_ROOTS
    BannedNames,       \* BANNED_NAMES
    BannedRoots,       \* BANNED_MODULE_ROOTS
    BannedAttributes,  \* BANNED_ATTRIBUTES
    KnownIndicators,   \* known_indicators(): the classes under engine/indicators
    Reserved,          \* reserved_attributes(): what BasePortfolio binds itself
    Offset,            \* the prelude's lines: the fragment starts after them
    Base               \* BASE_CLASS_NAME

Range1(s) == {s[i] : i \in DOMAIN s}

Last1(S) == CHOOSE i \in S : \A j \in S : j <= i

(* Every ast.ClassDef of the file.                                         *)
Classes(file) == {s \in Range1(file.body) : s.form # "bind"}

----------------------------------------------------------------------------
(* _violation: imports outside the allowlist, relative imports, banned     *)
(* names anywhere, banned attributes and attributes of banned modules.     *)
Violation(n) ==
    \/ n.form = "import" /\ n.root \notin AllowedRoots
    \/ n.form = "from"   /\ (n.level > 0 \/ n.root \notin AllowedRoots)
    \/ n.form = "name"   /\ n.root \in BannedNames
    \/ n.form = "attribute" /\ (n.attr \in BannedAttributes \/ n.root \in BannedRoots)

Refused(file) == {n \in file.nodes : Violation(n)}

(* _extends_base_portfolio: by name, or by the last part of a dotted name. *)
ExtendsBase(c) == \E b \in c.bases : b.id = Base

(* Mutant of SubclassNames: only the classes that name BasePortfolio.      *)
SubclassNames_Direct(file) == {c.name : c \in {d \in Classes(file) : ExtendsBase(d)}}

(* The fixed point of _strategy_class_nodes: names that inherit from       *)
(* BasePortfolio through classes of the same file, in any order.           *)
SubclassNames(file) ==
    LET direct == {c.name : c \in {d \in Classes(file) : ExtendsBase(d)}}
        grow[i \in 0..Len(file.body)] ==
            IF i = 0 THEN direct
            ELSE grow[i - 1] \union
                 {c.name : c \in {d \in Classes(file) :
                                    \E b \in d.bases : ~b.dotted /\ b.id \in grow[i - 1]}}
    IN  grow[Len(file.body)]

(* The indices of the classes that count as strategies, nested ones too.   *)
StrategyClasses(file) ==
    {i \in DOMAIN file.body : /\ file.body[i].form # "bind"
                              /\ file.body[i].name \in SubclassNames(file)}

(* scan_source: syntax, then the first violation, then exactly one class.  *)
Scan(file) ==
    IF ~file.parses THEN [ok |-> FALSE, class |-> "none", why |-> "syntax"]
    ELSE IF Refused(file) # {} THEN [ok |-> FALSE, class |-> "none", why |-> "violation"]
    ELSE IF StrategyClasses(file) = {} THEN [ok |-> FALSE, class |-> "none", why |-> "no class"]
    ELSE IF Cardinality(StrategyClasses(file)) > 1
         THEN [ok |-> FALSE, class |-> "none", why |-> "several classes"]
    ELSE [ok |-> TRUE, why |-> "none",
          class |-> file.body[CHOOSE i \in StrategyClasses(file) : TRUE].name]

----------------------------------------------------------------------------
(* _contract_issues: OnData must be there (an assignment is taken on       *)
(* trust), synchronous and able to receive the context.                    *)
ContractIssues(c) ==
    CASE c.onData = "assigned"   -> {}
      [] c.onData = "misspelled" -> {<<c.dataLine, "misspelled">>}
      [] c.onData = "absent"     -> {<<c.line, "no OnData">>}
      [] OTHER ->
           (IF c.onData = "async" THEN {<<c.dataLine, "async">>} ELSE {})
           \union (IF ~c.vararg /\ c.args < (IF c.static THEN 1 ELSE 2)
                   THEN {<<c.dataLine, "arguments">>} ELSE {})

(* _indicator_issues: literals that name no indicator of the engine.       *)
IndicatorIssues(c) ==
    {<<n[1], "no such indicator">> : n \in {m \in c.indicators : m[2] \notin KnownIndicators}}

(* _contract_warnings: an __init__ that never reaches BasePortfolio's.     *)
ContractWarnings(c) == IF c.init = "no super" THEN {<<c.line, "no super">>} ELSE {}

(* check_compatibility: every problem at once; the verdict is "no issues". *)
(* A set of <<line, kind>> is the list after _deduplicated.                *)
Check(file) ==
    LET S == StrategyClasses(file)
        c == file.body[CHOOSE i \in S : \A j \in S : i <= j]
        second == file.body[CHOOSE i \in S : \E j \in S : j < i]
        shape == CASE S = {} -> {<<0, "no class">>}
                   [] Cardinality(S) > 1 -> {<<second.line, "several classes">>}
                   [] OTHER -> ContractIssues(c) \union IndicatorIssues(c)
        issues == IF file.parses
                  THEN {<<n.line, "violation">> : n \in Refused(file)} \union shape
                  ELSE {<<file.badLine, "syntax">>}
    IN  [ compatible |-> issues = {},
          class      |-> IF file.parses /\ Cardinality(S) = 1 THEN c.name ELSE "none",
          issues     |-> issues,
          warnings   |-> IF file.parses /\ Cardinality(S) = 1 THEN ContractWarnings(c) ELSE {} ]

----------------------------------------------------------------------------
(* The statement that gives a name its value before statement i, or 0: the *)
(* last one that binds it in the module.                                   *)
Bound(file, name, i) ==
    LET S == {j \in 1..(i - 1) : file.body[j].form # "nested" /\ file.body[j].name = name}
    IN  IF S = {} THEN 0 ELSE Last1(S)

(* The statement an expression takes its value from, 0 for none of these.  *)
Source(file, b, i) == IF b.dotted THEN 0 ELSE Bound(file, b.id, i)

Denotes(file, b, i, values) ==
    LET j == Source(file, b, i) IN IF j = 0 THEN b.outer ELSE values[j]

(* What a value is to issubclass and to __module__: BasePortfolio itself,  *)
(* a strategy another module defines, one this module does; otherwise some *)
(* other class of this module ("plain") or of another ("class"), no class  *)
(* ("other"), or nothing, a NameError ("unbound").                         *)
Strategic == {"base", "strategy", "own"}

(* The value every statement gives its name; that of a class is a new one, *)
(* its bases looked up when the statement executes.                        *)
Values(file) ==
    LET values[i \in 0..Len(file.body)] ==
          IF i = 0 THEN [kind |-> "unbound", class |-> "none"]
          ELSE IF file.body[i].form = "bind" THEN Denotes(file, file.body[i].of, i, values)
          ELSE [ class |-> file.body[i].name,
                 kind  |-> IF \E b \in file.body[i].bases :
                                 Denotes(file, b, i, values).kind \in Strategic
                           THEN "own" ELSE "plain" ]
    IN  values

(* The import raises on a name that is bound nowhere, and on a base that   *)
(* is no class.                                                            *)
ImportFails(file) ==
    \/ file.raises
    \/ \E i \in DOMAIN file.body :
          LET s == file.body[i]
              Is(b) == Denotes(file, b, i, Values(file)).kind
          IN  \/ s.form = "class" /\ \E b \in s.bases : Is(b) \in {"other", "unbound"}
              \/ s.form = "bind" /\ Is(s.of) = "unbound"

(* _sole_strategy_class: the variables of the module, each at its last     *)
(* binding, whose value is a strategy this module defines.  They are not   *)
(* deduplicated: a class with two names counts twice.                      *)
Candidates(file) ==
    {i \in DOMAIN file.body :
        /\ file.body[i].form # "nested"
        /\ Bound(file, file.body[i].name, Len(file.body) + 1) = i
        /\ Values(file)[i].kind = "own"}

(* load_user_strategy, once the package is on disk.                        *)
Load(file) ==
    IF ~file.parses \/ ImportFails(file) THEN [ok |-> FALSE, class |-> "none", why |-> "import"]
    ELSE IF Candidates(file) = {} THEN [ok |-> FALSE, class |-> "none", why |-> "no class"]
    ELSE IF Cardinality(Candidates(file)) > 1
         THEN [ok |-> FALSE, class |-> "none", why |-> "several classes"]
    ELSE [ok |-> TRUE, why |-> "none",
          class |-> Values(file)[CHOOSE i \in Candidates(file) : TRUE].class]

----------------------------------------------------------------------------
(* Fragments: an OnData body, indicator rows and state keys.               *)

(* What StrategyDraftRequest's validators let through: attributes that are *)
(* distinct, free of BasePortfolio's names and of the state's, and         *)
(* indicators the engine has.                                              *)
DraftAccepted(d) ==
    /\ \A i, j \in DOMAIN d.rows : i # j => d.rows[i].attribute # d.rows[j].attribute
    /\ \A i \in DOMAIN d.rows : /\ d.rows[i].attribute \notin Reserved \union d.state
                               /\ d.rows[i].indicator \in KnownIndicators
    /\ d.state \intersect Reserved = {}

(* The lines of the prelude: fixed ones and one for every indicator row.   *)
BodyOffset(d) == Offset + Len(d.rows) + 1

ShiftLine(d, line) == line + BodyOffset(d) - 1

(* assemble: the import of BasePortfolio, the generated class, INDICATORS  *)
(* on the prelude's lines, OnData(self, context), and the body indented    *)
(* below it, so every class of the fragment is nested.                     *)
Assemble(d) ==
    LET imported == [ form |-> "bind", name |-> Base,
                      of |-> [id |-> Base, dotted |-> TRUE,
                              outer |-> [kind |-> "base", class |-> Base]] ]
        generated == [ form |-> "class", name |-> "MyStrategy", line |-> 5,
                       bases |-> {[id |-> Base, dotted |-> FALSE,
                                   outer |-> [kind |-> "unbound", class |-> "none"]]},
                       onData |-> "def", dataLine |-> BodyOffset(d) - 1,
                       args |-> 2, vararg |-> FALSE, static |-> FALSE, init |-> "none",
                       indicators |-> {<<8 + i, d.rows[i].indicator>> : i \in DOMAIN d.rows}
                                      \union {<<ShiftLine(d, n[1]), n[2]>> : n \in d.named} ]
        shifted == [i \in DOMAIN d.classes |->
                      [d.classes[i] EXCEPT !.line = ShiftLine(d, @), !.dataLine = ShiftLine(d, @)]]
    IN  [ parses |-> d.parses, badLine |-> ShiftLine(d, d.badLine), raises |-> FALSE,
          nodes |-> {[n EXCEPT !.line = ShiftLine(d, @)] : n \in d.nodes},
          body |-> <<imported, generated>> \o shifted ]

(* _remap: a line of the fragment becomes the member's own; a line outside *)
(* it is reported as the scaffold's fault.                                 *)
Remap(d, issue) ==
    CASE issue[1] = 0 -> issue
      [] issue[1] \in BodyOffset(d)..(BodyOffset(d) + d.lines - 1) ->
           <<issue[1] - BodyOffset(d) + 1, issue[2]>>
      [] OTHER -> <<0, "scaffold">>

(* check_draft, for a draft that stays inside its method (_assert_shape).  *)
CheckDraft(d) ==
    LET report == Check(Assemble(d))
    IN  [report EXCEPT !.issues = {Remap(d, i) : i \in @},
                       !.warnings = {Remap(d, i) : i \in @}]

(* submit_draft: the shape is asserted, the assembled size bounded, and    *)
(* the file goes the way of an upload.                                     *)
SubmitDraft(d, maxLines) ==
    IF d.escapes \/ BodyOffset(d) + d.lines - 1 > maxLines
    THEN [ok |-> FALSE, class |-> "none", why |-> "refused"]
    ELSE Scan(Assemble(d))

----------------------------------------------------------------------------
(* What Python's parser gives: the statements in the order of the file,    *)
(* and every line it names in a draft is a line of the draft.              *)
ClassFields ==
    {"form", "name", "line", "bases", "onData", "dataLine", "args", "vararg", "static",
     "init", "indicators"}

FileRead(file) ==
    /\ file.body \in Seq(Range1(file.body))
    /\ \A s \in Range1(file.body) : s.form \in {"class", "nested", "bind"}

DraftRead(d) ==
    /\ d.classes \in Seq(Range1(d.classes)) /\ d.rows \in Seq(Range1(d.rows))
    /\ d.lines \in Nat /\ d.badLine \in 1..d.lines
    /\ \A c \in Range1(d.classes) : /\ DOMAIN c = ClassFields /\ c.form = "nested"
                                    /\ c.line \in 1..d.lines
    /\ \A n \in d.nodes : "line" \in DOMAIN n /\ n.line \in 1..d.lines
    /\ \A n \in d.named : n[1] \in 1..d.lines

----------------------------------------------------------------------------
(* How the three readings of a file agree.                                 *)

(* The class the scan took is what the module has under its name.          *)
Stays(file, k) ==
    /\ file.body[k].form = "class"
    /\ Bound(file, file.body[k].name, Len(file.body) + 1) = k

(* No base it spells BasePortfolio is a strategy.                          *)
Impostor(file, k) ==
    \A b \in file.body[k].bases :
        b.id = Base => Denotes(file, b, k, Values(file)).kind \notin Strategic

(* A variable that is no class statement holds a strategy of the file.     *)
Aliased(file) ==
    \E i \in Candidates(file) : file.body[i].form = "bind"

(* A class that does not name BasePortfolio extends a strategy that is no  *)
(* class statement of the file: an imported one, or one with another name. *)
Sibling(file) ==
    \E i \in DOMAIN file.body :
        /\ file.body[i].form = "class" /\ ~ExtendsBase(file.body[i])
        /\ \E b \in file.body[i].bases :
              /\ Source(file, b, i) # 0 => file.body[Source(file, b, i)].form = "bind"
              /\ Denotes(file, b, i, Values(file)).kind \in Strategic

(* A file that checks clean is taken, and with the class that was shown;   *)
(* and the worker loads that class of a file that was taken, unless the    *)
(* import fails or what the names stand for is not what they say.          *)
FileAgrees(file) ==
    LET check == Check(file)
        scan  == Scan(file)
        load  == Load(file)
        k     == CHOOSE i \in StrategyClasses(file) : TRUE
    IN  /\ check.compatible => scan.ok /\ scan.class = check.class
        /\ scan.ok => \/ load.ok /\ load.class = scan.class
                      \/ ImportFails(file) \/ ~Stays(file, k) \/ Impostor(file, k)
                      \/ Aliased(file) \/ Sibling(file)

(* A draft that stays in its method, checks clean and is not too long is   *)
(* taken and loads as the class it was wrapped in; and what is wrong with  *)
(* a draft is on a line of the draft.                                      *)
DraftAgrees(d, maxLines) ==
    DraftAccepted(d) =>
        /\ ~d.escapes /\ BodyOffset(d) + d.lines - 1 <= maxLines =>
              (CheckDraft(d).compatible =>
                  /\ SubmitDraft(d, maxLines).ok
                  /\ Load(Assemble(d)).ok /\ Load(Assemble(d)).class = "MyStrategy")
        /\ \A issue \in CheckDraft(d).issues :
              issue[2] # "scaffold" /\ issue[1] \in 1..d.lines
=============================================================================
