--------------------------- MODULE LoggingRedaction ---------------------------
(***************************************************************************)
(* What the logger lets through.  A logged value is a graph: objects and   *)
(* arrays hold other values, may share them and may hold themselves.  The  *)
(* policy walks it: a field with a sensitive name is masked whatever it    *)
(* holds, text is cleaned of what looks like a secret or like personal     *)
(* data, a value met again below itself and a value too deep are cut.      *)
(*                                                                         *)
(* A value is [root |-> n, node |-> [Node -> ...]]; the nodes are          *)
(*   [is |-> "text", parts |-> the kinds of its fragments]                 *)
(*   [is |-> "number"],  [is |-> "error", name |-> ..., holds |-> ...]     *)
(*   [is |-> "object", holds |-> [fields -> Node]]                         *)
(*   [is |-> "array", holds |-> [indices -> Node]]                         *)
(* What is written is the set of the pairs of a path and what stands there.*)
(*                                                                         *)
(* The field names and the fragments stand for the kinds the code tells    *)
(* apart, one of them a secret that the rules for text let through.        *)
(* MAX_SANITIZATION_DEPTH, 5 in the code, is a parameter.                  *)
(***************************************************************************)
EXTENDS Integers, SequencesExt

CONSTANTS
    Node,
    MaxDepth    \* MAX_SANITIZATION_DEPTH

ASSUME DepthAssumption == MaxDepth \in Nat

-----------------------------------------------------------------------------
(* Fields.  "nationalid" is on two lists.                                  *)

FullFields == {"password", "token", "nationalid"}
EmailFields == {"email"}
PhoneFields == {"phone"}
DocumentFields == {"document", "nationalid"}
TextFields == {"notes"}

\* resolveRedactionStrategy: the first list that has the name decides.
Strategy(field) ==
    CASE field \in FullFields -> "full"
      [] field \in EmailFields -> "email"
      [] field \in PhoneFields -> "phone"
      [] field \in DocumentFields \ FullFields -> "document"
      [] field \in TextFields -> "text"
      [] OTHER -> "none"

-----------------------------------------------------------------------------
(* Text.                                                                   *)

Secrets == {"bearer", "secret=", "token="}
Aliased == {"email:", "phone:", "document:", "notes:"}
Bare == {"an email", "a phone", "a document"}
\* Secrets in a form that no rule matches: the name of the field in quotes, as
\* in a text of JSON, stands between the name and the colon of the rule.
Unmatched == {"'secret':"}
Fragments == Secrets \cup Aliased \cup Bare \cup Unmatched \cup {"words", "few digits"}

\* maskEmail, maskPhone, maskDocument, summarizeText: first letters, last
\* digits or the length, which do not tell the text.
Mask == "***"

\* Mutant: the rule for secrets comes with its flag misspelt.
TextWithSecrets(parts) ==
    {IF f \in Aliased \cup Bare THEN Mask ELSE f : f \in parts}

\* sanitizeStringForLogging: secrets, then the values of the known fields,
\* then whatever has the form of personal data; the rest is kept, a secret
\* that no rule matches with it.
CleanText(parts) ==
    {IF f \in Secrets \cup Aliased \cup Bare THEN Mask ELSE f : f \in parts}

\* sanitizeFieldValue, for a field that is not to be read: only text is
\* masked, everything else is replaced.
Masked(strategy, v) ==
    IF strategy = "full" \/ v.is # "text" THEN {"[REDACTED]"} ELSE {Mask}

-----------------------------------------------------------------------------
(* Values.                                                                 *)

\* What can be logged: values hold values, an array under its indices, and
\* errors have names that are no secret.
IsGraph(value) ==
    /\ value.root \in Node
    /\ \A n \in Node :
          LET v == value.node[n]
          IN  /\ v.is \in {"text", "number", "error", "object", "array"}
              /\ v.is \in {"object", "array"} => v.holds \in [DOMAIN v.holds -> Node]
              /\ v.is = "array" => \A k \in DOMAIN v.holds : Strategy(k) = "none"
              /\ v.is = "error" => v.name \notin Secrets \cup Aliased \cup Bare

Leaf(marks) == {[path |-> <<>>, says |-> marks]}
Under(k, lines) == {[l EXCEPT !.path = <<k>> \o @] : l \in lines}

\* sanitizeDirectValue: of an error only the name, the code and the stack are
\* written, not what it holds.
Direct(v) ==
    CASE v.is = "error" -> Leaf({v.name})
      [] v.is = "number" -> Leaf({"number"})
      [] v.is = "text" -> Leaf(CleanText(v.parts))

\* sanitizeValueForLogging
TooDeep(depth) == depth > MaxDepth

\* Mutant: what has been seen anywhere is circular: nothing is taken out of
\* the set again.
BelowAll(value, n, seen) ==
    seen \cup {n} \cup {value.node[n].holds[k] : k \in DOMAIN value.node[n].holds}

\* sanitizeArrayForLogging, sanitizeObjectForLogging: the value is in "seen"
\* while what it holds is walked, and taken out again afterwards.
Below(value, n, seen) == seen \cup {n}

\* sanitizeNestedValue, and what an array does with its items, whose indices
\* mask nothing: "below" is what is written of values that are one deeper.
Nested(value, below, n, seen, k) ==
    LET v == value.node[n]
    IN  IF v.is = "object" /\ Strategy(k) # "none"
          THEN Leaf(Masked(Strategy(k), value.node[v.holds[k]]))
          ELSE below[v.holds[k]][Below(value, n, seen)]

\* sanitizeValueForLogging
Visit(value, below, depth, n, seen) ==
    LET v == value.node[n]
    IN  CASE TooDeep(depth) -> Leaf({"[Truncated]"})
          [] ~TooDeep(depth) /\ v.is \in {"error", "number", "text"} -> Direct(v)
          [] ~TooDeep(depth) /\ v.is \in {"object", "array"} /\ n \in seen ->
                Leaf({"[Circular]"})
          [] OTHER -> UNION {Under(k, Nested(value, below, n, seen, k)) : k \in DOMAIN v.holds}

Visits(value, below, depth) ==
    [n \in Node |-> [seen \in SUBSET Node |-> Visit(value, below, depth, n, seen)]]

Sanitized(value) ==
    LET Walk[depth \in 0..(MaxDepth + 1)] == Visits(value, Walk[depth + 1], depth)
    IN  Walk[0][value.root][{}]

\* BunyanLogger.wrapper: an error is reduced to its name, its code and its
\* stack; anything else is sanitized from depth 0.
Logged(value) ==
    LET v == value.node[value.root]
    IN  IF v.is = "error" THEN Leaf({v.name}) ELSE Sanitized(value)

-----------------------------------------------------------------------------
(* The reference: which places of a value should be readable in the log.   *)

\* w visits the values on the way p leads, from the root.
IsWay(value, p, w) ==
    /\ w[1] = value.root
    /\ \A i \in DOMAIN p :
          /\ value.node[w[i]].is \in {"object", "array"}
          /\ p[i] \in DOMAIN value.node[w[i]].holds
          /\ w[i + 1] = value.node[w[i]].holds[p[i]]

\* No field on the way is sensitive; an index never is.
NamesNothingSensitive(value, p, w) ==
    \A i \in DOMAIN p : value.node[w[i]].is = "object" => Strategy(p[i]) = "none"

WithoutRepetition(w) == \A i, j \in DOMAIN w : w[i] = w[j] => i = j

Fields(value) == UNION {DOMAIN value.node[n].holds :
                          n \in {m \in Node : value.node[m].is \in {"object", "array"}}}

\* The texts that can be reached by fields that are not sensitive, without
\* passing a value twice and not too deep.
ReadableTexts(value) ==
    UNION {{[path |-> p, says |-> CleanText(value.node[w[Len(p) + 1]].parts)] :
                      w \in {x \in [1..(Len(p) + 1) -> Node] :
                                /\ IsWay(value, p, x)
                                /\ NamesNothingSensitive(value, p, x)
                                /\ WithoutRepetition(x)
                                /\ value.node[x[Len(p) + 1]].is = "text"}} :
                  p \in BoundedSeq(Fields(value), MaxDepth)}

=============================================================================
