------------------------------ MODULE MCRequests ------------------------------
(***************************************************************************)
(* Instances of Requests for TLC.  The logged values: an entry with what   *)
(* the exception has as its details, an object or an array that holds text *)
(* and further values, shares them and holds itself.                       *)
(***************************************************************************)
EXTENDS Requests

Text(parts) == [is |-> "text", parts |-> parts]
Object(holds) == [is |-> "object", holds |-> holds]
Array(holds) == [is |-> "array", holds |-> holds]

Value3(details, inner, deep) ==
    [root |-> "entry",
     node |-> [entry   |-> Object([details |-> "details", notes |-> "text"]),
               details |-> details,
               inner   |-> inner,
               deep    |-> deep,
               text    |-> Text({"words", "a phone", "bearer", "'secret':"})]]

Value(details, inner) == Value3(details, inner, [is |-> "number"])

Indices == {"0", "1"}

Shared == Object([name |-> "text", notes |-> "text"])
Upwards == Object([name |-> "details"])
Itself == Object([email |-> "inner", name |-> "inner"])
List == Array([k \in Indices |-> IF k = "0" THEN "text" ELSE "inner"])
TypeError == [is |-> "error", name |-> "TypeError", holds |-> "text"]

Twice == Object([name |-> "inner", title |-> "inner"])
Hidden == Object([nationalid |-> "inner", name |-> "text"])
Lists == Array([k \in Indices |-> "inner"])

AllPayloads ==
    {Value(Twice, Shared), Value(Twice, Upwards), Value(Hidden, Itself), Value(Twice, Itself),
     Value(Hidden, List), Value(Lists, List), Value(Lists, Upwards), Value(Twice, TypeError),
     Value3(Lists, Object([name |-> "deep"]), Object([name |-> "text"]))}

OnlyMessage ==
    Value([is |-> "text", parts |-> {"words"}], [is |-> "number"])
=============================================================================
