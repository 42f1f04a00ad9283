------------------------------ MODULE MCModels ------------------------------
(***************************************************************************)
(* Small instances of Fields and QuerySets for TLC.  The two halves of the *)
(* model layer share no state: a behaviour is one of either.               *)
(***************************************************************************)
EXTENDS Fields, QuerySets

VARIABLE half

Plain(kind, arg, opts) == Field(kind, arg, opts, <<>>)

MCLeaves ==
  {Plain("Int8", <<>>, {"null", "low"}), Plain("String", <<>>, {"low"}),
   Plain("FixedString", <<3>>, {"null"}), Plain("FixedString", <<0>>, {}),
   Plain("Decimal", <<9, 3>>, {"null"}), Plain("DateTime", <<>>, {"low", "null"}),
   Plain("DateTime64", <<6>>, {"null"}), Plain("DateTime64", <<3>>, {}),
   Plain("DateTime64", <<10>>, {}), Plain("Enum8", <<1, 2>>, {"null"}),
   Plain("Enum8", <<1, 200>>, {}), Plain("Enum", <<1, 200>>, {"str"}),
   Plain("Enum16", <<-1, 2>>, {}), Plain("IPv4", <<>>, {"low", "null"}),
   Plain("IPv6", <<>>, {"null"}), Plain("GenericIPAddress", <<>>, {"unpack"}),
   Plain("GenericIPAddress", <<>>, {"ipv4"}), Plain("GenericIPAddress", <<>>, {"null"}),
   Plain("JSON", <<>>, {}), Plain("JSON", <<>>, {"null"})}

MCKeys == {Plain("String", <<>>, {"low"}), Plain("Int8", <<>>, {"low"}),
           Plain("IPv6", <<>>, {}), Plain("DateTime", <<>>, {})}

MCConditions == {[field |-> "a", value |-> 1, aggregate |-> FALSE],
                 [field |-> "b", value |-> 1, aggregate |-> FALSE],
                 [field |-> "b", value |-> 1, aggregate |-> TRUE]}

MCObjs == {[a |-> Default, b |-> 1], [a |-> 1, b |-> 1], [a |-> 1, b |-> 2]}

vars == <<half, fieldVars, queryVars>>

Init == /\ half \in {"fields", "queries"}
        /\ FieldsInit /\ QueriesInit
        /\ half = "queries" => field = Plain("JSON", <<>>, {}) /\ ~zone

Next == \/ half = "fields" /\ FieldsNext /\ UNCHANGED <<half, queryVars>>
        \/ half = "queries" /\ QueriesNext /\ UNCHANGED <<half, fieldVars>>

Spec == Init /\ [][Next]_vars
=============================================================================
