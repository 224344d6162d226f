---------------------------- MODULE SerializerMC ----------------------------
(***************************************************************************)
(* Every type, with texts of up to two units; keys that are easily taken   *)
(* for each other.                                                         *)
(***************************************************************************)
EXTENDS Serializer

Typed(T, data) == [type |-> T, data |-> data]

Texts == (Text \cup WideText) \ {"char", "wchar_t"}

MCValues ==
  { Typed(T, <<"a">>) : T \in Types }
  \cup { Typed(T, data) : T \in Texts, data \in {<<>>, <<"a", "b">>} }
  \cup { Typed(T, <<Terminator, "a">>) : T \in Strings }

MCKeys == { Typed("char", <<"a">>), Typed("std::string", <<"a">>), Typed("int", <<"a">>) }
=============================================================================
