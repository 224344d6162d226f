----------------------------- MODULE Serializer -----------------------------
(***************************************************************************)
(* serializer.hpp, traits.hpp and py.cpp: keys and values are strings of   *)
(* bytes that begin with two characters for their type.  A dictionary that *)
(* C++ and Python programs read and write with the types they like.        *)
(*                                                                         *)
(* A unit is the contents of a number, a bool or a character.  What the    *)
(* header does not tell apart are texts and single characters, so a value  *)
(* is a sequence of units: of one unit for a scalar, of any for a text.    *)
(***************************************************************************)
EXTENDS Naturals, Sequences

CONSTANTS
  Units, Terminator,  \* a character is followed by a terminator in a text
  Keys, Values,       \* typed values, [type, data]
  domain_error,       \* the exception
  None

VARIABLES
  dict,     \* serialized key |-> serialized value, or None
  written,  \* what a key means |-> the typed value inserted last, or None
  result    \* [key, as, got] of the last find, or None

vars == <<dict, written, result>>

kHeaderSize == 2

SignedIntegers == {"signed char", "short", "int", "long", "long long"}
UnsignedIntegers ==
  {"unsigned char", "unsigned short", "unsigned int", "unsigned long", "unsigned long long"}
Reals == {"float", "double", "long double"}
Text == {"char", "c_string", "std::string"}
WideText == {"wchar_t", "c_wstring", "std::wstring"}
Types == SignedIntegers \cup UnsignedIntegers \cup Reals \cup Text \cup WideText \cup {"bool"}

Strings == {"std::string", "std::wstring"}
CStrings == {"c_string", "c_wstring"}  \* can be serialized only

\* The two characters: a kind, and the rank of a number's type in its kind.
type_char ==
  [T \in Types |->
    CASE T \in Text -> <<"s", "0">>
      [] T \in WideText -> <<"w", "0">>
      [] T = "bool" -> <<"b", "0">>
      [] T \in SignedIntegers ->
           <<"i", CASE T = "signed char" -> "0" [] T = "short" -> "1" [] T = "int" -> "2"
                    [] T = "long" -> "3" [] T = "long long" -> "4">>
      [] T \in UnsignedIntegers ->
           <<"u", CASE T = "unsigned char" -> "0" [] T = "unsigned short" -> "1"
                    [] T = "unsigned int" -> "2" [] T = "unsigned long" -> "3"
                    [] T = "unsigned long long" -> "4">>
      [] T \in Reals ->
           <<"f", CASE T = "float" -> "0" [] T = "double" -> "1" [] T = "long double" -> "2">>]

\* Every Serialize goes through emplace: the header, then the data.
Serialize(v) == type_char[v.type] \o v.data

\* A typed value has a text of its type's length, and nothing is None.
ASSUME TypedAssumption ==
  /\ Terminator \in Units
  /\ \A x \in Keys \cup Values :
       /\ x.type \in Types /\ x.data \in Seq(Units)
       /\ x.type \notin Strings \cup CStrings => Len(x.data) = 1
ASSUME NoneAssumption == None \notin Values /\ \A v \in Values : None # Serialize(v)

raise_at_kind(T, str) ==  \* Faulty: compares one character of the header.
  type_char[T][1] # str[1]

raise_for_type(T, str) == \E i \in 1..kHeaderSize : type_char[T][i] # str[i]

DropHeader(str) == SubSeq(str, kHeaderSize + 1, Len(str))

FirstUnit(T, data) ==
  IF data # <<>> THEN {<<Head(data)>>}
  ELSE IF T = "wchar_t" THEN { <<u>> : u \in Units }  \* beyond the terminating byte
  ELSE {<<Terminator>>}

DeserializeCString(T, str) ==  \* Faulty: takes a string to end with its terminator.
  IF raise_for_type(T, str) THEN {domain_error}
  ELSE LET data == DropHeader(str)
       IN  IF T \in Strings
           THEN {SubSeq(data, 1, Len(data) - 1)}
           ELSE FirstUnit(T, data)

\* What Deserialize<T> may return of a serialized value.
Deserialize(T, str) ==
  IF raise_for_type(T, str) THEN {domain_error}
  ELSE IF T \in Strings THEN {DropHeader(str)}
  ELSE FirstUnit(T, DropHeader(str))

\* The types of Python's values, and those it may use for keys.
python_types == {"int", "float", "std::string"}
python_keys == {"int", "std::string"}

\* Python's find chooses the type by the header it finds.
DeserializeForPython(str) ==
  LET implemented == { T \in python_types : type_char[T] = SubSeq(str, 1, kHeaderSize) }
  IN  IF implemented = {} THEN {domain_error}
      ELSE UNION { Deserialize(T, str) : T \in implemented }

\* Which keys are one key.
SameKind(T, U) == T = U \/ {T, U} \subseteq Text \/ {T, U} \subseteq WideText
Kind(T) == { U \in Types : SameKind(T, U) }
Meaning(k) == <<Kind(k.type), k.data>>

Init ==
  /\ dict = [s \in { Serialize(k) : k \in Keys } |-> None]
  /\ written = [m \in { Meaning(k) : k \in Keys } |-> None]
  /\ result = None

\* Insert; Python's inserts have types of python_keys and python_types.
Insert(k, v) ==
  /\ dict' = [dict EXCEPT ![Serialize(k)] = Serialize(v)]
  /\ written' = [written EXCEPT ![Meaning(k)] = v]
  /\ result' = None

\* Find<T>, which throws away what it has found when the type is another.
Find(k, T) ==
  /\ \E got \in IF dict[Serialize(k)] = None THEN {None}
                 ELSE Deserialize(T, dict[Serialize(k)]) :
       result' = [key |-> k, as |-> T, got |-> got]
  /\ UNCHANGED <<dict, written>>

PythonFind(k) ==
  /\ k.type \in python_keys
  /\ \E got \in IF dict[Serialize(k)] = None THEN {None}
                 ELSE DeserializeForPython(dict[Serialize(k)]) :
       result' = [key |-> k, as |-> "python", got |-> got]
  /\ UNCHANGED <<dict, written>>

Next ==
  \E k \in Keys :
    \/ \E v \in Values : Insert(k, v)
    \/ \E T \in Types \ CStrings : Find(k, T)
    \/ PythonFind(k)

Spec == Init /\ [][Next]_vars

-----------------------------------------------------------------------------
(* Properties.                                                             *)

\* What a typed value is when it is read as type T.
Expected(v, T) ==
  IF ~SameKind(v.type, T) THEN {domain_error}
  ELSE IF T \in Strings THEN {v.data}
  ELSE IF v.data # <<>> THEN {<<v.data[1]>>}
  ELSE IF T = "wchar_t" THEN { <<u>> : u \in Units } ELSE {<<Terminator>>}

\* What is read with the type it was written with is what was written under
\* that key; a text and its first character may stand for each other; any other
\* type is refused, and a key is found by a key of the same type only.
ReadsWhatWasWritten ==
  result # None /\ result.as # "python" =>
    LET v == written[Meaning(result.key)]
    IN  IF v = None THEN result.got = None ELSE result.got \in Expected(v, result.as)

\* Python gets what was written as one of its types, by whatever program, whole,
\* and refuses the rest.
PythonReadsItsTypes ==
  result # None /\ result.as = "python" =>
    LET v == written[Meaning(result.key)]
        T == CHOOSE U \in python_types : SameKind(v.type, U)
    IN  IF v = None THEN result.got = None
        ELSE IF \E U \in python_types : SameKind(v.type, U) THEN result.got \in Expected(v, T)
        ELSE result.got = domain_error
=============================================================================
