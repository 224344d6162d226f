------------------------- MODULE Serializer_proofs -------------------------
(***************************************************************************)
(* What is read of a dictionary is what was written, proved for any keys    *)
(* and values of the types there are.  The header tells two types apart    *)
(* just when they are not two forms of a text, so a serialized key is as    *)
(* good as what the key means, and a serialized value as the value.        *)
(***************************************************************************)
EXTENDS Serializer, SequenceTheorems, TLAPS

----------------------------------------------------------------------------
(* Headers.                                                                *)

LEMMA TypeChars ==
  /\ \A T \in Text : type_char[T] = <<"s", "0">>
  /\ \A T \in WideText : type_char[T] = <<"w", "0">>
  /\ type_char["bool"] = <<"b", "0">>
  /\ type_char["signed char"] = <<"i", "0">> /\ type_char["short"] = <<"i", "1">>
  /\ type_char["int"] = <<"i", "2">> /\ type_char["long"] = <<"i", "3">>
  /\ type_char["long long"] = <<"i", "4">>
  /\ type_char["unsigned char"] = <<"u", "0">> /\ type_char["unsigned short"] = <<"u", "1">>
  /\ type_char["unsigned int"] = <<"u", "2">> /\ type_char["unsigned long"] = <<"u", "3">>
  /\ type_char["unsigned long long"] = <<"u", "4">>
  /\ type_char["float"] = <<"f", "0">> /\ type_char["double"] = <<"f", "1">>
  /\ type_char["long double"] = <<"f", "2">>
BY DEF type_char, Types, Text, WideText, SignedIntegers, UnsignedIntegers, Reals

\* The two characters, each by itself.
Letter == [T \in Types |-> type_char[T][1]]
Rank == [T \in Types |-> type_char[T][2]]

LEMMA Parts ==
  \A T \in Types : \A c, n : type_char[T] = <<c, n>> => Letter[T] = c /\ Rank[T] = n
BY DEF Letter, Rank

LEMMA TypeParts ==
  /\ \A T \in Text : Letter[T] = "s" /\ Rank[T] = "0"
  /\ \A T \in WideText : Letter[T] = "w" /\ Rank[T] = "0"
  /\ Letter["bool"] = "b" /\ Rank["bool"] = "0"
  /\ \A T \in SignedIntegers : Letter[T] = "i"
  /\ \A T \in UnsignedIntegers : Letter[T] = "u"
  /\ \A T \in Reals : Letter[T] = "f"
  /\ Rank["signed char"] = "0" /\ Rank["short"] = "1" /\ Rank["int"] = "2" /\ Rank["long"] = "3"
  /\ Rank["long long"] = "4"
  /\ Rank["unsigned char"] = "0" /\ Rank["unsigned short"] = "1" /\ Rank["unsigned int"] = "2"
  /\ Rank["unsigned long"] = "3" /\ Rank["unsigned long long"] = "4"
  /\ Rank["float"] = "0" /\ Rank["double"] = "1" /\ Rank["long double"] = "2"
<1>1. \A T \in Text \cup WideText \cup {"bool"} : T \in Types
  BY DEF Types
<1>2. /\ \A T \in Text : Letter[T] = "s" /\ Rank[T] = "0"
      /\ \A T \in WideText : Letter[T] = "w" /\ Rank[T] = "0"
      /\ Letter["bool"] = "b" /\ Rank["bool"] = "0"
  <2>1. \A T \in Text : type_char[T] = <<"s", "0">> => Letter[T] = "s" /\ Rank[T] = "0"
    BY <1>1, Parts
  <2>2. \A T \in WideText : type_char[T] = <<"w", "0">> => Letter[T] = "w" /\ Rank[T] = "0"
    BY <1>1, Parts
  <2>3. type_char["bool"] = <<"b", "0">> => Letter["bool"] = "b" /\ Rank["bool"] = "0"
    BY <1>1, Parts
  <2> QED
    BY <2>1, <2>2, <2>3, TypeChars
<1>3. /\ Letter["signed char"] = "i" /\ Letter["short"] = "i" /\ Letter["int"] = "i"
      /\ Letter["long"] = "i" /\ Letter["long long"] = "i"
      /\ Rank["signed char"] = "0" /\ Rank["short"] = "1" /\ Rank["int"] = "2" /\ Rank["long"] = "3"
      /\ Rank["long long"] = "4"
  <2>1. /\ "signed char" \in Types /\ "short" \in Types /\ "int" \in Types
        /\ "long" \in Types /\ "long long" \in Types
    BY DEF Types, SignedIntegers
  <2>2. type_char["signed char"] = <<"i", "0">> => Letter["signed char"] = "i" /\ Rank["signed char"] = "0"
    BY <2>1, Parts
  <2>3. type_char["short"] = <<"i", "1">> => Letter["short"] = "i" /\ Rank["short"] = "1"
    BY <2>1, Parts
  <2>4. type_char["int"] = <<"i", "2">> => Letter["int"] = "i" /\ Rank["int"] = "2"
    BY <2>1, Parts
  <2>5. type_char["long"] = <<"i", "3">> => Letter["long"] = "i" /\ Rank["long"] = "3"
    BY <2>1, Parts
  <2>6. type_char["long long"] = <<"i", "4">> => Letter["long long"] = "i" /\ Rank["long long"] = "4"
    BY <2>1, Parts
  <2> QED
    BY <2>2, <2>3, <2>4, <2>5, <2>6, TypeChars
<1>4. /\ Letter["unsigned char"] = "u" /\ Letter["unsigned short"] = "u"
      /\ Letter["unsigned int"] = "u" /\ Letter["unsigned long"] = "u"
      /\ Letter["unsigned long long"] = "u"
      /\ Rank["unsigned char"] = "0" /\ Rank["unsigned short"] = "1" /\ Rank["unsigned int"] = "2"
      /\ Rank["unsigned long"] = "3" /\ Rank["unsigned long long"] = "4"
  <2>1. /\ "unsigned char" \in Types /\ "unsigned short" \in Types /\ "unsigned int" \in Types
        /\ "unsigned long" \in Types /\ "unsigned long long" \in Types
    BY DEF Types, UnsignedIntegers
  <2>2. type_char["unsigned char"] = <<"u", "0">> => Letter["unsigned char"] = "u" /\ Rank["unsigned char"] = "0"
    BY <2>1, Parts
  <2>3. type_char["unsigned short"] = <<"u", "1">> => Letter["unsigned short"] = "u" /\ Rank["unsigned short"] = "1"
    BY <2>1, Parts
  <2>4. type_char["unsigned int"] = <<"u", "2">> => Letter["unsigned int"] = "u" /\ Rank["unsigned int"] = "2"
    BY <2>1, Parts
  <2>5. type_char["unsigned long"] = <<"u", "3">> => Letter["unsigned long"] = "u" /\ Rank["unsigned long"] = "3"
    BY <2>1, Parts
  <2>6. type_char["unsigned long long"] = <<"u", "4">> => Letter["unsigned long long"] = "u" /\ Rank["unsigned long long"] = "4"
    BY <2>1, Parts
  <2> QED
    BY <2>2, <2>3, <2>4, <2>5, <2>6, TypeChars
<1>5. /\ Letter["float"] = "f" /\ Letter["double"] = "f" /\ Letter["long double"] = "f"
      /\ Rank["float"] = "0" /\ Rank["double"] = "1" /\ Rank["long double"] = "2"
  <2>1. "float" \in Types /\ "double" \in Types /\ "long double" \in Types
    BY DEF Types, Reals
  <2>2. type_char["float"] = <<"f", "0">> => Letter["float"] = "f" /\ Rank["float"] = "0"
    BY <2>1, Parts
  <2>3. type_char["double"] = <<"f", "1">> => Letter["double"] = "f" /\ Rank["double"] = "1"
    BY <2>1, Parts
  <2>4. type_char["long double"] = <<"f", "2">> => Letter["long double"] = "f" /\ Rank["long double"] = "2"
    BY <2>1, Parts
  <2> QED
    BY <2>2, <2>3, <2>4, TypeChars
<1>6. \A T \in SignedIntegers : Letter[T] = "i"
  BY <1>3 DEF SignedIntegers
<1>7. \A T \in UnsignedIntegers : Letter[T] = "u"
  BY <1>4 DEF UnsignedIntegers
<1>8. \A T \in Reals : Letter[T] = "f"
  BY <1>5 DEF Reals
<1> QED
  BY <1>2, <1>3, <1>4, <1>5, <1>6, <1>7, <1>8

LEMMA Headers == \A T \in Types : type_char[T] = <<Letter[T], Rank[T]>>
<1>1. \A T \in Text \cup WideText \cup {"bool"} : type_char[T] = <<Letter[T], Rank[T]>>
  BY TypeChars, TypeParts
<1>2. \A T \in SignedIntegers : type_char[T] = <<Letter[T], Rank[T]>>
  BY TypeChars, TypeParts DEF SignedIntegers
<1>3. \A T \in UnsignedIntegers : type_char[T] = <<Letter[T], Rank[T]>>
  BY TypeChars, TypeParts DEF UnsignedIntegers
<1>4. \A T \in Reals : type_char[T] = <<Letter[T], Rank[T]>>
  BY TypeChars, TypeParts DEF Reals
<1> QED
  BY <1>1, <1>2, <1>3, <1>4 DEF Types

\* The header tells types apart that are not two forms of a text.
LEMMA HeadersTellTypes ==
  ASSUME NEW T \in Types, NEW U \in Types
  PROVE  Letter[T] = Letter[U] /\ Rank[T] = Rank[U] <=> SameKind(T, U)
<1>1. ASSUME Letter[T] = Letter[U], Rank[T] = Rank[U]
      PROVE  SameKind(T, U)
  <2>1. CASE T \in Text \cup WideText \cup {"bool"}
    <3>1. /\ T \in Text => U \in Text
          /\ T \in WideText => U \in WideText
          /\ T = "bool" => U = "bool"
      BY <1>1, TypeParts DEF Types
    <3> QED
      BY <2>1, <3>1 DEF SameKind
  <2>2. CASE T \in SignedIntegers
    <3>1. U \in SignedIntegers
      BY <1>1, <2>2, TypeParts DEF Types
    <3>2. T = U
      BY <1>1, <2>2, <3>1, TypeParts DEF SignedIntegers
    <3> QED
      BY <3>2 DEF SameKind
  <2>3. CASE T \in UnsignedIntegers
    <3>1. U \in UnsignedIntegers
      BY <1>1, <2>3, TypeParts DEF Types
    <3>2. T = U
      BY <1>1, <2>3, <3>1, TypeParts DEF UnsignedIntegers
    <3> QED
      BY <3>2 DEF SameKind
  <2>4. CASE T \in Reals
    <3>1. U \in Reals
      BY <1>1, <2>4, TypeParts DEF Types
    <3>2. T = U
      BY <1>1, <2>4, <3>1, TypeParts DEF Reals
    <3> QED
      BY <3>2 DEF SameKind
  <2> QED
    BY <2>1, <2>2, <2>3, <2>4 DEF Types
<1>2. SameKind(T, U) => Letter[T] = Letter[U] /\ Rank[T] = Rank[U]
  BY TypeParts DEF SameKind
<1> QED
  BY <1>1, <1>2

----------------------------------------------------------------------------
(* What can be read of a serialized value.                                 *)

LEMMA Prefix ==
  ASSUME NEW S, NEW str \in Seq(S), NEW k \in Int, k = 2, Len(str) >= k,
         NEW r, r = SubSeq(str, 1, k), NEW p, p = <<str[1], str[2]>>
  PROVE  r = p
<1>1. \A i \in 1..k : str[i] \in S
  OBVIOUS
<1>2. 1 \in Int
  OBVIOUS
<1>3. /\ r \in Seq(S) /\ Len(r) = IF 1 <= k THEN k - 1 + 1 ELSE 0
      /\ \A i \in 1..(k - 1 + 1) : r[i] = str[1 + i - 1]
  BY <1>1, <1>2, SubSeqProperties
<1>4. Len(r) = 2 /\ r[1] = str[1] /\ r[2] = str[2]
  BY <1>3
<1>5. p \in Seq(S) /\ Len(p) = 2 /\ p[1] = str[1] /\ p[2] = str[2]
  OBVIOUS
<1>6. \A i \in 1..Len(r) : r[i] = p[i]
  BY <1>4, <1>5
<1> QED
  BY <1>3, <1>4, <1>5, <1>6, SeqEqual

LEMMA Suffix ==
  ASSUME NEW S, NEW str \in Seq(S), NEW data \in Seq(S),
         NEW n \in Int, n = Len(str), n = Len(data) + 2,
         \A i \in 1..Len(data) : str[i + 2] = data[i],
         NEW r, r = SubSeq(str, 3, n)
  PROVE  r = data
<1>1. r \in Seq(S) /\ Len(r) = Len(data)
  OBVIOUS
<1>2. \A i \in 1..Len(data) : r[i] = str[i + 2]
  OBVIOUS
<1> QED
  BY <1>1, <1>2

LEMMA Serialized ==
  ASSUME NEW T \in Types, NEW data \in Seq(Units), NEW str, str = type_char[T] \o data
  PROVE  /\ str[1] = Letter[T] /\ str[2] = Rank[T]
         /\ DropHeader(str) = data
         /\ SubSeq(str, 1, kHeaderSize) = <<Letter[T], Rank[T]>>
<1> DEFINE c == Letter[T]
           n == Rank[T]
           S == Units \cup {c, n}
           last == Len(str)
           k == kHeaderSize
<1>1. str = <<c, n>> \o data
  BY Headers
<1> HIDE DEF c, n
<1>2. c \in S /\ n \in S /\ data \in Seq(S)
  BY SeqMonotonic
<1> HIDE DEF S
<1>3. str \in Seq(S) /\ Len(str) = Len(data) + 2 /\ str[1] = c /\ str[2] = n
  BY <1>1, <1>2
<1>4. \A i \in 1..Len(data) : str[i + 2] = data[i]
  BY <1>1, <1>2
<1>5. last \in Int /\ last = Len(str) /\ last = Len(data) + 2 /\ last >= 2
  BY <1>2, <1>3
<1>6. DropHeader(str) = SubSeq(str, 3, last)
  BY DEF DropHeader, kHeaderSize
<1>7. k \in Int /\ k = 2
  BY DEF kHeaderSize
<1> HIDE DEF last, k
<1>8. DropHeader(str) = data
  BY <1>2, <1>3, <1>4, <1>5, <1>6, Suffix
<1>9. SubSeq(str, 1, k) = <<str[1], str[2]>>
  BY <1>3, <1>5, <1>7, Prefix
<1> QED
  BY <1>3, <1>8, <1>9 DEF c, n, k

\* A typed value, as the assumption on keys and values has it.
IsTyped(x) ==
  /\ x.type \in Types /\ x.data \in Seq(Units)
  /\ x.type \notin Strings \cup CStrings => Len(x.data) = 1

LEMMA SerializedParts ==
  ASSUME NEW v, IsTyped(v)
  PROVE  /\ v.type \in Types
         /\ Serialize(v)[1] = Letter[v.type] /\ Serialize(v)[2] = Rank[v.type]
         /\ DropHeader(Serialize(v)) = v.data
         /\ SubSeq(Serialize(v), 1, kHeaderSize) = <<Letter[v.type], Rank[v.type]>>
<1> DEFINE T == v.type
           data == v.data
           str == Serialize(v)
<1>1. T \in Types /\ data \in Seq(Units) /\ str = type_char[T] \o data
  BY DEF IsTyped, Serialize
<1> HIDE DEF T, data, str
<1>2. /\ str[1] = Letter[T] /\ str[2] = Rank[T] /\ DropHeader(str) = data
      /\ SubSeq(str, 1, kHeaderSize) = <<Letter[T], Rank[T]>>
  BY <1>1, Serialized
<1> QED
  BY <1>1, <1>2 DEF T, data, str

\* A type is refused if the value was written with a type of another kind.
LEMMA RefusedTypes ==
  ASSUME NEW T \in Types, NEW v, IsTyped(v)
  PROVE  raise_for_type(T, Serialize(v)) <=> ~SameKind(v.type, T)
<1>1. type_char[T][1] = Letter[T] /\ type_char[T][2] = Rank[T]
  BY DEF Letter, Rank
<1>2. raise_for_type(T, Serialize(v)) <=> ~(Letter[v.type] = Letter[T] /\ Rank[v.type] = Rank[T])
  BY <1>1, SerializedParts DEF raise_for_type, kHeaderSize
<1> QED
  BY <1>2, SerializedParts, HeadersTellTypes

\* A key is found by the bytes of another key just when both mean the same.
LEMMA KeysMean ==
  ASSUME NEW k, NEW l, IsTyped(k), IsTyped(l)
  PROVE  Serialize(k) = Serialize(l) <=> Meaning(k) = Meaning(l)
<1>1. k.type \in Types /\ l.type \in Types
  BY DEF IsTyped
<1>2. SameKind(k.type, l.type) <=> Letter[k.type] = Letter[l.type] /\ Rank[k.type] = Rank[l.type]
  BY <1>1, HeadersTellTypes
<1>3. ASSUME Serialize(k) = Serialize(l)
      PROVE  Meaning(k) = Meaning(l)
  <2>1. k.data = l.data /\ Letter[k.type] = Letter[l.type] /\ Rank[k.type] = Rank[l.type]
    BY <1>3, SerializedParts
  <2>2. \A U \in Types : SameKind(k.type, U) <=> SameKind(l.type, U)
    BY <1>1, <2>1, HeadersTellTypes
  <2> QED
    BY <2>1, <2>2 DEF Meaning, Kind
<1>4. ASSUME Meaning(k) = Meaning(l)
      PROVE  Serialize(k) = Serialize(l)
  <2>1. Kind(k.type) = Kind(l.type) /\ k.data = l.data
    BY <1>4 DEF Meaning
  <2>2. SameKind(k.type, l.type)
    BY <1>1, <2>1 DEF Kind, SameKind
  <2>3. type_char[k.type] = type_char[l.type]
    BY <1>1, <1>2, <2>2, Headers
  <2> QED
    BY <2>1, <2>3 DEF Serialize
<1> QED
  BY <1>3, <1>4

\* Reading with a type gives what is expected of the value.
LEMMA ReadsExpected ==
  ASSUME NEW T \in Types, NEW v, IsTyped(v)
  PROVE  Deserialize(T, Serialize(v)) = Expected(v, T)
<1>1. v.data \in Seq(Units) /\ DropHeader(Serialize(v)) = v.data
  BY SerializedParts DEF IsTyped
<1>2. v.data # <<>> => Head(v.data) = v.data[1]
  BY <1>1
<1>3. FirstUnit(T, v.data) =
        IF v.data # <<>> THEN {<<v.data[1]>>}
        ELSE IF T = "wchar_t" THEN { <<u>> : u \in Units } ELSE {<<Terminator>>}
  BY <1>2 DEF FirstUnit
<1>4. raise_for_type(T, Serialize(v)) <=> ~SameKind(v.type, T)
  BY RefusedTypes
<1> QED
  BY <1>1, <1>3, <1>4 DEF Deserialize, Expected

LEMMA PythonTypes ==
  /\ python_types \subseteq Types
  /\ \A T, U \in python_types : SameKind(T, U) => T = U
<1>1. python_types \subseteq Types
  BY DEF python_types, Types, SignedIntegers, Reals, Text
<1>2. \A T, U \in python_types : Letter[T] = Letter[U] => T = U
  BY TypeParts DEF python_types, SignedIntegers, Reals, Text
<1> QED
  BY <1>1, <1>2, HeadersTellTypes

\* Python's type for a value is the only one of its types of that kind.
LEMMA PythonReadsExpected ==
  ASSUME NEW v, IsTyped(v)
  PROVE  LET T == CHOOSE U \in python_types : SameKind(v.type, U)
         IN  DeserializeForPython(Serialize(v)) =
               IF \E U \in python_types : SameKind(v.type, U) THEN Expected(v, T) ELSE {domain_error}
<1> DEFINE implemented == { T \in python_types : type_char[T] = SubSeq(Serialize(v), 1, kHeaderSize) }
<1>1. \A T \in python_types : T \in implemented <=> SameKind(v.type, T)
  <2> TAKE T \in python_types
  <2>1. T \in Types /\ v.type \in Types
    BY PythonTypes DEF IsTyped
  <2>2. type_char[T] = <<Letter[T], Rank[T]>>
    BY <2>1, Headers
  <2>3. SubSeq(Serialize(v), 1, kHeaderSize) = <<Letter[v.type], Rank[v.type]>>
    BY SerializedParts
  <2>4. T \in implemented <=> Letter[T] = Letter[v.type] /\ Rank[T] = Rank[v.type]
    <3>1. T \in implemented <=> type_char[T] = SubSeq(Serialize(v), 1, kHeaderSize)
      OBVIOUS
    <3>2. T \in implemented <=> <<Letter[T], Rank[T]>> = <<Letter[v.type], Rank[v.type]>>
      BY <2>2, <2>3, <3>1, Zenon
    <3> HIDE DEF implemented
    <3> QED
      BY <3>2
  <2> QED
    BY <2>1, <2>4, HeadersTellTypes
<1>2. DeserializeForPython(Serialize(v)) =
        IF implemented = {} THEN {domain_error}
        ELSE UNION { Deserialize(T, Serialize(v)) : T \in implemented }
  BY DEF DeserializeForPython
<1>3. implemented \subseteq python_types
  OBVIOUS
<1> HIDE DEF implemented
<1>4. CASE \E U \in python_types : SameKind(v.type, U)
  <2> DEFINE T == CHOOSE U \in python_types : SameKind(v.type, U)
  <2>1. T \in python_types /\ SameKind(v.type, T)
    BY <1>4
  <2> HIDE DEF T
  <2>2. \A U \in python_types : SameKind(v.type, U) => U = T
    <3> SUFFICES ASSUME NEW U \in python_types, SameKind(v.type, U)
                 PROVE  U = T
      OBVIOUS
    <3>1. U \in Types /\ T \in Types /\ v.type \in Types
      BY <2>1, PythonTypes DEF IsTyped
    <3>2. SameKind(U, T)
      BY <2>1, <3>1, HeadersTellTypes
    <3> QED
      BY <2>1, <3>2, PythonTypes
  <2>3. implemented = {T}
    BY <1>1, <1>3, <2>1, <2>2
  <2>4. DeserializeForPython(Serialize(v)) = Deserialize(T, Serialize(v))
    BY <1>2, <2>3
  <2>5. Deserialize(T, Serialize(v)) = Expected(v, T)
    BY <2>1, PythonTypes, ReadsExpected
  <2> QED
    BY <1>4, <2>4, <2>5 DEF T
<1>5. CASE ~ \E U \in python_types : SameKind(v.type, U)
  BY <1>1, <1>2, <1>3, <1>5
<1> QED
  BY <1>4, <1>5

----------------------------------------------------------------------------
(* The dictionary is, in bytes, what was written.                          *)

LEMMA AllTyped == \A x \in Keys \cup Values : IsTyped(x)
BY TypedAssumption DEF IsTyped

\* What is stored under a key, if anything, is the value written last under a
\* key of the same meaning.
StoredOK ==
  /\ dict = [s \in { Serialize(k) : k \in Keys } |-> dict[s]]
  /\ written = [m \in { Meaning(k) : k \in Keys } |-> written[m]]
  /\ \A k \in Keys :
       LET v == written[Meaning(k)]
       IN  IF v = None THEN dict[Serialize(k)] = None
           ELSE v \in Values /\ dict[Serialize(k)] = Serialize(v)

ReadInv == StoredOK /\ ReadsWhatWasWritten /\ PythonReadsItsTypes

LEMMA InitReadInv == Init => ReadInv
BY DEF Init, ReadInv, StoredOK, ReadsWhatWasWritten, PythonReadsItsTypes

LEMMA InsertKeeps ==
  ASSUME StoredOK, NEW k \in Keys, NEW v \in Values, Insert(k, v)
  PROVE  ReadInv'
<1>1. dict' = [dict EXCEPT ![Serialize(k)] = Serialize(v)]
      /\ written' = [written EXCEPT ![Meaning(k)] = v] /\ result' = None
  BY DEF Insert
<1>2. v # None /\ Serialize(v) # None
  BY NoneAssumption
<1>3. /\ dict' = [s \in { Serialize(l) : l \in Keys } |-> dict'[s]]
      /\ written' = [m \in { Meaning(l) : l \in Keys } |-> written'[m]]
  BY <1>1 DEF StoredOK
<1>4. \A l \in Keys :
        IF written'[Meaning(l)] = None THEN dict'[Serialize(l)] = None
        ELSE written'[Meaning(l)] \in Values /\ dict'[Serialize(l)] = Serialize(written'[Meaning(l)])
  <2> TAKE l \in Keys
  <2>1. Serialize(k) = Serialize(l) <=> Meaning(k) = Meaning(l)
    BY KeysMean, AllTyped
  <2>2. CASE Meaning(k) = Meaning(l)
    <3>1. written'[Meaning(l)] = v /\ dict'[Serialize(l)] = Serialize(v)
      BY <1>1, <2>1, <2>2 DEF StoredOK
    <3> QED
      BY <1>2, <3>1
  <2>3. CASE Meaning(k) # Meaning(l)
    <3>1. written'[Meaning(l)] = written[Meaning(l)] /\ dict'[Serialize(l)] = dict[Serialize(l)]
      BY <1>1, <2>1, <2>3 DEF StoredOK
    <3> QED
      BY <3>1 DEF StoredOK
  <2> QED
    BY <2>2, <2>3
<1>5. StoredOK'
  BY <1>3, <1>4 DEF StoredOK
<1> QED
  BY <1>1, <1>5 DEF ReadInv, ReadsWhatWasWritten, PythonReadsItsTypes

LEMMA FindKeeps ==
  ASSUME StoredOK, NEW k \in Keys, NEW T \in Types \ CStrings, Find(k, T)
  PROVE  ReadInv'
<1>1. StoredOK' /\ written' = written
  BY DEF Find, StoredOK
<1>2. PICK got \in IF dict[Serialize(k)] = None THEN {None}
                   ELSE Deserialize(T, dict[Serialize(k)]) :
        result' = [key |-> k, as |-> T, got |-> got]
  BY DEF Find
<1>3. T # "python"
  BY DEF Types, SignedIntegers, UnsignedIntegers, Reals, Text, WideText
<1> DEFINE v == written[Meaning(k)]
<1>4. IF v = None THEN dict[Serialize(k)] = None
      ELSE v \in Values /\ dict[Serialize(k)] = Serialize(v)
  BY DEF StoredOK
<1>5. IF v = None THEN got = None ELSE got \in Expected(v, T)
  <2>1. CASE v = None
    BY <1>2, <1>4, <2>1
  <2>2. CASE v # None
    <3>1. IsTyped(v) /\ T \in Types /\ Serialize(v) # None
      BY <1>4, <2>2, AllTyped, NoneAssumption
    <3>2. got \in Deserialize(T, Serialize(v))
      BY <1>2, <1>4, <2>2, <3>1
    <3> HIDE DEF v
    <3>3. Deserialize(T, Serialize(v)) = Expected(v, T)
      BY <3>1, ReadsExpected
    <3> QED
      BY <2>2, <3>2, <3>3
  <2> QED
    BY <2>1, <2>2
<1>6. result'.key = k /\ result'.as = T /\ result'.got = got
  BY <1>2
<1>7. ReadsWhatWasWritten'
  BY <1>1, <1>5, <1>6 DEF ReadsWhatWasWritten
<1>8. PythonReadsItsTypes'
  BY <1>3, <1>6 DEF PythonReadsItsTypes
<1> QED
  BY <1>1, <1>7, <1>8 DEF ReadInv

LEMMA PythonFindKeeps ==
  ASSUME StoredOK, NEW k \in Keys, PythonFind(k)
  PROVE  ReadInv'
<1>1. StoredOK' /\ written' = written
  BY DEF PythonFind, StoredOK
<1>2. PICK got \in IF dict[Serialize(k)] = None THEN {None}
                   ELSE DeserializeForPython(dict[Serialize(k)]) :
        result' = [key |-> k, as |-> "python", got |-> got]
  BY DEF PythonFind
<1> DEFINE v == written[Meaning(k)]
           T == CHOOSE U \in python_types : SameKind(v.type, U)
<1>3. IF v = None THEN dict[Serialize(k)] = None
      ELSE v \in Values /\ dict[Serialize(k)] = Serialize(v)
  BY DEF StoredOK
<1>4. IF v = None THEN got = None
      ELSE IF \E U \in python_types : SameKind(v.type, U) THEN got \in Expected(v, T)
      ELSE got = domain_error
  <2>1. CASE v = None
    BY <1>2, <1>3, <2>1
  <2>2. CASE v # None
    <3>1. IsTyped(v) /\ Serialize(v) # None
      BY <1>3, <2>2, AllTyped, NoneAssumption
    <3>2. got \in DeserializeForPython(Serialize(v))
      BY <1>2, <1>3, <2>2, <3>1
    <3> HIDE DEF v
    <3>3. DeserializeForPython(Serialize(v)) =
            IF \E U \in python_types : SameKind(v.type, U) THEN Expected(v, T) ELSE {domain_error}
      BY <3>1, PythonReadsExpected
    <3> QED
      BY <2>2, <3>2, <3>3
  <2> QED
    BY <2>1, <2>2
<1>5. result'.key = k /\ result'.as = "python" /\ result'.got = got
  BY <1>2
<1>6. PythonReadsItsTypes'
  BY <1>1, <1>4, <1>5 DEF PythonReadsItsTypes
<1>7. ReadsWhatWasWritten'
  BY <1>5 DEF ReadsWhatWasWritten
<1> QED
  BY <1>1, <1>6, <1>7 DEF ReadInv

LEMMA StepReadInv == ReadInv /\ [Next]_vars => ReadInv'
<1> SUFFICES ASSUME ReadInv, [Next]_vars
             PROVE  ReadInv'
  OBVIOUS
<1>1. StoredOK
  BY DEF ReadInv
<1>2. CASE Next
  BY <1>1, <1>2, InsertKeeps, FindKeeps, PythonFindKeeps DEF Next
<1>3. CASE UNCHANGED vars
  BY <1>3 DEF vars, ReadInv, StoredOK, ReadsWhatWasWritten, PythonReadsItsTypes
<1> QED
  BY <1>2, <1>3

\* What is read with the type it was written with is what was written; any other
\* type is refused, and keys of different types are different keys.
THEOREM ReadsAreFaithful == Spec => []ReadsWhatWasWritten
<1>1. ReadInv => ReadsWhatWasWritten
  BY DEF ReadInv
<1> QED
  BY <1>1, InitReadInv, StepReadInv, PTL DEF Spec

\* Python reads what any program wrote as one of its types, and refuses the rest.
THEOREM PythonReadsAreFaithful == Spec => []PythonReadsItsTypes
<1>1. ReadInv => PythonReadsItsTypes
  BY DEF ReadInv
<1> QED
  BY <1>1, InitReadInv, StepReadInv, PTL DEF Spec
=============================================================================
