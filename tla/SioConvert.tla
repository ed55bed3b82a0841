----------------------------- MODULE SioConvert -----------------------------
(***************************************************************************)
(* USIOJConvert: a struct to JSON and back, directly or through the bytes  *)
(* of a file.  The engine writes the JSON (FJsonObjectConverter, external);*)
(* the plugin trims the names blueprints give to variables, restores them  *)
(* from the definition of the struct, and reads the JSON itself.           *)
(*                                                                         *)
(* Types, values and JSON are tuples that start with their kind.  A name   *)
(* is the sequence of its parts between underscores: a blueprint variable  *)
(* has a number and a GUID as the last two, behind what its author wrote,  *)
(* which may have underscores too.  Premises: other scalars than enums are *)
(* read from JSON of their kind (the engine converts among them), the keys *)
(* of maps have fewer than two underscores, no two names of an object      *)
(* become equal by trimming, and a loop over an object's fields that       *)
(* renames them meets each once.                                           *)
(***************************************************************************)
EXTENDS Naturals, Sequences, SequencesExt, FiniteSets

CONSTANTS Samples,    \* <<type, values>>: structs to be converted
          EnumNames   \* display names of a blueprint enum

VARIABLES sample,     \* the struct and its definition
          route,      \* history: how the JSON was written
          target,     \* the struct it is read into
          old,        \* history: what that held before
          json,       \* the JSON on its way
          changed,    \* history: the field a peer changed on the way, and how
          result      \* what JsonObjectToUStruct returned

convertVars == <<sample, route, target, old, json, changed, result>>

Null == <<"null">>

RECURSIVE Default(_), Export(_, _, _), TrimValueKeyNames(_), Serialize(_),
          ReplaceNames(_, _), Import(_, _, _), Held(_, _, _)

\* What a property holds that was never set.
Default(type) ==
    CASE type[1] = "struct" -> <<"struct", [i \in DOMAIN type[2] |-> Default(type[2][i][2])]>>
      [] type[1] = "map" -> <<"map", [k \in {} |-> 0]>>
      [] type[1] = "set" -> <<"set", {}>>
      [] type[1] \in {"array", "bytes", "string"} -> <<type[1], <<>> >>
      [] OTHER -> <<type[1], 0>>

-----------------------------------------------------------------------------
(* To JSON.                                                                *)

\* UStructToJsonObject: an enum is written by a name it is known by, and bytes as
\* an array, or as a binary by the export callback of blueprint structs.
Export(type, v, bp) ==
    CASE type[1] = "enum" -> <<"string", EnumNames[v[2] + 1]>>
      [] type[1] = "bytes" -> IF bp THEN <<"binary", v[2]>>
                              ELSE <<"array", [i \in DOMAIN v[2] |-> <<"number", v[2][i]>>]>>
      [] type[1] = "array" -> <<"array", [i \in DOMAIN v[2] |-> Export(type[2], v[2][i], bp)]>>
      [] type[1] = "set" -> LET s == SetToSeq(v[2])
                            IN  <<"array", [i \in DOMAIN s |-> Export(type[2], s[i], bp)]>>
      [] type[1] = "map" -> <<"object", [k \in DOMAIN v[2] |-> Export(type[2], v[2][k], bp)]>>
      [] type[1] = "struct" ->
            <<"object", [n \in {type[2][i][1] : i \in DOMAIN type[2]} |->
                            LET i == CHOOSE i \in DOMAIN type[2] : type[2][i][1] = n
                            IN  Export(type[2][i][2], v[2][i], bp)]>>
      [] OTHER -> v

\* (mutant) cuts at the last underscore.
TrimKeyLess(name) == IF Len(name) > 2 THEN SubSeq(name, 1, Len(name) - 1) ELSE name

\* TrimKey cuts at the last underscore but one.
TrimKey(name) == IF Len(name) > 2 THEN SubSeq(name, 1, Len(name) - 2) ELSE name

TrimValueKeyNames(j) ==
    CASE j[1] = "array" -> <<"array", [i \in DOMAIN j[2] |-> TrimValueKeyNames(j[2][i])]>>
      [] j[1] = "object" ->
            <<"object", [n \in {TrimKey(k) : k \in DOMAIN j[2]} |->
                            TrimValueKeyNames(j[2][CHOOSE k \in DOMAIN j[2] : TrimKey(k) = n])]>>
      [] OTHER -> j

\* The names of a blueprint struct are trimmed.
ToJsonObject(type, v, bp) == IF bp THEN TrimValueKeyNames(Export(type, v, TRUE))
                             ELSE Export(type, v, FALSE)

\* A binary is a string of its base64 text in a file.
Serialize(j) ==
    CASE j[1] = "binary" -> <<"base64", j[2]>>
      [] j[1] \in {"array", "object"} -> <<j[1], [k \in DOMAIN j[2] |-> Serialize(j[2][k])]>>
      [] OTHER -> j

\* StructToBytes trims a blueprint struct once more.
StructToBytes(type, v, bp) ==
    LET j == ToJsonObject(type, v, bp)
    IN  Serialize(IF bp THEN TrimValueKeyNames(j) ELSE j)

-----------------------------------------------------------------------------
(* From JSON.                                                              *)

\* SetTrimmedKeyMapForStruct: the long name of a trimmed one.
LongKeys(fields, name) == {i \in DOMAIN fields : TrimKey(fields[i][1]) = name}

\* ReplaceJsonValueNamesWithMap, guided by the type the map was made from: the
\* map of an array is that of its elements, that of a map goes for every value.
ReplaceNames(type, j) ==
    CASE j[1] = "array" ->
            LET inner == IF type[1] = "array" THEN type[2] ELSE type
            IN  <<"array", [i \in DOMAIN j[2] |-> ReplaceNames(inner, j[2][i])]>>
      [] j[1] = "object" /\ type[1] = "map" ->
            <<"object", [k \in DOMAIN j[2] |-> ReplaceNames(type[2], j[2][k])]>>
      [] j[1] = "object" /\ type[1] = "struct" ->
            LET found == [k \in DOMAIN j[2] |-> LongKeys(type[2], k)]
                Long(k) == IF found[k] = {} THEN k ELSE type[2][CHOOSE i \in found[k] : TRUE][1]
            IN  <<"object", [n \in {Long(k) : k \in DOMAIN j[2]} |->
                    LET k == CHOOSE k \in DOMAIN j[2] : Long(k) = n
                    IN  IF found[k] = {} THEN j[2][k]
                        ELSE ReplaceNames(type[2][CHOOSE i \in found[k] : TRUE][2], j[2][k])]>>
      [] OTHER -> j

\* An import returns whether it succeeded and what the property holds then.
Fails(before) == <<FALSE, before>>

AsNumber(j) == IF j = <<"boolean", TRUE>> THEN 1 ELSE IF j[1] = "number" THEN j[2] ELSE 0

\* A string names an enumerator by its display name; anything else is a number.
ImportEnum(j, before) ==
    LET found == {i \in DOMAIN EnumNames : <<"string", EnumNames[i]>> = j}
    IN  IF j[1] # "string" THEN <<TRUE, <<"enum", AsNumber(j)>>>>
        ELSE IF found = {} THEN Fails(before)
        ELSE <<TRUE, <<"enum", (CHOOSE i \in found : TRUE) - 1>>>>

\* The workaround for arrays of bytes: a binary, or a string of base64, as well as an
\* array of numbers.
ImportBytes(j, before) ==
    IF j[1] \in {"binary", "base64"} THEN <<TRUE, <<"bytes", j[2]>>>>
    ELSE IF j[1] = "array" THEN <<TRUE, <<"bytes", [i \in DOMAIN j[2] |-> j[2][i][2]]>>>>
    ELSE Fails(before)

\* The array is resized and its elements read one after the other; a null leaves
\* the element as it is.
ImportArray(type, j, before) ==
    IF j[1] # "array" THEN Fails(before)
    ELSE LET resized == [i \in DOMAIN j[2] |-> IF i \in DOMAIN before[2] THEN before[2][i]
                                               ELSE Default(type[2])]
         IN  FoldLeftDomain(
                LAMBDA acc, i :
                    IF ~acc[1] \/ j[2][i] = Null THEN acc
                    ELSE LET r == Import(type[2], j[2][i], acc[2][2][i])
                         IN  <<r[1], <<"array", [acc[2][2] EXCEPT ![i] = r[2]]>>>>,
                <<TRUE, <<"array", resized>>>>, j[2])

\* The values of a map are emptied first.
ImportMap(type, j, before) ==
    IF j[1] # "object" THEN Fails(before)
    ELSE LET keys == {k \in DOMAIN j[2] : j[2][k] # Null}
             read == [k \in keys |-> Import(type[2], j[2][k], Default(type[2]))]
         IN  <<\A k \in keys : read[k][1], <<"map", [k \in keys |-> read[k][2]]>>>>

\* The elements of a set are added to those it has.
ImportSet(type, j, before) ==
    IF j[1] # "array" THEN Fails(before)
    ELSE LET read == {Import(type[2], j[2][i], Default(type[2])) : i \in DOMAIN j[2]}
         IN  <<\A r \in read : r[1], <<"set", before[2] \cup {r[2] : r \in read}>>>>

\* JsonAttributesToUStruct reads the fields in the order of the definition, leaves
\* what is missing or null as it is, and stops at the first that fails.
ImportStruct(type, j, before) ==
    IF j[1] # "object" THEN Fails(before)
    ELSE FoldLeftDomain(
            LAMBDA acc, i :
                LET name == type[2][i][1]
                IN  IF ~acc[1] \/ name \notin DOMAIN j[2] THEN acc
                    ELSE IF j[2][name] = Null THEN acc
                    ELSE LET r == Import(type[2][i][2], j[2][name], acc[2][2][i])
                         IN  <<r[1], <<"struct", [acc[2][2] EXCEPT ![i] = r[2]]>>>>,
            <<TRUE, before>>, type[2])

\* JsonValueToFProperty and ConvertScalarJsonValueToFProperty.
Import(type, j, before) ==
    CASE type[1] = "enum" -> ImportEnum(j, before)
      [] type[1] = "bytes" -> ImportBytes(j, before)
      [] type[1] = "array" -> ImportArray(type, j, before)
      [] type[1] = "map" -> ImportMap(type, j, before)
      [] type[1] = "set" -> ImportSet(type, j, before)
      [] type[1] = "struct" -> ImportStruct(type, j, before)
      [] OTHER -> <<TRUE, j>>

-----------------------------------------------------------------------------

ConvertInit ==
    /\ \E s \in Samples :
          /\ sample \in {<<s[1], v>> : v \in s[2]}
          /\ target \in s[2] \cup {Default(s[1])}
    /\ old = target
    /\ route = "none" /\ json = Null
    /\ changed = <<0, "none">>
    /\ result = "none"

\* EmitNative of a blueprint struct, its ToJsonFile, or SaveStructToJsonFile, the node,
\* which does not say that its struct is a blueprint's.
Writes ==
    /\ json = Null
    /\ \/ route' = "event" /\ json' = ToJsonObject(sample[1], sample[2], TRUE)
       \/ route' = "file"  /\ json' = StructToBytes(sample[1], sample[2], TRUE)
       \/ route' = "node"  /\ json' = StructToBytes(sample[1], sample[2], FALSE)
    /\ UNCHANGED <<sample, target, old, changed, result>>

Fields == sample[1][2]

\* A field's key in the JSON that was written.
KeyOf(name) == CASE route = "event" -> TrimKey(name)
                 [] route = "file" -> TrimKey(TrimKey(name))
                 [] route = "node" -> name

Unreadable(type) == IF type[1] = "enum" THEN <<"string", "no enumerator">> ELSE <<"boolean", TRUE>>

\* A peer leaves a field out, sets it to null, to what its property cannot hold or,
\* an enum, to a number or a boolean, or adds one the struct has not.
PeerChanges(i, how) ==
    /\ json # Null /\ changed = <<0, "none">> /\ result = "none"
    /\ changed' = <<i, how>>
    /\ LET key  == KeyOf(Fields[i][1])
           keys == DOMAIN json[2]
       IN  json' = <<"object",
               CASE how = "missing" -> [k \in keys \ {key} |-> json[2][k]]
                 [] how = "null" -> [json[2] EXCEPT ![key] = Null]
                 [] how = "wrong" -> [json[2] EXCEPT ![key] = Unreadable(Fields[i][2])]
                 [] how = "one" -> [json[2] EXCEPT ![key] = <<"number", 1>>]
                 [] how = "true" -> [json[2] EXCEPT ![key] = <<"boolean", TRUE>>]
                 [] how = "more" -> [k \in keys \cup {<<"other">>} |->
                                        IF k \in keys THEN json[2][k] ELSE Null]>>
    /\ UNCHANGED <<sample, route, target, old, result>>

\* JsonObjectToUStruct of an event's JSON, or of a file's.
Reads ==
    /\ json # Null /\ result = "none"
    /\ LET r == Import(sample[1], ReplaceNames(sample[1], json), target)
       IN  result' = (IF r[1] THEN "read" ELSE "failed") /\ target' = r[2]
    /\ UNCHANGED <<sample, route, old, json, changed>>

Rigid == {"enum", "bytes", "array", "map", "set", "struct"}

ConvertNext ==
    \/ Writes \/ Reads
    \/ \E i \in DOMAIN Fields, how \in {"missing", "null", "wrong", "one", "true", "more"} :
          /\ how = "wrong" => Fields[i][2][1] \in Rigid
          /\ how \in {"one", "true"} => Fields[i][2][1] = "enum"
          /\ PeerChanges(i, how)

ConvertSpec == ConvertInit /\ [][ConvertNext]_convertVars

-----------------------------------------------------------------------------
(* Properties.                                                             *)

\* The file of a blueprint struct is trimmed twice: a name whose own part has two
\* underscores is cut short there, and the struct does not know it any more.
CutShort(name) == route = "file" /\ Len(name) > 4

\* What a property should hold that held before, and is read from what v was written
\* to: v, through structs, arrays and maps, and the sets united.
Held(type, v, before) ==
    CASE type[1] = "struct" ->
            <<"struct", [i \in DOMAIN v[2] |-> IF CutShort(type[2][i][1]) THEN before[2][i]
                                               ELSE Held(type[2][i][2], v[2][i], before[2][i])]>>
      [] type[1] = "array" ->
            <<"array", [i \in DOMAIN v[2] |->
                            Held(type[2], v[2][i], IF i \in DOMAIN before[2] THEN before[2][i]
                                                   ELSE Default(type[2]))]>>
      [] type[1] = "map" -> <<"map", [k \in DOMAIN v[2] |-> Held(type[2], v[2][k], Default(type[2]))]>>
      [] type[1] = "set" -> <<"set", v[2] \cup before[2]>>
      [] OTHER -> v

\* A struct comes back from its JSON, or from a file, as it was, whatever the
\* struct it is read into held; what the peer left out or cleared stays, and a field
\* that cannot be read fails the call after the fields before it.  A number or a
\* boolean is a value of an enum.  In the twice trimmed file, names with two
\* underscores of their own are lost, and their properties stay as they were.
StructSurvives ==
    result # "none" =>
        LET field == changed[1]
            fails == changed[2] = "wrong" /\ ~CutShort(Fields[field][1])
        IN  /\ (result = "failed") = fails
            /\ \A i \in DOMAIN Fields :
                  target[2][i] =
                     IF CutShort(Fields[i][1])
                        \/ (field = i /\ changed[2] \in {"missing", "null"})
                        \/ (fails /\ i >= field)
                     THEN old[2][i]
                     ELSE IF field = i /\ changed[2] \in {"one", "true"} THEN <<"enum", 1>>
                     ELSE Held(Fields[i][2], sample[2][2][i], old[2][i])
=============================================================================
