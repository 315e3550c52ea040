--------------------------- MODULE StoredMessages ---------------------------
(***************************************************************************)
(* AxonStorage: the requests a worker retains, saved to Avro files and     *)
(* loaded from them, with the conversions of AvroSerialization and the     *)
(* view of a message's tensors (AxonMessage).                              *)
(*                                                                         *)
(* Integers keep their widths, scaled down: types of 8, 16, 32 and 64 bits *)
(* are of 2, 3, 4 and 5 here, with 4, 8, 16 and 32 values.  A payload is a *)
(* list of contents and the memory it is in.  FileStreams has how the      *)
(* bytes get to the disk.                                                  *)
(***************************************************************************)
EXTENDS Integers, Sequences, FiniteSets

CONSTANTS
    Names,      \* file names: a prefix or a session, and the millisecond
    MaxStored   \* bound on the requests in the storage

VARIABLES
    incoming,   \* the request that is retained in this behaviour
    arrival,    \* arrival_requests_
    files,      \* per name: what the file holds
    saved       \* history: per name, the requests last written

stVars == <<incoming, arrival, files, saved>>

Thrown == [exception |-> TRUE]
NoFile == [none |-> TRUE]

-----------------------------------------------------------------------------
(* Conversions.                                                            *)

\* How many values a type has, and whether half of them are negative.
Ints ==
    [i8 |-> [size |-> 4, signed |-> TRUE], i16 |-> [size |-> 8, signed |-> TRUE],
     i32 |-> [size |-> 16, signed |-> TRUE], i64 |-> [size |-> 32, signed |-> TRUE],
     u8 |-> [size |-> 4, signed |-> FALSE], u16 |-> [size |-> 8, signed |-> FALSE],
     u32 |-> [size |-> 16, signed |-> FALSE], u64 |-> [size |-> 32, signed |-> FALSE]]

\* static_cast between integers.
Cast(v, size, signed) ==
    LET u == v % size
    IN IF signed /\ 2 * u >= size THEN u - size ELSE u

\* The branch of the union for a type: integers of up to 32 bits are an int,
\* the others a long, both signed.
AvroType(base) ==
    IF base \notin DOMAIN Ints THEN base
    ELSE IF Ints[base].size <= Ints.i32.size THEN "int" ELSE "long"

AvroSize == [int |-> Ints.i32.size, long |-> Ints.i64.size]

ToAvro(base, v) ==
    IF base \in DOMAIN Ints THEN Cast(v, AvroSize[AvroType(base)], TRUE) ELSE v

\* A conversion that forgets to go back to the unsigned type.
FromAvroSigned(base, v) ==
    IF base \in DOMAIN Ints THEN Cast(v, Ints[base].size, TRUE) ELSE v

FromAvro(base, v) ==
    IF base \in DOMAIN Ints THEN Cast(v, Ints[base].size, Ints[base].signed)
    ELSE v

\* The header's own fields, and those of a TensorMeta.
HeaderFields == [function_id |-> "u32", session_id |-> "u32",
                 request_id |-> "u32", hlc |-> "u64", workflow_id |-> "u32"]
TensorFields == [device_type |-> "i32", device_id |-> "i32", ndim |-> "i32",
                 code |-> "u8", bits |-> "u8", lanes |-> "u16",
                 byte_offset |-> "u64", shape |-> "i64", strides |-> "i64"]

FieldsToAvro(fields, rec) ==
    [f \in DOMAIN fields |-> ToAvro(fields[f], rec[f])]
FieldsFromAvro(fields, rec) ==
    [f \in DOMAIN fields |-> FromAvro(fields[f], rec[f])]

Map(s, Op(_)) == [i \in DOMAIN s |-> Op(s[i])]

SerializePrimitiveToAvro(p) ==
    [branch |-> AvroType(p.base), value |-> ToAvro(p.base, p.content)]
SerializeVectorToAvro(p) ==
    [branch |-> <<AvroType(p.base)>>,
     value |-> Map(p.content, LAMBDA v : ToAvro(p.base, v))]

ConvertParamMetaToAvro(p) ==
    CASE p.type = "void" -> [branch |-> "null", value |-> "null"]
      [] p.type = "primitive" -> SerializePrimitiveToAvro(p)
      [] p.type = "vector" -> SerializeVectorToAvro(p)
      [] p.type = "tensor" ->
           [branch |-> "tensor", value |-> FieldsToAvro(TensorFields, p.content)]
      [] p.type = "tensorVec" ->
           [branch |-> "tensorVec",
            value |-> Map(p.content, LAMBDA t : FieldsToAvro(TensorFields, t))]

\* value<T>() of another branch throws.
DeserializePrimitiveFromAvro(p, d) ==
    IF d.branch # AvroType(p.base) THEN Thrown ELSE FromAvro(p.base, d.value)
DeserializeVectorFromAvro(p, d) ==
    IF d.branch # <<AvroType(p.base)>> THEN Thrown
    ELSE Map(d.value, LAMBDA v : FromAvro(p.base, v))

ConvertAvroToParamMeta(p, d) ==
    [p EXCEPT !.content =
       CASE p.type = "void" -> "null"
         [] p.type = "primitive" -> DeserializePrimitiveFromAvro(p, d)
         [] p.type = "vector" -> DeserializeVectorFromAvro(p, d)
         [] p.type = "tensor" -> FieldsFromAvro(TensorFields, d.value)
         [] p.type = "tensorVec" ->
              Map(d.value, LAMBDA t : FieldsFromAvro(TensorFields, t))]

\* The contents are copied to the host; sizes go with them.
ConvertPayloadToAvro(payload) ==
    [branch |-> payload.kind, parts |-> payload.parts]
ConvertAvroToPayloadVariant(d) ==
    [kind |-> d.branch, parts |-> d.parts,
     mem |-> IF d.branch = "none" THEN "none" ELSE "host"]

Serialize(m) ==
    [header |-> FieldsToAvro(HeaderFields, m.header),
     params |-> Map(m.params, LAMBDA p :
                      [meta |-> [p EXCEPT !.content = "null"],
                       datum |-> ConvertParamMetaToAvro(p)]),
     payload |-> ConvertPayloadToAvro(m.payload)]

-----------------------------------------------------------------------------
(* Messages and their tensors.                                             *)

TensorParams(params) ==
    {i \in DOMAIN params : params[i].type \in {"tensor", "tensorVec"}}

\* The position of the one tensor parameter, 0 without one; -1 is the
\* exception for several: such a message cannot be constructed.
ExtractTensorParamIndex(params) ==
    CASE TensorParams(params) = {} -> 0
      [] Cardinality(TensorParams(params)) = 1 ->
           CHOOSE i \in TensorParams(params) : TRUE
      [] OTHER -> -1

\* The asserts on the payload are not in a release build.
AxonMessage(header, params, payload) ==
    [header |-> header, params |-> params, payload |-> payload,
     tensorParam |-> ExtractTensorParamIndex(params)]

GetTensorCount(m) ==
    IF m.tensorParam = 0 THEN 0
    ELSE IF m.params[m.tensorParam].type = "tensor" THEN 1
    ELSE Len(m.params[m.tensorParam].content)

\* Tensor i, from 1: its description and its contents.
GetTensor(m, i) ==
    IF m.tensorParam = 0 \/ i > GetTensorCount(m) THEN Thrown
    ELSE IF i > Len(m.payload.parts) THEN Thrown
    ELSE LET p == m.params[m.tensorParam]
         IN [meta |-> IF p.type = "tensor" THEN p.content ELSE p.content[i],
             data |-> m.payload.parts[i]]

GetTensorVec(m) == [i \in 1 .. GetTensorCount(m) |-> GetTensor(m, i)]

Deserialize(d) ==
    AxonMessage(FieldsFromAvro(HeaderFields, d.header),
                Map(d.params, LAMBDA r :
                      ConvertAvroToParamMeta(r.meta, r.datum)),
                ConvertAvroToPayloadVariant(d.payload))

-----------------------------------------------------------------------------
(* The storage.                                                            *)

\* Values at the ends of a type's range.
Ends(base) ==
    IF base \in DOMAIN Ints
    THEN {Cast(v, Ints[base].size, Ints[base].signed) :
            v \in {0, -1, Ints[base].size \div 2}}
    ELSE {base}

TensorOf(x) == [f \in DOMAIN TensorFields |-> Cast(x, Ints[TensorFields[f]].size,
                                                   Ints[TensorFields[f]].signed)]

Bases == DOMAIN Ints \cup {"bool", "float", "double", "string"}

\* The parameters of the requests that come, with what their tensors hold.
Shapes ==
    {[params |-> <<>>, payload |-> [kind |-> "none", parts |-> <<>>]],
     [params |-> <<[type |-> "void", base |-> "void", content |-> "null"]>>,
      payload |-> [kind |-> "none", parts |-> <<>>]]}
    \cup (UNION {{[params |-> <<[type |-> "primitive", base |-> b, content |-> v],
                                [type |-> "vector", base |-> b,
                                 content |-> <<v, v>>]>>,
                   payload |-> [kind |-> "none", parts |-> <<>>]] :
                    v \in Ends(b)} : b \in Bases})
    \cup {[params |-> <<[type |-> "primitive", base |-> "u32", content |-> 0],
                        [type |-> "tensor", base |-> "tensor",
                         content |-> TensorOf(x)]>>,
           payload |-> [kind |-> "buf", parts |-> <<"x">>]] : x \in {0, -1}}
    \cup {[params |-> <<[type |-> "tensorVec", base |-> "tensors",
                         content |-> <<TensorOf(1), TensorOf(-1)>>]>>,
           payload |-> [kind |-> "vec", parts |-> <<"x", "y">>]]}

Incoming ==
    {AxonMessage([f \in DOMAIN HeaderFields |->
                    Cast(id, Ints[HeaderFields[f]].size, FALSE)],
                 s.params,
                 [kind |-> s.payload.kind, parts |-> s.payload.parts,
                  mem |-> IF s.payload.kind = "none" THEN "none" ELSE mem]) :
       id \in {1, -1}, s \in Shapes, mem \in {"host", "cuda"}}

StInit ==
    /\ incoming \in Incoming
    /\ arrival = <<>>
    /\ files = [n \in Names |-> NoFile]
    /\ saved = [n \in Names |-> <<>>]

Emplace ==
    /\ Len(arrival) < MaxStored
    /\ arrival' = Append(arrival, incoming)
    /\ UNCHANGED <<incoming, files, saved>>

EraseAt(i) ==
    /\ arrival' = [j \in 1 .. Len(arrival) - 1 |->
                     IF j < i THEN arrival[j] ELSE arrival[j + 1]]
    /\ UNCHANGED <<incoming, files, saved>>

\* The requests are in the file, with something behind them or not.
WriteTo(n, requests, tails) ==
    /\ \E tail \in tails :
         files' = [files EXCEPT ![n] =
                     [records |-> Map(requests, Serialize), tail |-> tail]]
    /\ saved' = [saved EXCEPT ![n] = requests]
    /\ UNCHANGED <<incoming, arrival>>

\* AsyncUnifexAvroIO::Save.  Nothing is written for no request.  A file of
\* this name, saved in the same millisecond, is overwritten from its start:
\* what is longer may remain behind the new contents.  A save that fails
\* returns io_error and leaves the blocks written so far, the last one perhaps
\* in part.
SaveTo(n, requests) ==
    /\ requests # <<>>
    /\ \/ WriteTo(n, requests,
                  {0, IF files[n] = NoFile THEN 0
                      ELSE IF Len(files[n].records) > Len(requests) THEN 1
                      ELSE 0})
       \/ \E k \in 0 .. Len(requests) :
            WriteTo(n, SubSeq(requests, 1, k), {0, 1})

Save(n) == SaveTo(n, arrival)

SaveRequest(n, i) == SaveTo(n, <<arrival[i]>>)

\* AsyncUnifexAvroIO::Load: no file, or one with something behind its
\* records, is an error and adds nothing.
Loadable(n) == files[n] # NoFile /\ files[n].tail = 0
LoadFrom(n) == Map(files[n].records, Deserialize)

Load(n) ==
    /\ Loadable(n)
    /\ Len(arrival) + Len(files[n].records) <= MaxStored
    /\ arrival' = arrival \o LoadFrom(n)
    /\ UNCHANGED <<incoming, files, saved>>

StNext ==
    \/ Emplace
    \/ \E i \in DOMAIN arrival : EraseAt(i)
    \/ \E n \in Names : \/ Save(n)
                        \/ \E i \in DOMAIN arrival : SaveRequest(n, i)
                        \/ Load(n)

-----------------------------------------------------------------------------
OnHost(m) ==
    [m EXCEPT !.payload.mem = IF @ = "none" THEN "none" ELSE "host"]

\* Whatever is saved, erased and saved again, a file gives back the requests
\* last saved to it, each with its ids, its parameters at the ends of their
\* ranges, its tensors and its payload, now in host memory; after a save that
\* failed the first of them; or, overwritten in the same millisecond or cut
\* off, an error (AvroSerialization, AxonMessage, AsyncUnifexAvroIO).
LoadRestores ==
    /\ \A n \in Names :
         Loadable(n) => LoadFrom(n) = Map(saved[n], OnHost)
    /\ \A i \in DOMAIN arrival : Thrown \notin
         {GetTensorVec(arrival[i])[j] : j \in 1 .. GetTensorCount(arrival[i])}

=============================================================================
