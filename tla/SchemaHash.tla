----------------------------- MODULE SchemaHash -----------------------------
(***************************************************************************)
(* The type identity of a payload (schema_hash.hpp): what SchemaHashOf     *)
(* hashes for a type that XMMSG_DESCRIBE lists and for one that it does    *)
(* not.  A type is a key of Decl; two keys with one `name' are what two    *)
(* builds make of one C++ type.  The text of a description is the sequence *)
(* of its lines, a dotted path the sequence of its field names and indices.*)
(***************************************************************************)
EXTENDS Integers, Sequences
LOCAL INSTANCE SequencesExt

CONSTANTS
  Decl,         \* key: name, size, align, described, and the members in order,
                \* each with name, type, dims, offset, listed
  Fnv1a64(_)    \* the hash of a description

\* bool and enums canonicalise as an integer.
ScalarToken == [uint8_t |-> "u8", bool |-> "u8", uint32_t |-> "u32", enum |-> "u32",
                int32_t |-> "i32", float |-> "f32", double |-> "f64"]
ScalarSize  == [u8 |-> 1, u32 |-> 4, i32 |-> 4, f32 |-> 4, f64 |-> 8]

IsWireDescribed(t) == t \in DOMAIN Decl /\ Decl[t].described
Sizeof(t) == IF t \in DOMAIN Decl THEN Decl[t].size ELSE ScalarSize[ScalarToken[t]]

Product(dims) == FoldLeft(LAMBDA a, b : a * b, 1, dims)

\* The k-th element of an array, in row-major order, as its indices.
Index(dims, k) ==
  [d \in DOMAIN dims |-> (k \div Product(SubSeq(dims, d + 1, Len(dims)))) % dims[d]]

\* What the compiler makes sure of: a listed field is a scalar, a described
\* struct or an array of these, and no array is empty.
ASSUME SchemaAssumption ==
  \A t \in DOMAIN Decl : \A i \in DOMAIN Decl[t].members :
    LET m == Decl[t].members[i] IN
    /\ m.type \in DOMAIN ScalarToken \/ IsWireDescribed(m.type)
    /\ \A d \in DOMAIN m.dims : m.dims[d] > 0

-----------------------------------------------------------------------------
\* The canonical form.

\* Mutant: a line does not say which field it is about.
LeafLineAnonymous(m) ==
  [path |-> <<>>, token |-> ScalarToken[m.type], dims |-> m.dims,
   offset |-> m.offset, size |-> Sizeof(m.type) * Product(m.dims)]

\* AppendLeafLine: `name:type[dims]:offset:size'.
LeafLine(m) ==
  [path |-> <<[field |-> m.name, index |-> <<>>]>>, token |-> ScalarToken[m.type],
   dims |-> m.dims, offset |-> m.offset, size |-> Sizeof(m.type) * Product(m.dims)]

\* The lines of a nested struct, under its path and at its place.
Nested(step, base, lines) ==
  [k \in DOMAIN lines |->
     [lines[k] EXCEPT !.path = <<step>> \o @, !.offset = base + @]]

\* The listed fields in order: DescribeField gives a scalar or an array of
\* scalars one line, a described struct the lines of its fields, an array of them
\* those of each element.
AppendFields[t \in DOMAIN Decl] ==
  LET DescribeField(m) ==
        IF IsWireDescribed(m.type)
        THEN FlattenSeq([k \in 1..Product(m.dims) |->
               Nested([field |-> m.name, index |-> Index(m.dims, k - 1)],
                      m.offset + (k - 1) * Sizeof(m.type), AppendFields[m.type])])
        ELSE <<LeafLine(m)>>
      listed == SelectSeq(Decl[t].members, LAMBDA m : m.listed)
  IN FlattenSeq([i \in DOMAIN listed |-> DescribeField(listed[i])])

CanonicalDescription(t) == [size |-> Decl[t].size, lines |-> AppendFields[t]]

\* Rule 10: the extents follow one another from 0 to the size.
ExtentsTile(t) ==
  LET lines == AppendFields[t]
      End(k) == IF k = 0 THEN 0 ELSE lines[k].offset + lines[k].size
  IN /\ \A k \in DOMAIN lines : lines[k].offset = End(k - 1)
     /\ End(Len(lines)) = Decl[t].size

-----------------------------------------------------------------------------
InterimDescription(t) ==
  [interim |-> Decl[t].name, size |-> Decl[t].size, align |-> Decl[t].align]

Description(t) ==
  IF IsWireDescribed(t) THEN CanonicalDescription(t) ELSE InterimDescription(t)

SchemaHashOf(t) == Fnv1a64(Description(t))

\* The assertion of CanonicalDescription, in a build that evaluates it.
Asserted(t) == IsWireDescribed(t) => ExtentsTile(t)

-----------------------------------------------------------------------------
\* The reference: which scalar, of which member, is at which byte, for every
\* member whether XMMSG_DESCRIBE lists it or not.
Layout[t \in DOMAIN Decl] ==
  UNION {LET m == Decl[t].members[i]
             At(k) == m.offset + k * Sizeof(m.type)
             Step(k) == [field |-> m.name, index |-> Index(m.dims, k)]
         IN UNION {IF m.type \in DOMAIN Decl
                   THEN {[path |-> <<Step(k)>> \o x.path, token |-> x.token,
                          at |-> At(k) + x.at] : x \in Layout[m.type]}
                   ELSE {[path |-> <<Step(k)>>, token |-> ScalarToken[m.type], at |-> At(k)]} :
                   k \in 0..Product(m.dims) - 1} :
         i \in DOMAIN Decl[t].members}
=============================================================================
