------------------------- MODULE ConfigChangeProofs -------------------------
(***************************************************************************)
(* Proofs about config changes, for every set of documents that the user   *)
(* may write: the process does what the committed plan says, the manager   *)
(* calls a controller that the process serves, and two epochs side by side *)
(* listen on nothing in common.                                            *)
(*                                                                         *)
(* LiveMatchesPlan is not inductive: a null in a field that is patched     *)
(* decodes to None, is sent to nobody, and a later edit may take it out    *)
(* again.  Agrees is what remains true of such a process: it has adopted   *)
(* everything but the nulls of the patch fields.  The lemmas on Diff say   *)
(* that no difference is passed over, those on ClassifyDocuments that a    *)
(* Patch has every changed leaf in it and a Reload only fields that are    *)
(* read again, and PatchAgrees that a verified PATCH, taken by the core or *)
(* not, leaves a process that agrees with the new document.                *)
(***************************************************************************)
EXTENDS ConfigChange, TLAPS

(* The kinds of what is there and of what is not.                          *)
LEMMA Kinds ==
  /\ ~IsMap(Absent) /\ ~IsMap(Null) /\ Absent # Null
  /\ \A f : IsMap(Map(f)) /\ Map(f)[2] = f /\ Map(f) # Absent /\ Map(f) # Null
  /\ Absent[1] = "absent" /\ Null[1] = "null"
BY DEF IsMap, Absent, Null, Map

(* Two functions with the same values are one.                             *)
LEMMA SameFunction ==
  ASSUME NEW f, NEW g, IsFunction(f), IsFunction(g), DOMAIN f = DOMAIN g,
         \A k \in DOMAIN f : f[k] = g[k]
  PROVE  f = g
BY DEF IsFunction

(* A document has a value at exactly its keys.                             *)
LEMMA HasKey ==
  ASSUME NEW doc, IsDocument(doc), NEW k
  PROVE  /\ k \in DOMAIN doc <=> Get(doc, k) # Absent
         /\ k \in DOMAIN doc => Get(doc, k) = doc[k] /\ IsValue(doc[k])
BY Kinds DEF IsDocument, IsValue, Get

(* And so has a mapping.                                                   *)
LEMMA HasField ==
  ASSUME NEW v, IsValue(v), IsMap(v), NEW f
  PROVE  /\ f \in DOMAIN v[2] <=> Field(v, f) # Absent
         /\ Field(v, f) = Get(v[2], f)
         /\ f \in DOMAIN v[2] => Field(v, f) = v[2][f]
BY DEF IsValue, Field, Get

(* Documents that agree at every key are one.                              *)
LEMMA SameDocument ==
  ASSUME NEW c, NEW d, IsDocument(c), IsDocument(d), \A k : Get(c, k) = Get(d, k)
  PROVE  c = d
<1>1. \A k : k \in DOMAIN c <=> k \in DOMAIN d
  BY HasKey
<1>2. DOMAIN c = DOMAIN d
  BY <1>1
<1>3. \A k \in DOMAIN c : c[k] = d[k]
  BY <1>1, HasKey
<1> QED BY <1>2, <1>3, SameFunction DEF IsDocument

(* Mappings that agree at every field are one.                             *)
LEMMA SameMapping ==
  ASSUME NEW v, NEW w, IsValue(v), IsValue(w), IsMap(v), IsMap(w), \A f : Field(v, f) = Field(w, f)
  PROVE  v = w
<1>1. \A f : f \in DOMAIN v[2] <=> f \in DOMAIN w[2]
  BY HasField
<1>2. DOMAIN v[2] = DOMAIN w[2]
  BY <1>1
<1>3. \A f \in DOMAIN v[2] : v[2][f] = w[2][f]
  BY <1>1, HasField
<1>4. v[2] = w[2]
  BY <1>2, <1>3, SameFunction DEF IsValue
<1> QED BY <1>4 DEF IsValue

(* What is read back after one key was set.                                *)
LEMMA WithGet ==
  ASSUME NEW doc, NEW k, NEW v, NEW x
  PROVE  Get(With(doc, k, v), x) = IF x = k THEN v ELSE Get(doc, x)
<1>1. DOMAIN With(doc, k, v) = DOMAIN doc \cup {k}
  BY DEF With
<1> QED BY <1>1 DEF With, Get

(* And after keys were removed.                                            *)
LEMMA WithoutGet ==
  ASSUME NEW doc, NEW ks, NEW x
  PROVE  Get(Without(doc, ks), x) = IF x \in ks THEN Absent ELSE Get(doc, x)
<1>1. DOMAIN Without(doc, ks) = DOMAIN doc \ ks
  BY DEF Without
<1> QED BY <1>1 DEF Without, Get

(* A document stays one when a value is set and when keys are removed.     *)
LEMMA WithIsDocument ==
  ASSUME NEW doc, IsDocument(doc), NEW k, NEW v, IsValue(v)
  PROVE  IsDocument(With(doc, k, v))
BY DEF IsDocument, IsFunction, With

(* The same for removals.                                                  *)
LEMMA WithoutIsDocument ==
  ASSUME NEW doc, IsDocument(doc), NEW ks
  PROVE  IsDocument(Without(doc, ks))
BY DEF IsDocument, IsFunction, Without

(* A mapping stays a value when one of its fields is set or removed.       *)
LEMMA FieldIsValue ==
  ASSUME NEW v, IsValue(v), IsMap(v), NEW f, NEW w, w # Absent
  PROVE  IsValue(Map(With(v[2], f, w))) /\ IsValue(Map(Without(v[2], {f})))
<1>1. /\ IsFunction(With(v[2], f, w))
      /\ \A x \in DOMAIN With(v[2], f, w) : With(v[2], f, w)[x] # Absent
  BY DEF IsValue, IsFunction, With
<1>2. /\ IsFunction(Without(v[2], {f}))
      /\ \A x \in DOMAIN Without(v[2], {f}) : Without(v[2], {f})[x] # Absent
  BY DEF IsValue, IsFunction, Without
<1> QED BY <1>1, <1>2, Kinds DEF IsValue, IsMap

-----------------------------------------------------------------------------
(***************************************************************************)
(* diff                                                                    *)
(***************************************************************************)
(* What an entry says.                                                     *)
LEMMA EntrySays ==
  ASSUME NEW p, NEW v
  PROVE  Entry(p, v).path = p /\ Entry(p, v).new = v
BY DEF Entry

(* The diff is that of the keys at which the documents differ.             *)
LEMMA DiffMember ==
  ASSUME NEW c, NEW n, NEW e
  PROVE  e \in Diff(c, n) <=>
           \E k : Get(c, k) # Get(n, k) /\ e \in DiffNested(k, Get(c, k), Get(n, k))
<1>1. \A k : Get(c, k) # Get(n, k) => k \in DOMAIN c \cup DOMAIN n
  BY DEF Get
<1> QED BY <1>1 DEF Diff

(* A value or nothing.                                                     *)
Maybe(v) == v = Absent \/ IsValue(v)

(* What a document has at a key.                                           *)
LEMMA GetMaybe ==
  ASSUME NEW doc, IsDocument(doc), NEW k
  PROVE  Maybe(Get(doc, k))
BY HasKey DEF Maybe, Get

(* Only a mapping has fields, and it has those of its keys.                *)
LEMMA FieldKey ==
  ASSUME NEW v, Maybe(v), NEW f
  PROVE  /\ Field(v, f) # Absent <=> f \in KeysOf(v)
         /\ Field(v, f) # Absent => IsMap(v)
<1>1. CASE IsMap(v)
  BY <1>1, HasField, Kinds DEF Maybe, KeysOf
<1>2. CASE ~IsMap(v)
  BY <1>2 DEF Field, KeysOf
<1> QED BY <1>1, <1>2

(* Two mappings, or one where there was or will be none, that differ do so *)
(* at a field.                                                             *)
LEMMA SplitDiffers ==
  ASSUME NEW cur, NEW new, Maybe(cur), Maybe(new), cur # new, Split(cur, new),
         KeysOf(cur) \cup KeysOf(new) # {}
  PROVE  \E f \in KeysOf(cur) \cup KeysOf(new) : Field(cur, f) # Field(new, f)
<1>1. CASE IsMap(cur) /\ IsMap(new)
  <2>1. IsValue(cur) /\ IsValue(new)
    BY <1>1, Kinds DEF Maybe
  <2>2. PICK f : Field(cur, f) # Field(new, f)
    BY <1>1, <2>1, SameMapping
  <2>3. f \in KeysOf(cur) \cup KeysOf(new)
    BY <2>2, FieldKey
  <2> QED BY <2>2, <2>3
<1>2. CASE ~(IsMap(cur) /\ IsMap(new))
  <2>1. cur = Absent \/ new = Absent
    BY <1>2, Kinds DEF Split
  <2>2. PICK f : f \in KeysOf(cur) \cup KeysOf(new)
    OBVIOUS
  <2>3. Field(Absent, f) = Absent /\ KeysOf(Absent) = {}
    BY Kinds DEF Field, KeysOf
  <2>4. Field(cur, f) # Field(new, f)
    BY <2>1, <2>2, <2>3, FieldKey
  <2> QED BY <2>2, <2>4
<1> QED BY <1>1, <1>2

(* The entries at a key that is not looked into.                           *)
LEMMA DiffFlat ==
  ASSUME NEW c, NEW n, NEW k, Get(c, k) # Get(n, k),
         ~(Split(Get(c, k), Get(n, k)) /\ KeysOf(Get(c, k)) \cup KeysOf(Get(n, k)) # {})
  PROVE  Entry(<<k>>, Get(n, k)) \in Diff(c, n)
<1>1. Entry(<<k>>, Get(n, k)) \in DiffNested(k, Get(c, k), Get(n, k))
  BY DEF DiffNested
<1> QED BY <1>1, DiffMember

(* And at a field of one that is.                                          *)
LEMMA DiffField ==
  ASSUME NEW c, NEW n, IsDocument(c), IsDocument(n), NEW k,
         Get(c, k) # Get(n, k), Split(Get(c, k), Get(n, k)),
         NEW f, Field(Get(c, k), f) # Field(Get(n, k), f)
  PROVE  Entry(<<k, f>>, Field(Get(n, k), f)) \in Diff(c, n)
<1> DEFINE cur == Get(c, k)
           new == Get(n, k)
<1>1. f \in KeysOf(cur) \cup KeysOf(new)
  BY GetMaybe, FieldKey
<1>2. Entry(<<k, f>>, Field(new, f)) \in DiffNested(k, cur, new)
  BY <1>1 DEF DiffNested
<1> QED BY <1>2, DiffMember

(* No difference is passed over.                                           *)
LEMMA DiffTells ==
  ASSUME NEW c, NEW n, IsDocument(c), IsDocument(n), NEW k, Get(c, k) # Get(n, k)
  PROVE  \E e \in Diff(c, n) : e.path[1] = k
<1> DEFINE cur == Get(c, k)
           new == Get(n, k)
<1>1. CASE Split(cur, new) /\ KeysOf(cur) \cup KeysOf(new) # {}
  <2>1. PICK f \in KeysOf(cur) \cup KeysOf(new) : Field(cur, f) # Field(new, f)
    BY <1>1, GetMaybe, SplitDiffers
  <2>2. Entry(<<k, f>>, Field(new, f)) \in Diff(c, n)
    BY <1>1, <2>1, DiffField
  <2>3. Entry(<<k, f>>, Field(new, f)).path[1] = k
    BY EntrySays
  <2> QED BY <2>2, <2>3
<1>2. CASE ~(Split(cur, new) /\ KeysOf(cur) \cup KeysOf(new) # {})
  <2>1. Entry(<<k>>, new) \in Diff(c, n)
    BY <1>2, DiffFlat
  <2>2. Entry(<<k>>, new).path[1] = k
    BY EntrySays
  <2> QED BY <2>1, <2>2
<1> QED BY <1>1, <1>2

(* Documents without a diff are one.                                       *)
LEMMA NoDiff ==
  ASSUME NEW c, NEW n, IsDocument(c), IsDocument(n), Diff(c, n) = {}
  PROVE  c = n
<1>1. \A k : Get(c, k) = Get(n, k)
  BY DiffTells
<1> QED BY <1>1, SameDocument

(* What an entry of the diff at a key looks like.                          *)
LEMMA DiffShape ==
  ASSUME NEW k, NEW cur, NEW new, NEW e \in DiffNested(k, cur, new)
  PROVE  /\ e.path[1] = k
         /\ \/ Len(e.path) = 1 /\ e.new = new
            \/ Len(e.path) = 2 /\ e.new = Field(new, e.path[2]) /\ Split(cur, new)
<1>1. CASE Split(cur, new) /\ KeysOf(cur) \cup KeysOf(new) # {}
  <2>1. PICK f : e = Entry(<<k, f>>, Field(new, f))
    BY <1>1 DEF DiffNested
  <2>2. e.path = <<k, f>> /\ e.new = Field(new, f)
    BY <2>1, EntrySays
  <2> QED BY <1>1, <2>2
<1>2. CASE ~(Split(cur, new) /\ KeysOf(cur) \cup KeysOf(new) # {})
  <2>1. e = Entry(<<k>>, new)
    BY <1>2 DEF DiffNested
  <2>2. e.path = <<k>> /\ e.new = new
    BY <2>1, EntrySays
  <2> QED BY <2>2
<1> QED BY <1>1, <1>2

-----------------------------------------------------------------------------
(***************************************************************************)
(* classify_documents                                                      *)
(***************************************************************************)
Roots(c, n) == {e.path[1] : e \in Diff(c, n)}
Sections == {"tun", "tuic-server"}

(* What a verdict says.                                                    *)
LEMMA ChangeSays ==
  ASSUME NEW kind, NEW patch
  PROVE  Change(kind, patch).kind = kind /\ Change(kind, patch).patch = patch
BY DEF Change

(* Noop is said of equal documents only.                                   *)
LEMMA NoopMeans ==
  ASSUME NEW c, NEW n, IsDocument(c), IsDocument(n), ClassifyDocuments(c, n).kind = "Noop"
  PROVE  c = n /\ ClassifyDocuments(c, n).patch = << >>
<1>1. Diff(c, n) = {} /\ ClassifyDocuments(c, n) = Change("Noop", << >>)
  BY ChangeSays DEF ClassifyDocuments, BuildPatch
<1> QED BY <1>1, NoDiff, ChangeSays

(* Reload of a change that is in the reload fields only.                   *)
LEMMA ReloadMeans ==
  ASSUME NEW c, NEW n, IsDocument(c), IsDocument(n), ClassifyDocuments(c, n).kind = "Reload",
         NEW k, Get(c, k) # Get(n, k)
  PROVE  k \in ReloadFields
<1>1. \A e \in Diff(c, n) : Reloadable(e)
  BY ChangeSays DEF ClassifyDocuments, BuildPatch
<1>2. PICK e \in Diff(c, n) : e.path[1] = k
  BY DiffTells
<1> QED BY <1>1, <1>2 DEF Reloadable

(* Patch of a change whose every entry is patchable, and that decodes.     *)
LEMMA PatchMeans ==
  ASSUME NEW c, NEW n, ClassifyDocuments(c, n).kind = "Patch"
  PROVE  /\ \A e \in Diff(c, n) : Patchable(e)
         /\ ~Undecodable(PatchOf(n, Roots(c, n)))
         /\ ClassifyDocuments(c, n).patch = Serialized(PatchOf(n, Roots(c, n)))
<1>1. (\A e \in Diff(c, n) : Patchable(e)) /\ ClassifyDocuments(c, n) = BuildPatch(n, Diff(c, n))
  BY ChangeSays DEF ClassifyDocuments, BuildPatch
<1>2. BuildPatch(n, Diff(c, n)) =
        IF Undecodable(PatchOf(n, Roots(c, n))) THEN Change("Switch", <<>>)
        ELSE Change("Patch", Serialized(PatchOf(n, Roots(c, n))))
  BY DEF BuildPatch, Roots
<1> QED BY <1>1, <1>2, ChangeSays

(* A key that is not patched has not changed; one that is is a patch field.*)
LEMMA PatchedKeys ==
  ASSUME NEW c, NEW n, IsDocument(c), IsDocument(n), ClassifyDocuments(c, n).kind = "Patch", NEW k
  PROVE  /\ k \notin Roots(c, n) => Get(c, k) = Get(n, k)
         /\ k \in Roots(c, n) => k \in PatchFields
                                  /\ \E e \in DiffNested(k, Get(c, k), Get(n, k)) : Patchable(e)
                                  /\ Get(c, k) # Get(n, k)
<1>1. k \notin Roots(c, n) => Get(c, k) = Get(n, k)
  BY DiffTells DEF Roots
<1>2. ASSUME k \in Roots(c, n)
      PROVE  /\ k \in PatchFields /\ Get(c, k) # Get(n, k)
             /\ \E e \in DiffNested(k, Get(c, k), Get(n, k)) : Patchable(e)
  <2>1. PICK e \in Diff(c, n) : e.path[1] = k
    BY <1>2 DEF Roots
  <2>2. PICK x : Get(c, x) # Get(n, x) /\ e \in DiffNested(x, Get(c, x), Get(n, x))
    BY <2>1, DiffMember
  <2>3. x = k
    BY <2>1, <2>2, DiffShape
  <2>4. Patchable(e)
    BY <2>1, PatchMeans
  <2> QED BY <2>1, <2>2, <2>3, <2>4 DEF Patchable
<1> QED BY <1>1, <1>2

(* A patched root that is no section holds the new value, or null.         *)
LEMMA PatchedScalar ==
  ASSUME NEW c, NEW n, IsDocument(c), IsDocument(n), ClassifyDocuments(c, n).kind = "Patch",
         NEW k \in Roots(c, n), k \notin Sections
  PROVE  /\ Get(n, k) # Absent /\ ~IsMap(Get(n, k))
         /\ Get(n, k) # Null =>
              /\ k \in DOMAIN ClassifyDocuments(c, n).patch
              /\ ClassifyDocuments(c, n).patch[k] = Get(n, k)
<1> DEFINE P == PatchOf(n, Roots(c, n))
<1>1. PICK e \in DiffNested(k, Get(c, k), Get(n, k)) : Patchable(e)
  BY PatchedKeys
<1>2. e.path[1] = k /\ Len(e.path) = 1 /\ e.new = Get(n, k) /\ e.new # Absent
  BY <1>1, DiffShape DEF Patchable, NestedPathSupported, Sections
<1>3. k \in DOMAIN P /\ P[k] = n[k] /\ n[k] = Get(n, k)
  BY <1>2 DEF PatchOf, Sections, Get
<1>4. ~Undecodable(P) /\ ClassifyDocuments(c, n).patch = Serialized(P)
  BY PatchMeans
<1>5. Decodes(k, "", Get(n, k))
  BY <1>3, <1>4 DEF Undecodable, Sections
<1>6. ~IsMap(Get(n, k))
  BY <1>5 DEF Decodes, IsMap, Null
<1> HIDE DEF P
<1>7. Get(n, k) # Null => k \in DOMAIN Serialized(P) /\ Serialized(P)[k] = Get(n, k)
  BY <1>3, <1>6 DEF Serialized
<1> QED BY <1>2, <1>4, <1>6, <1>7

(* A section that is patched is a mapping, only fields of its table have   *)
(* changed, and the patch holds all of those that are not null.            *)
LEMMA PatchedSection ==
  ASSUME NEW c, NEW n, IsDocument(c), IsDocument(n), ClassifyDocuments(c, n).kind = "Patch",
         NEW k \in Roots(c, n), k \in Sections
  PROVE  /\ IsMap(Get(n, k)) /\ (Get(c, k) = Absent \/ IsMap(Get(c, k)))
         /\ \A f : Field(Get(c, k), f) # Field(Get(n, k), f) =>
                     f \in NestedFields(k) /\ Field(Get(n, k), f) # Absent
         /\ k \in DOMAIN ClassifyDocuments(c, n).patch
         /\ LET v == ClassifyDocuments(c, n).patch[k]
            IN /\ IsMap(v) /\ IsValue(v) /\ Field(v, "enable") # Absent
               /\ \A f : Field(v, f) = IF f \in NestedFields(k) /\ Field(Get(n, k), f) # Null
                                       THEN Field(Get(n, k), f) ELSE Absent
<1> DEFINE cur == Get(c, k)
           new == Get(n, k)
           P == PatchOf(n, Roots(c, n))
           v == Serialized(P)[k]
<1>1. PICK e \in DiffNested(k, cur, new) : Patchable(e)
  BY PatchedKeys
<1>2. Len(e.path) = 2 /\ e.new = Field(new, e.path[2]) /\ e.new # Absent /\ Split(cur, new) /\ cur # new
  BY <1>1, DiffShape, PatchedKeys DEF Patchable, NestedPathSupported, Sections
<1>3. IsMap(new) /\ (cur = Absent \/ IsMap(cur))
  BY <1>2, Kinds DEF Split, Field
<1>4. ASSUME NEW f, Field(cur, f) # Field(new, f)
      PROVE  f \in NestedFields(k) /\ Field(new, f) # Absent
  <2>1. Entry(<<k, f>>, Field(new, f)) \in Diff(c, n)
    BY <1>2, <1>4, DiffField
  <2>2. Patchable(Entry(<<k, f>>, Field(new, f)))
    BY <2>1, PatchMeans
  <2>3. PICK x : x = Entry(<<k, f>>, Field(new, f))
    OBVIOUS
  <2>4. x.path = <<k, f>> /\ x.new = Field(new, f)
    BY <2>3, EntrySays
  <2>5. x.path[1] = k /\ x.path[2] = f
    BY <2>4
  <2> QED BY <2>2, <2>3, <2>4, <2>5 DEF Patchable, NestedPathSupported, Sections
<1>5. IsValue(new) /\ k \in DOMAIN n /\ new = n[k]
  BY <1>3, Kinds, HasKey, GetMaybe DEF Maybe
<1>6. k \in DOMAIN P /\ P[k] = Map(FilterMapping(k, new))
  BY <1>5 DEF PatchOf, Sections
<1>7. ~Undecodable(P) /\ ClassifyDocuments(c, n).patch = Serialized(P)
  BY PatchMeans
<1>8. Nested(P, k, "enable")[1] = "bool"
  BY <1>6, <1>7 DEF Undecodable, Sections
<1> HIDE DEF P
<1>9. IsMap(P[k]) /\ P[k][2] = FilterMapping(k, new) /\ P[k] # Null
  BY <1>6, Kinds
<1>10. \A f : Field(P[k], f) = IF f \in NestedFields(k) THEN Field(new, f) ELSE Absent
  BY <1>3, <1>9 DEF Field, FilterMapping, Get
<1>11. Field(P[k], "enable")[1] = "bool"
  BY <1>6, <1>8 DEF Nested, Get
<1>12. k \in DOMAIN Serialized(P)
  BY <1>6, <1>9 DEF Serialized
<1>13. v = Map([f \in {f \in DOMAIN P[k][2] : P[k][2][f] # Null} |-> P[k][2][f]])
  BY <1>6, <1>9 DEF Serialized
<1>14. IsMap(v) /\ v[2] = [f \in {f \in DOMAIN P[k][2] : P[k][2][f] # Null} |-> P[k][2][f]] /\ v = Map(v[2])
  BY <1>13, Kinds
<1>15. \A f : Field(v, f) = IF Field(P[k], f) # Null THEN Field(P[k], f) ELSE Absent
  BY <1>9, <1>14, Kinds DEF Field, Get
<1>16. \A f : Field(v, f) = IF f \in NestedFields(k) /\ Field(new, f) # Null THEN Field(new, f) ELSE Absent
  BY <1>10, <1>15, Kinds
<1>17. Field(v, "enable") # Absent
  BY <1>11, <1>15, Kinds
<1>18. \A f \in DOMAIN new[2] : new[2][f] # Absent
  BY <1>3, <1>5 DEF IsValue
<1>19. \A f \in DOMAIN v[2] : v[2][f] # Absent
  BY <1>9, <1>14, <1>18 DEF FilterMapping
<1>20. IsValue(v)
  BY <1>14, <1>19, Kinds DEF IsValue, IsFunction, IsMap
<1> QED BY <1>3, <1>4, <1>7, <1>12, <1>14, <1>16, <1>17, <1>20

(* A patch has only the roots that have changed.                           *)
LEMMA PatchRoots ==
  ASSUME NEW c, NEW n, ClassifyDocuments(c, n).kind = "Patch",
         NEW k \in DOMAIN ClassifyDocuments(c, n).patch
  PROVE  k \in Roots(c, n)
<1>1. PICK P : P = PatchOf(n, Roots(c, n))
  OBVIOUS
<1>2. k \in DOMAIN Serialized(P)
  BY <1>1, PatchMeans
<1>3. k \in DOMAIN P
  BY <1>2 DEF Serialized
<1> QED BY <1>1, <1>3 DEF PatchOf

(* And values at them.                                                     *)
LEMMA PatchIsDocument ==
  ASSUME NEW c, NEW n, IsDocument(c), IsDocument(n), ClassifyDocuments(c, n).kind = "Patch",
         NEW k \in DOMAIN ClassifyDocuments(c, n).patch
  PROVE  /\ IsValue(ClassifyDocuments(c, n).patch[k])
         /\ IsMap(ClassifyDocuments(c, n).patch[k]) <=> k \in Sections
<1>1. k \in Roots(c, n)
  BY PatchRoots
<1>2. CASE k \in Sections
  BY <1>1, <1>2, PatchedSection
<1>3. CASE k \notin Sections
  <2>1. Get(n, k) # Absent /\ ~IsMap(Get(n, k))
    BY <1>1, <1>3, PatchedScalar
  <2>2. PICK P : P = PatchOf(n, Roots(c, n))
    OBVIOUS
  <2>3. ClassifyDocuments(c, n).patch = Serialized(P) /\ k \in DOMAIN Serialized(P)
    BY <2>2, PatchMeans
  <2>4. k \in DOMAIN P /\ P[k] # Null /\ Serialized(P)[k] = IF IsMap(P[k]) THEN Serialized(P)[k] ELSE P[k]
    BY <2>3 DEF Serialized
  <2>5. P[k] = n[k] /\ n[k] = Get(n, k)
    BY <1>1, <1>3, <2>1, <2>2 DEF PatchOf, Sections, Get
  <2>6. Get(n, k) # Null
    BY <2>4, <2>5
  <2>7. ClassifyDocuments(c, n).patch[k] = Get(n, k)
    BY <1>1, <1>3, <2>6, PatchedScalar
  <2> QED BY <1>3, <2>1, <2>7, GetMaybe DEF Maybe
<1> QED BY <1>2, <1>3

-----------------------------------------------------------------------------
(***************************************************************************)
(* What a process has adopted of a document: everything, but for the null  *)
(* values of the fields that are patched.                                  *)
(***************************************************************************)
ValueAgrees(l, e) ==
  IF IsMap(e) THEN IsMap(l) /\ \A f : Field(e, f) # Null => Field(l, f) = Field(e, f)
  ELSE e # Null => l = e
Agrees(live, doc) ==
  \A k : IF k \in PatchFields THEN ValueAgrees(Get(live, k), Get(doc, k))
         ELSE Get(live, k) = Get(doc, k)

(* A fresh process agrees with its file.                                   *)
LEMMA FreshAgrees ==
  ASSUME NEW doc PROVE Agrees(doc, doc)
BY DEF Agrees, ValueAgrees

(* Without a null the process has the document.                            *)
LEMMA AgreesMeans ==
  ASSUME NEW live, NEW doc, IsDocument(live), IsDocument(doc), Agrees(live, doc), NullFree(doc)
  PROVE  live = doc
<1>1. ASSUME NEW k PROVE Get(live, k) = Get(doc, k)
  <2>1. Get(doc, k) # Null
    BY Kinds DEF NullFree, Get
  <2>2. CASE k \notin PatchFields
    BY <2>2 DEF Agrees
  <2>3. CASE k \in PatchFields /\ ~IsMap(Get(doc, k))
    BY <2>1, <2>3 DEF Agrees, ValueAgrees
  <2>4. CASE k \in PatchFields /\ IsMap(Get(doc, k))
    <3> DEFINE l == Get(live, k)
               e == Get(doc, k)
    <3>1. IsMap(l) /\ \A f : Field(e, f) # Null => Field(l, f) = Field(e, f)
      BY <2>4 DEF Agrees, ValueAgrees
    <3>2. IsValue(l) /\ IsValue(e) /\ k \in DOMAIN doc /\ e = doc[k]
      BY <2>4, <3>1, GetMaybe, HasKey, Kinds DEF Maybe
    <3>3. \A f : Field(e, f) # Null
      BY <2>4, <3>2, Kinds, HasField DEF NullFree
    <3> HIDE DEF l, e
    <3>4. l = e
      BY <2>4, <3>1, <3>2, <3>3, SameMapping DEF l, e
    <3> QED BY <3>4 DEF l, e
  <2> QED BY <2>2, <2>3, <2>4
<1> QED BY <1>1, SameDocument

(* What a PATCH leaves alone, whether the core took it or not.             *)
LEMMA MergeKeeps ==
  ASSUME NEW live, IsDocument(live), NEW patch, \A k \in DOMAIN patch : IsValue(patch[k])
  PROVE  /\ IsDocument(Merged(live, patch))
         /\ \A k : k \notin DOMAIN patch => Get(Merged(live, patch), k) = Get(live, k)
         /\ \A k \in DOMAIN patch : IsMap(patch[k]) =>
              \A f : Field(patch[k], f) = Absent =>
                Field(Get(Merged(live, patch), k), f) = Field(Get(live, k), f)
<1> DEFINE M == Merged(live, patch)
<1>1. IsFunction(M) /\ DOMAIN M = DOMAIN live \cup DOMAIN patch
  BY DEF Merged, IsFunction
<1>2. \A k : k \notin DOMAIN patch => Get(M, k) = Get(live, k)
  BY DEF Merged, Get
<1>3. ASSUME NEW k \in DOMAIN patch
      PROVE  /\ IsValue(M[k])
             /\ IsMap(patch[k]) => \A f : Field(patch[k], f) = Absent => Field(M[k], f) = Field(Get(live, k), f)
  <2>1. CASE IsMap(patch[k]) /\ IsMap(Get(live, k))
    <3>1. k \in DOMAIN live /\ Get(live, k) = live[k] /\ IsValue(live[k])
      BY <2>1, HasKey, Kinds
    <3> DEFINE g == [f \in DOMAIN live[k][2] \cup DOMAIN patch[k][2] |->
                       IF f \in DOMAIN patch[k][2] THEN patch[k][2][f] ELSE live[k][2][f]]
    <3>2. M[k] = Map(g)
      BY <2>1 DEF Merged
    <3>3. IsFunction(g) /\ \A f \in DOMAIN g : g[f] # Absent
      BY <2>1, <3>1 DEF IsValue, IsFunction
    <3>4. \A f : f \notin DOMAIN patch[k][2] => Get(g, f) = Get(live[k][2], f)
      BY DEF Get
    <3> HIDE DEF g
    <3>5. IsMap(M[k]) /\ M[k][2] = g /\ M[k] # Absent
      BY <3>2, Kinds
    <3>6. IsValue(M[k])
      BY <3>2, <3>3, <3>5 DEF IsValue, IsMap
    <3>7. ASSUME NEW f, Field(patch[k], f) = Absent PROVE Field(M[k], f) = Field(live[k], f)
      <4>1. f \notin DOMAIN patch[k][2]
        BY <2>1, <3>7, HasField
      <4> HIDE DEF M
      <4> QED BY <2>1, <3>1, <3>4, <3>5, <4>1 DEF Field
    <3> QED BY <3>1, <3>6, <3>7
  <2>2. CASE ~(IsMap(patch[k]) /\ IsMap(Get(live, k)))
    <3>1. M[k] = patch[k]
      BY <2>2 DEF Merged
    <3> QED BY <2>2, <3>1 DEF Field
  <2> QED BY <2>1, <2>2
<1>4. \A k \in DOMAIN patch : Get(M, k) = M[k]
  BY <1>1 DEF Get
<1>5. \A k \in DOMAIN live : k \notin DOMAIN patch => M[k] = live[k]
  BY DEF Merged
<1> HIDE DEF M
<1>6. IsDocument(M)
  BY <1>1, <1>3, <1>5 DEF IsDocument
<1> QED BY <1>2, <1>3, <1>4, <1>6 DEF M

(* A verified PATCH brings the process from the old document to the new.   *)
LEMMA PatchAgrees ==
  ASSUME NEW c, NEW n, IsDocument(c), IsDocument(n), ClassifyDocuments(c, n).kind = "Patch",
         NEW live, IsDocument(live), Agrees(live, c),
         NEW live1, live1 = live \/ live1 = Merged(live, ClassifyDocuments(c, n).patch),
         Verified(live1, ClassifyDocuments(c, n).patch)
  PROVE  IsDocument(live1) /\ Agrees(live1, n)
<1>1. PICK patch : patch = ClassifyDocuments(c, n).patch
  OBVIOUS
<1>2. /\ IsDocument(live1)
      /\ \A k : k \notin DOMAIN patch => Get(live1, k) = Get(live, k)
      /\ \A k \in DOMAIN patch : IsMap(patch[k]) =>
           \A f : Field(patch[k], f) = Absent => Field(Get(live1, k), f) = Field(Get(live, k), f)
  <2>1. \A k \in DOMAIN patch : IsValue(patch[k])
    BY <1>1, PatchIsDocument
  <2> QED BY <1>1, <2>1, MergeKeeps
<1>3. ASSUME NEW k, k \notin Roots(c, n)
      PROVE  IF k \in PatchFields THEN ValueAgrees(Get(live1, k), Get(n, k)) ELSE Get(live1, k) = Get(n, k)
  <2>1. k \notin DOMAIN patch /\ Get(c, k) = Get(n, k)
    BY <1>1, <1>3, PatchRoots, PatchedKeys
  <2> QED BY <1>2, <2>1 DEF Agrees
<1>4. ASSUME NEW k \in Roots(c, n), k \notin Sections
      PROVE  ValueAgrees(Get(live1, k), Get(n, k))
  <2>1. ~IsMap(Get(n, k)) /\ (Get(n, k) # Null => k \in DOMAIN patch /\ patch[k] = Get(n, k))
    BY <1>1, <1>4, PatchedScalar
  <2>2. Get(n, k) # Null => Get(live1, k) = Get(n, k)
    BY <1>1, <2>1 DEF Verified
  <2> QED BY <2>1, <2>2 DEF ValueAgrees
<1>5. ASSUME NEW k \in Roots(c, n), k \in Sections
      PROVE  ValueAgrees(Get(live1, k), Get(n, k))
  <2> DEFINE cur == Get(c, k)
             new == Get(n, k)
             l == Get(live, k)
             l1 == Get(live1, k)
  <2>1. /\ IsMap(new) /\ (cur = Absent \/ IsMap(cur))
        /\ \A f : Field(cur, f) # Field(new, f) => f \in NestedFields(k) /\ Field(new, f) # Absent
    BY <1>5, PatchedSection
  <2>2. /\ k \in DOMAIN patch /\ IsMap(patch[k]) /\ IsValue(patch[k]) /\ Field(patch[k], "enable") # Absent
        /\ \A f : Field(patch[k], f) = IF f \in NestedFields(k) /\ Field(new, f) # Null
                                       THEN Field(new, f) ELSE Absent
    BY <1>1, <1>5, PatchedSection
  <2>3. \A f : Field(patch[k], f) # Absent => Field(l1, f) = Field(patch[k], f)
    <3>1. \A f \in DOMAIN patch[k][2] : Field(l1, f) = patch[k][2][f]
      BY <1>1, <2>2 DEF Verified, Nested
    <3> QED BY <2>2, <3>1, HasField
  <2>4. \A f : Field(patch[k], f) = Absent => Field(l1, f) = Field(l, f)
    BY <1>2, <2>2
  <2>5. IsMap(l1)
    BY <2>2, <2>3 DEF Field
  <2>6. k \in PatchFields
    BY <1>5, PatchedKeys
  <2>7. ValueAgrees(l, cur)
    BY <2>6 DEF Agrees
  <2>8. \A f : Field(cur, f) # Null => Field(l, f) = Field(cur, f)
    BY <2>1, <2>7, Kinds DEF ValueAgrees
  <2>9. ASSUME NEW f, Field(new, f) # Null PROVE Field(l1, f) = Field(new, f)
    <3>1. CASE Field(patch[k], f) # Absent
      BY <2>2, <2>3, <3>1
    <3>2. CASE Field(patch[k], f) = Absent
      <4>1. Field(cur, f) = Field(new, f)
        BY <2>1, <2>2, <2>9, <3>2
      <4> QED BY <2>4, <2>8, <2>9, <3>2, <4>1
    <3> QED BY <3>1, <3>2
  <2> QED BY <2>1, <2>5, <2>9 DEF ValueAgrees
<1>6. \A k \in Roots(c, n) : k \in PatchFields
  BY PatchedKeys
<1>7. Agrees(live1, n)
  BY <1>3, <1>4, <1>5, <1>6 DEF Agrees
<1> QED BY <1>2, <1>7

-----------------------------------------------------------------------------
(***************************************************************************)
(* prepare                                                                 *)
(***************************************************************************)
(* What the effective document has at a key.                               *)
LEMMA EffectiveGet ==
  ASSUME NEW doc, NEW epoch, NEW spec, NEW k
  PROVE  Get(Effective(doc, epoch, spec), k) =
           IF k = "external-controller-unix" THEN (IF spec.managed THEN Endpoint(epoch) ELSE Absent)
           ELSE IF k = "external-controller" /\ spec.managed /\ ~spec.keep THEN Absent
           ELSE Get(doc, k)
<1> DEFINE ks == {"external-controller-unix"} \cup (IF spec.keep THEN {} ELSE {"external-controller"})
<1>1. CASE spec.managed
  <2>1. Effective(doc, epoch, spec) = With(Without(doc, ks), "external-controller-unix", Endpoint(epoch))
    BY <1>1 DEF Effective, RewriteManagedController
  <2>2. Get(Effective(doc, epoch, spec), k) =
          IF k = "external-controller-unix" THEN Endpoint(epoch) ELSE Get(Without(doc, ks), k)
    BY <2>1, WithGet
  <2>3. Get(Without(doc, ks), k) = IF k \in ks THEN Absent ELSE Get(doc, k)
    BY WithoutGet
  <2>4. k \in ks <=> k = "external-controller-unix" \/ (~spec.keep /\ k = "external-controller")
    OBVIOUS
  <2> QED BY <1>1, <2>2, <2>3, <2>4
<1>2. CASE ~spec.managed
  BY <1>2, WithoutGet DEF Effective
<1> QED BY <1>1, <1>2

(* An endpoint is a value.                                                 *)
LEMMA EndpointIsValue ==
  ASSUME NEW epoch
  PROVE  IsValue(Endpoint(epoch)) /\ Endpoint(epoch) # Absent
         /\ \A x : Endpoint(epoch) = Endpoint(x) => epoch = x
<1>1. Endpoint(epoch)[1] = "endpoint" /\ \A x : Endpoint(x)[2] = x
  BY DEF Endpoint
<1> QED BY <1>1, Kinds DEF IsValue, IsMap

(* The effective document of a document is one.                            *)
LEMMA EffectiveIsDocument ==
  ASSUME NEW doc, IsDocument(doc), NEW epoch, NEW spec
  PROVE  IsDocument(Effective(doc, epoch, spec))
BY WithIsDocument, WithoutIsDocument, EndpointIsValue DEF Effective, RewriteManagedController

PlanOK(plan, epoch) ==
  /\ plan = [source |-> plan.source, effective |-> plan.effective, spec |-> plan.spec,
             controller |-> plan.controller]
  /\ IsDocument(plan.effective)
  /\ plan.controller = ResolveController(plan.effective, plan.spec)
  /\ Get(plan.effective, "external-controller-unix") =
       IF plan.spec.managed THEN Endpoint(epoch) ELSE Absent
ProcessOK(p) ==
  /\ p = Process(p.epoch, p.plan, p.live)
  /\ p.epoch \in {1, 2}
  /\ PlanOK(p.plan, p.epoch)
  /\ IsDocument(p.live) /\ Agrees(p.live, p.plan.effective)

(* prepare makes a consistent plan.                                        *)
LEMMA PreparedIsOK ==
  ASSUME NEW doc, IsDocument(doc), NEW epoch, NEW spec
  PROVE  /\ PlanOK(Prepare(doc, epoch, spec), epoch)
         /\ Prepare(doc, epoch, spec).source = doc
         /\ Prepare(doc, epoch, spec).effective = Effective(doc, epoch, spec)
         /\ Prepare(doc, epoch, spec).spec = spec
<1>1. PICK plan : plan = Prepare(doc, epoch, spec)
  OBVIOUS
<1>2. plan = [source |-> doc, effective |-> Effective(doc, epoch, spec), spec |-> spec,
              controller |-> ResolveController(Effective(doc, epoch, spec), spec)]
  BY <1>1 DEF Prepare
<1>3. /\ plan.source = doc /\ plan.effective = Effective(doc, epoch, spec) /\ plan.spec = spec
      /\ plan.controller = ResolveController(plan.effective, plan.spec)
      /\ plan = [source |-> plan.source, effective |-> plan.effective, spec |-> plan.spec,
                 controller |-> plan.controller]
  BY <1>2
<1>4. IsDocument(plan.effective)
  BY <1>3, EffectiveIsDocument
<1>5. Get(plan.effective, "external-controller-unix") = IF spec.managed THEN Endpoint(epoch) ELSE Absent
  BY <1>3, EffectiveGet
<1> QED BY <1>1, <1>3, <1>4, <1>5 DEF PlanOK

(* What a process is made of.                                              *)
LEMMA ProcessSays ==
  ASSUME NEW epoch, NEW plan, NEW live
  PROVE  /\ Process(epoch, plan, live).epoch = epoch /\ Process(epoch, plan, live).plan = plan
         /\ Process(epoch, plan, live).live = live
BY DEF Process

(* A process that agrees with its plan.                                    *)
LEMMA ProcessIsOK ==
  ASSUME NEW epoch \in {1, 2}, NEW plan, PlanOK(plan, epoch), NEW live, IsDocument(live),
         Agrees(live, plan.effective)
  PROVE  ProcessOK(Process(epoch, plan, live))
BY ProcessSays DEF ProcessOK

(* A fresh one does.                                                       *)
LEMMA FreshIsOK ==
  ASSUME NEW epoch \in {1, 2}, NEW plan, PlanOK(plan, epoch)
  PROVE  ProcessOK(Fresh(epoch, plan))
<1>1. IsDocument(plan.effective)
  BY DEF PlanOK
<1> QED BY <1>1, FreshAgrees, ProcessIsOK DEF Fresh

(* A reload brings the fields that it reads.                               *)
LEMMA ReloadAgrees ==
  ASSUME NEW c, NEW n, IsDocument(c), IsDocument(n), ClassifyDocuments(c, n).kind = "Reload",
         NEW live, IsDocument(live), Agrees(live, c), NEW new,
         new = [k \in {k \in DOMAIN live \cup DOMAIN n :
                         IF k \in ReloadFields THEN k \in DOMAIN n ELSE k \in DOMAIN live} |->
                  IF k \in ReloadFields THEN n[k] ELSE live[k]]
  PROVE  IsDocument(new) /\ Agrees(new, n)
<1>1. IsDocument(new)
  BY DEF IsDocument, IsFunction
<1>2. \A k : Get(new, k) = IF k \in ReloadFields THEN Get(n, k) ELSE Get(live, k)
  BY DEF Get
<1>3. \A k : k \notin ReloadFields => Get(c, k) = Get(n, k)
  BY ReloadMeans
<1>4. \A k \in ReloadFields : k \notin PatchFields
  BY DEF ReloadFields, PatchFields, InboundPortFields
<1> QED BY <1>1, <1>2, <1>3, <1>4 DEF Agrees

-----------------------------------------------------------------------------
(***************************************************************************)
(* The invariant                                                           *)
(***************************************************************************)
BootOK ==
  boot # NoBoot =>
    /\ boot = Process(3 - core.epoch, FullPlan, BootstrapPlan.effective)
    /\ Restoration.kind \in {"Noop", "Patch"}
    /\ Graceful(core.plan, file, want)
ConfigIInv == IsDocument(file) /\ ProcessOK(core) /\ BootOK

(* The bootstrap document is one.                                          *)
LEMMA ZeroedIsDocument ==
  ASSUME NEW doc, IsDocument(doc)
  PROVE  IsDocument(ZeroInbounds(doc))
<1>1. IsValue(Num(0)) /\ Bool(FALSE) # Absent
  BY DEF IsValue, IsMap, Num, Bool, Absent
<1>2. PICK d : d = ZeroListener(doc, "mixed-port")
  OBVIOUS
<1>3. IsDocument(d)
  BY <1>1, <1>2, WithIsDocument DEF ZeroListener
<1>4. CASE Nested(d, "tun", "enable") = Bool(TRUE)
  <2>1. Field(Get(d, "tun"), "enable") # Absent
    BY <1>4 DEF Nested, Bool, Absent
  <2>2. IsMap(Get(d, "tun"))
    BY <2>1 DEF Field
  <2>3. Get(d, "tun") = d["tun"] /\ IsValue(d["tun"])
    BY <1>3, <2>2, HasKey, Kinds
  <2>4. IsValue(Map(With(d["tun"][2], "enable", Bool(FALSE))))
    BY <1>1, <2>2, <2>3, FieldIsValue
  <2> QED BY <1>2, <1>3, <1>4, <2>4, WithIsDocument DEF ZeroInbounds, ZeroTun
<1>5. CASE Nested(d, "tun", "enable") # Bool(TRUE)
  BY <1>2, <1>3, <1>5 DEF ZeroInbounds, ZeroTun
<1> QED BY <1>4, <1>5

(* The first core.                                                         *)
LEMMA ConfigInitially == ConfigInit => ConfigIInv
<1> SUFFICES ASSUME ConfigInit PROVE ConfigIInv
  OBVIOUS
<1>1. IsDocument(file)
  BY ConfigAssumption DEF ConfigInit
<1>2. ProcessOK(core)
  BY <1>1, PreparedIsOK, FreshIsOK DEF ConfigInit
<1> QED BY <1>1, <1>2 DEF ConfigInit, ConfigIInv, BootOK

(* The user's edits leave a document.                                      *)
LEMMA EditKeeps ==
  ASSUME ConfigIInv, NEW doc, IsDocument(doc), Edited(doc)
  PROVE  ConfigIInv'
BY DEF ConfigIInv, Edited, BootOK

(* So do all of them.                                                      *)
LEMMA EditsKeep ==
  ASSUME ConfigIInv
  PROVE  /\ \A k \in DOMAIN Candidates : \A v \in Candidates[k] : SetRoot(k, v) => ConfigIInv'
         /\ \A k \in DOMAIN Candidates : RemoveRoot(k) => ConfigIInv'
         /\ \A k \in DOMAIN NestedCandidates : \A f \in DOMAIN NestedCandidates[k] :
              /\ \A v \in NestedCandidates[k][f] : SetNested(k, f, v) => ConfigIInv'
              /\ RemoveNested(k, f) => ConfigIInv'
<1>1. ASSUME NEW k \in DOMAIN Candidates, NEW v \in Candidates[k], SetRoot(k, v) PROVE ConfigIInv'
  <2>1. IsDocument(With(file, k, v))
    BY WithIsDocument, ConfigAssumption DEF ConfigIInv
  <2> QED BY <1>1, <2>1, EditKeeps DEF SetRoot
<1>2. ASSUME NEW k \in DOMAIN Candidates, RemoveRoot(k) PROVE ConfigIInv'
  <2>1. IsDocument(Without(file, {k}))
    BY WithoutIsDocument DEF ConfigIInv
  <2> QED BY <1>2, <2>1, EditKeeps DEF RemoveRoot
<1>3. ASSUME NEW k \in DOMAIN NestedCandidates, NEW f \in DOMAIN NestedCandidates[k],
             NEW v \in NestedCandidates[k][f], SetNested(k, f, v)
      PROVE  ConfigIInv'
  <2>1. IsMap(Get(file, k)) /\ v # Absent
    BY <1>3, ConfigAssumption DEF SetNested
  <2>2. Get(file, k) = file[k] /\ IsValue(file[k])
    BY <2>1, HasKey, Kinds DEF ConfigIInv
  <2>3. IsDocument(With(file, k, Map(With(file[k][2], f, v))))
    BY <2>1, <2>2, FieldIsValue, WithIsDocument DEF ConfigIInv
  <2> QED BY <1>3, <2>3, EditKeeps DEF SetNested
<1>4. ASSUME NEW k \in DOMAIN NestedCandidates, NEW f \in DOMAIN NestedCandidates[k], RemoveNested(k, f)
      PROVE  ConfigIInv'
  <2>1. IsMap(Get(file, k))
    BY <1>4 DEF RemoveNested
  <2>2. Get(file, k) = file[k] /\ IsValue(file[k])
    BY <2>1, HasKey, Kinds DEF ConfigIInv
  <2>3. IsValue(Map(Without(file[k][2], {f})))
    BY <2>1, <2>2, Kinds, FieldIsValue DEF Null
  <2>4. IsDocument(With(file, k, Map(Without(file[k][2], {f}))))
    BY <2>3, WithIsDocument DEF ConfigIInv
  <2> QED BY <1>4, <2>4, EditKeeps DEF RemoveNested
<1> QED BY <1>1, <1>2, <1>3, <1>4

(* What an apply compares.                                                 *)
LEMMA DesiredIsOK ==
  ASSUME ConfigIInv
  PROVE  /\ PlanOK(Desired, core.epoch) /\ IsDocument(Desired.effective) /\ Desired.spec = want
         /\ IsDocument(core.plan.effective) /\ core.epoch \in {1, 2}
         /\ IsDocument(core.live) /\ Agrees(core.live, core.plan.effective)
<1>1. PlanOK(Desired, core.epoch) /\ Desired.spec = want
  BY PreparedIsOK DEF Desired, ConfigIInv
<1>2. IsDocument(Desired.effective)
  BY <1>1 DEF PlanOK
<1> QED BY <1>1, <1>2 DEF ConfigIInv, ProcessOK, PlanOK

(* Noop: the documents are equal, so the policies have the same manager.   *)
LEMMA NoopKeeps == ConfigIInv /\ ApplyNoop => ConfigIInv'
<1> SUFFICES ASSUME ConfigIInv, ApplyNoop PROVE ConfigIInv'
  OBVIOUS
<1>1. Verdict.kind = "Noop" /\ boot = NoBoot
  BY DEF ApplyNoop, Applying
<1>2. core.plan.effective = Desired.effective
  <2>1. CASE Unchanged(core.plan, Desired)
    BY <2>1, DesiredIsOK, NoDiff DEF Unchanged
  <2>2. CASE ClassifyDocuments(core.plan.effective, Desired.effective).kind = "Noop"
    BY <2>2, DesiredIsOK, NoopMeans
  <2> QED BY <1>1, <2>1, <2>2, ChangeSays DEF Verdict, Classify
<1>3. core.plan.spec.managed <=> want.managed
  <2>1. Get(Desired.effective, "external-controller-unix") = IF want.managed THEN Endpoint(core.epoch) ELSE Absent
    BY DesiredIsOK DEF PlanOK
  <2>2. Get(core.plan.effective, "external-controller-unix") =
          IF core.plan.spec.managed THEN Endpoint(core.epoch) ELSE Absent
    BY DEF ConfigIInv, ProcessOK, PlanOK
  <2> QED BY <1>2, <2>1, <2>2, EndpointIsValue
<1>4. PICK old, plan : old = core.plan /\ plan = [old EXCEPT !.spec = want]
  OBVIOUS
<1>5. core' = Process(core.epoch, plan, core.live)
  BY <1>4 DEF ApplyNoop, ConfigIInv, ProcessOK, Process
<1>6. /\ old = [source |-> old.source, effective |-> old.effective, spec |-> old.spec,
                controller |-> old.controller]
      /\ old.controller = ResolveController(old.effective, old.spec)
      /\ IsDocument(old.effective)
      /\ Get(old.effective, "external-controller-unix") =
           IF old.spec.managed THEN Endpoint(core.epoch) ELSE Absent
  BY <1>4 DEF ConfigIInv, ProcessOK, PlanOK
<1>7. plan = [source |-> old.source, effective |-> old.effective, spec |-> want, controller |-> old.controller]
  BY <1>4, <1>6
<1>8. /\ plan.source = old.source /\ plan.effective = old.effective /\ plan.spec = want
      /\ plan.controller = old.controller
  BY <1>7
<1>9. ResolveController(old.effective, old.spec) = ResolveController(old.effective, want)
  BY <1>3, <1>4 DEF ResolveController
<1>10. PlanOK(plan, core.epoch)
  BY <1>3, <1>4, <1>6, <1>7, <1>8, <1>9 DEF PlanOK
<1>11. ProcessOK(core)'
  BY <1>4, <1>5, <1>8, <1>10, DesiredIsOK, ProcessIsOK
<1> QED BY <1>1, <1>11 DEF ApplyNoop, ConfigIInv, BootOK

(* A patch or a reload is one of the effective documents of a Mihomo.      *)
LEMMA InPlaceVerdict ==
  ASSUME Verdict.kind \in {"Patch", "Reload"}
  PROVE  Verdict = ClassifyDocuments(core.plan.effective, Desired.effective)
BY ChangeSays DEF Verdict, Classify

(* Patch: what is verified is there, and the rest was there before.        *)
LEMMA PatchKeeps == ConfigIInv /\ ApplyPatch => ConfigIInv'
<1> SUFFICES ASSUME ConfigIInv, ApplyPatch PROVE ConfigIInv'
  OBVIOUS
<1>1. Verdict.kind = "Patch" /\ boot = NoBoot
  BY DEF ApplyPatch, Applying
<1>2. Verdict = ClassifyDocuments(core.plan.effective, Desired.effective)
  BY <1>1, InPlaceVerdict
<1>3. PICK live : /\ live = core.live \/ live = Merged(core.live, Verdict.patch)
                  /\ core' = Adopt(live)
  BY DEF ApplyPatch
<1>4. CASE Verified(live, Verdict.patch)
  <2>1. IsDocument(live) /\ Agrees(live, Desired.effective)
    BY <1>1, <1>2, <1>3, <1>4, DesiredIsOK, PatchAgrees
  <2> QED BY <1>1, <1>3, <1>4, <2>1, DesiredIsOK, ProcessIsOK DEF Adopt, ApplyPatch, ConfigIInv, BootOK
<1>5. CASE ~Verified(live, Verdict.patch)
  BY <1>1, <1>3, <1>5, DesiredIsOK, FreshIsOK DEF Adopt, ApplyPatch, ConfigIInv, BootOK
<1> QED BY <1>4, <1>5

(* Reload.                                                                 *)
LEMMA ReloadKeeps == ConfigIInv /\ ApplyReload => ConfigIInv'
<1> SUFFICES ASSUME ConfigIInv, ApplyReload PROVE ConfigIInv'
  OBVIOUS
<1>1. Verdict.kind = "Reload" /\ boot = NoBoot
  BY DEF ApplyReload, Applying
<1>2. Verdict = ClassifyDocuments(core.plan.effective, Desired.effective)
  BY <1>1, InPlaceVerdict
<1>3. PICK live : live = ReloadedDoc
  OBVIOUS
<1>4. IsDocument(live) /\ Agrees(live, Desired.effective)
  BY <1>1, <1>2, <1>3, DesiredIsOK, ReloadAgrees DEF ReloadedDoc
<1>5. ProcessOK(core)'
  BY <1>3, <1>4, DesiredIsOK, ProcessIsOK, FreshIsOK DEF ApplyReload
<1> QED BY <1>1, <1>5 DEF ApplyReload, ConfigIInv, BootOK

(* A new process.                                                          *)
LEMMA SwitchKeeps == ConfigIInv /\ (SwitchHard \/ SwitchBootstraps \/ SwitchRefused) => ConfigIInv'
<1> SUFFICES ASSUME ConfigIInv, SwitchHard \/ SwitchBootstraps \/ SwitchRefused PROVE ConfigIInv'
  OBVIOUS
<1>1. CASE SwitchHard
  <2>1. 3 - core.epoch \in {1, 2}
    BY DesiredIsOK
  <2>2. PICK e : e = 3 - core.epoch
    OBVIOUS
  <2>3. ProcessOK(Fresh(e, Prepare(file, e, want)))
    BY <2>1, <2>2, PreparedIsOK, FreshIsOK DEF ConfigIInv
  <2> QED BY <1>1, <2>2, <2>3 DEF SwitchHard, Applying, ConfigIInv, BootOK
<1>2. CASE SwitchBootstraps
  BY <1>2 DEF SwitchBootstraps, ConfigIInv, BootOK, FullPlan, BootstrapPlan, Restoration
<1>3. CASE SwitchRefused
  BY <1>3 DEF SwitchRefused, gvars, ConfigIInv, BootOK, FullPlan, BootstrapPlan, Restoration
<1> QED BY <1>1, <1>2, <1>3

(* The inbounds of the bootstrap are restored by a verified patch.         *)
LEMMA RestoreKeeps == ConfigIInv /\ SwitchRestores => ConfigIInv'
<1> SUFFICES ASSUME ConfigIInv, SwitchRestores PROVE ConfigIInv'
  OBVIOUS
<1>1. PICK e : e = 3 - core.epoch
  OBVIOUS
<1>2. e \in {1, 2}
  BY <1>1, DesiredIsOK
<1>3. PlanOK(FullPlan, e) /\ PlanOK(BootstrapPlan, e)
  BY <1>1, PreparedIsOK, ZeroedIsDocument DEF FullPlan, BootstrapPlan, ConfigIInv
<1>4. IsDocument(FullPlan.effective) /\ IsDocument(BootstrapPlan.effective)
  BY <1>3 DEF PlanOK
<1>5. boot = Process(e, FullPlan, BootstrapPlan.effective) /\ Restoration.kind \in {"Noop", "Patch"}
  BY <1>1 DEF ConfigIInv, BootOK, SwitchRestores
<1>6. boot.epoch = e /\ boot.plan = FullPlan /\ boot.live = BootstrapPlan.effective
  BY <1>5, ProcessSays
<1>7. PICK live : /\ live = boot.live \/ live = Merged(boot.live, Restoration.patch)
                  /\ core' = IF Verified(live, Restoration.patch) THEN Process(boot.epoch, boot.plan, live)
                             ELSE Fresh(boot.epoch, boot.plan)
  BY DEF SwitchRestores
<1>8. ASSUME Verified(live, Restoration.patch)
      PROVE  IsDocument(live) /\ Agrees(live, FullPlan.effective)
  <2>1. CASE Restoration.kind = "Patch"
    BY <1>4, <1>6, <1>7, <1>8, <2>1, FreshAgrees, PatchAgrees DEF Restoration
  <2>2. CASE Restoration.kind = "Noop"
    <3>1. BootstrapPlan.effective = FullPlan.effective /\ Restoration.patch = << >>
      BY <1>4, <2>2, NoopMeans DEF Restoration
    <3>2. \A k : k \notin DOMAIN << >>
      OBVIOUS
    <3>3. IsDocument(live) /\ \A k : Get(live, k) = Get(boot.live, k)
      BY <1>4, <1>6, <1>7, <3>1, <3>2, MergeKeeps
    <3> QED BY <1>6, <3>1, <3>3, FreshAgrees DEF Agrees
  <2> QED BY <1>5, <2>1, <2>2
<1>9. ProcessOK(core)'
  BY <1>2, <1>3, <1>6, <1>7, <1>8, ProcessIsOK, FreshIsOK
<1> QED BY <1>9 DEF SwitchRestores, ConfigIInv, BootOK

(* Every step keeps it.                                                    *)
LEMMA ConfigSteps == ConfigIInv /\ [ConfigNext]_gvars => ConfigIInv'
<1> SUFFICES ASSUME ConfigIInv, [ConfigNext]_gvars PROVE ConfigIInv'
  OBVIOUS
<1>1. ASSUME NEW spec \in Specs, SetSpec(spec) PROVE ConfigIInv'
  BY <1>1 DEF SetSpec, ConfigIInv, BootOK
<1>2. CASE UNCHANGED gvars
  BY <1>2 DEF gvars, ConfigIInv, BootOK, FullPlan, BootstrapPlan, Restoration
<1> QED BY <1>1, <1>2, EditsKeep, NoopKeeps, PatchKeeps, ReloadKeeps, SwitchKeeps, RestoreKeeps DEF ConfigNext

(***************************************************************************)
(* The user's document, the running process and the bootstrap one are what *)
(* the plans say, after every sequence of edits and applies.               *)
(***************************************************************************)
THEOREM ConfigInvariance == ConfigSpec => []ConfigIInv
BY ConfigInitially, ConfigSteps, PTL DEF ConfigSpec

(* The parts of the invariant that say what the process does.              *)
LEMMA LiveMeans == ConfigIInv => LiveMatchesPlan
BY AgreesMeans DEF ConfigIInv, ProcessOK, PlanOK, LiveMatchesPlan

(* The controller is one of the fields that are never patched.             *)
LEMMA ControllerMeans == ConfigIInv => ControllerServed
<1> SUFFICES ASSUME ConfigIInv PROVE ControllerServed
  OBVIOUS
<1>1. /\ Get(core.live, "external-controller-unix") = Get(core.plan.effective, "external-controller-unix")
      /\ Get(core.live, "external-controller") = Get(core.plan.effective, "external-controller")
  BY DEF ConfigIInv, ProcessOK, Agrees, PatchFields, InboundPortFields
<1>2. ResolveController(core.live, core.plan.spec) = ResolveController(core.plan.effective, core.plan.spec)
  BY <1>1 DEF ResolveController
<1> QED BY <1>2 DEF ConfigIInv, ProcessOK, PlanOK, ControllerServed

(* What the bootstrap document has at a key.                               *)
LEMMA ZeroedGet ==
  ASSUME NEW doc, IsDocument(doc)
  PROVE  /\ \A k : k \notin {"mixed-port", "tun"} => Get(ZeroInbounds(doc), k) = Get(doc, k)
         /\ Get(doc, "mixed-port")[1] \in {"absent", "number"} =>
              Get(ZeroInbounds(doc), "mixed-port") \in {Absent, Num(0)}
         /\ Nested(doc, "tun", "enable") # Bool(TRUE) => Get(ZeroInbounds(doc), "tun") = Get(doc, "tun")
         /\ Nested(doc, "tun", "enable") = Bool(TRUE) =>
              /\ IsMap(Get(ZeroInbounds(doc), "tun"))
              /\ Nested(ZeroInbounds(doc), "tun", "enable") = Bool(FALSE)
<1>1. PICK d : d = ZeroListener(doc, "mixed-port")
  OBVIOUS
<1>2. /\ \A k : k # "mixed-port" => Get(d, k) = Get(doc, k)
      /\ Get(doc, "mixed-port")[1] = "number" => Get(d, "mixed-port") = Num(0)
      /\ Get(doc, "mixed-port")[1] # "number" => Get(d, "mixed-port") = Get(doc, "mixed-port")
  <2>1. CASE Get(doc, "mixed-port")[1] = "number" /\ doc["mixed-port"] # Num(0)
    BY <1>1, <2>1, WithGet DEF ZeroListener
  <2>2. CASE ~(Get(doc, "mixed-port")[1] = "number" /\ doc["mixed-port"] # Num(0))
    <3>1. d = doc
      BY <1>1, <2>2 DEF ZeroListener
    <3>2. Get(doc, "mixed-port")[1] = "number" => Get(doc, "mixed-port") = doc["mixed-port"]
      BY Kinds DEF Get
    <3> QED BY <2>2, <3>1, <3>2
  <2> QED BY <2>1, <2>2
<1>3. Get(doc, "mixed-port")[1] = "absent" => Get(doc, "mixed-port") = Absent
  BY GetMaybe DEF Maybe, IsValue
<1>4. Nested(d, "tun", "enable") = Nested(doc, "tun", "enable")
  BY <1>2 DEF Nested
<1>5. PICK z : z = ZeroInbounds(doc)
  OBVIOUS
<1>6. CASE Nested(doc, "tun", "enable") = Bool(TRUE)
  <2>1. PICK v : v = Map(With(d["tun"][2], "enable", Bool(FALSE)))
    OBVIOUS
  <2>2. z = With(d, "tun", v)
    BY <1>1, <1>4, <1>5, <1>6, <2>1 DEF ZeroInbounds, ZeroTun
  <2>3. \A k : Get(z, k) = IF k = "tun" THEN v ELSE Get(d, k)
    BY <2>2, WithGet
  <2>4. IsMap(v) /\ v[2] = With(d["tun"][2], "enable", Bool(FALSE))
    BY <2>1, Kinds
  <2>5. Field(v, "enable") = Bool(FALSE)
    <3>1. PICK tun : tun = d["tun"][2]
      OBVIOUS
    <3>2. PICK off : off = Bool(FALSE)
      OBVIOUS
    <3>3. Get(With(tun, "enable", off), "enable") = off
      BY WithGet
    <3> QED BY <2>4, <3>1, <3>2, <3>3 DEF Field
  <2>6. Bool(FALSE) # Bool(TRUE)
    BY DEF Bool
  <2> QED BY <1>2, <1>3, <1>5, <1>6, <2>3, <2>4, <2>5, <2>6 DEF Nested
<1>7. CASE Nested(doc, "tun", "enable") # Bool(TRUE)
  <2>1. z = d
    BY <1>1, <1>4, <1>5, <1>7 DEF ZeroInbounds, ZeroTun
  <2> QED BY <1>2, <1>3, <1>5, <1>7, <2>1
<1> QED BY <1>6, <1>7

(* A document that passes overlap_block without a dns.listen is silent     *)
(* once its inbounds are zeroed.                                           *)
LEMMA ZeroedIsSilent ==
  ASSUME NEW doc, IsDocument(doc), ~OverlapBlock(doc), DnsListen(doc) = Absent, NEW epoch, NEW spec
  PROVE  ~Listens(Effective(ZeroInbounds(doc), epoch, spec))
<1>1. PICK z : z = ZeroInbounds(doc)
  OBVIOUS
<1>2. PICK e : e = Effective(z, epoch, spec)
  OBVIOUS
<1>3. IsDocument(z) /\ IsDocument(e)
  BY <1>1, <1>2, ZeroedIsDocument, EffectiveIsDocument
<1>4. \A k : k \notin {"external-controller", "external-controller-unix"} => Get(e, k) = Get(z, k)
  BY <1>2, EffectiveGet
<1>5. \A k \in {"tuic-server", "ss-config", "listeners", "dns", "extra-port"} : Get(e, k) = Get(doc, k)
  BY <1>1, <1>4, ZeroedGet
<1>6. ~OpenSurface(doc)
  BY DEF OverlapBlock
<1>7. Get(e, "mixed-port") \in {Absent, Num(0)}
  <2>1. Get(doc, "mixed-port")[1] \in {"absent", "number"}
    BY <1>6 DEF OpenSurface, InboundPortFields
  <2> QED BY <1>1, <1>4, <2>1, ZeroedGet
<1>8. Nested(e, "tun", "enable") # Bool(TRUE) /\ ~TunUnknown(e)
  <2>1. Get(e, "tun") = Get(z, "tun") /\ Nested(e, "tun", "enable") = Nested(z, "tun", "enable")
    BY <1>4 DEF Nested
  <2>2. Bool(FALSE) # Bool(TRUE) /\ Bool(FALSE)[1] = "bool"
    BY DEF Bool
  <2>3. Get(e, "tun") # Absent => e["tun"] = Get(e, "tun")
    BY DEF Get
  <2>4. CASE Nested(doc, "tun", "enable") = Bool(TRUE)
    <3>1. IsMap(Get(z, "tun")) /\ Nested(z, "tun", "enable") = Bool(FALSE)
      BY <1>1, <2>4, ZeroedGet
    <3> QED BY <2>1, <2>2, <2>3, <3>1 DEF TunUnknown
  <2>5. CASE Nested(doc, "tun", "enable") # Bool(TRUE)
    <3>1. Get(e, "tun") = Get(doc, "tun") /\ Nested(e, "tun", "enable") = Nested(doc, "tun", "enable")
      BY <1>1, <2>1, <2>5, ZeroedGet DEF Nested
    <3>2. ~TunUnknown(doc)
      BY <1>6 DEF OpenSurface
    <3>3. Get(doc, "tun") # Absent => doc["tun"] = Get(doc, "tun")
      BY DEF Get
    <3> QED BY <2>3, <2>5, <3>1, <3>2, <3>3 DEF TunUnknown
  <2> QED BY <2>4, <2>5
<1>9. ~TuicOpen(e)
  <2>1. ~TuicOpen(doc)
    BY <1>6 DEF OpenSurface
  <2>2. Get(e, "tuic-server") = Get(doc, "tuic-server")
    BY <1>5
  <2>3. Nested(e, "tuic-server", "enable") = Nested(doc, "tuic-server", "enable")
    BY <2>2 DEF Nested
  <2> QED BY <2>1, <2>2, <2>3 DEF TuicOpen
<1>10. Get(e, "ss-config") \in {Absent, Str("")} /\ ~NonEmptyCollection(Get(e, "listeners"))
  <2>1. Get(doc, "ss-config") \in {Absent, Str("")} /\ ~NonEmptyCollection(Get(doc, "listeners"))
    BY <1>6 DEF OpenSurface
  <2> QED BY <1>5, <2>1
<1>11. DOMAIN e \cap InboundLike = {}
  <2>1. "extra-port" \notin DOMAIN doc
    BY <1>6 DEF OpenSurface, InboundLike
  <2>2. Get(e, "extra-port") = Absent
    BY <1>5, <2>1 DEF Get
  <2>3. "extra-port" \notin DOMAIN e
    BY <1>3, <2>2, HasKey
  <2> QED BY <2>3 DEF InboundLike
<1>12. DnsListen(e) = Absent
  BY <1>5 DEF DnsListen, Nested
<1>13. ~Listens(e)
  BY <1>7, <1>8, <1>9, <1>10, <1>11, <1>12 DEF Listens, InboundPortFields
<1> QED BY <1>1, <1>2, <1>13

(* Two epochs side by side share nothing.                                  *)
LEMMA OverlapMeans == ConfigIInv => OverlapDisjoint
<1> SUFFICES ASSUME ConfigIInv, boot # NoBoot PROVE OverlapDisjoint
  BY DEF OverlapDisjoint
<1>1. PICK e : e = 3 - core.epoch
  OBVIOUS
<1>2. e # core.epoch
  BY <1>1, DesiredIsOK
<1>3. boot = Process(e, FullPlan, BootstrapPlan.effective) /\ Graceful(core.plan, file, want)
  BY <1>1 DEF ConfigIInv, BootOK
<1>4. boot.plan = FullPlan /\ boot.live = BootstrapPlan.effective
  BY <1>3, ProcessSays
<1>5. boot.plan.source = file /\ boot.live = Effective(ZeroInbounds(file), e, want)
  BY <1>1, <1>4, PreparedIsOK, ZeroedIsDocument DEF FullPlan, BootstrapPlan, ConfigIInv
<1>6. DnsListen(boot.plan.source) = Absent => ~Listens(boot.live)
  BY <1>3, <1>5, ZeroedIsSilent DEF Graceful, ConfigIInv
<1>7. /\ Get(core.live, "external-controller-unix") = Get(core.plan.effective, "external-controller-unix")
      /\ Get(core.live, "external-controller") = Get(core.plan.effective, "external-controller")
  BY DEF ConfigIInv, ProcessOK, Agrees, PatchFields, InboundPortFields
<1>8. ~HasHttp(core.live)
  BY <1>3, <1>7 DEF Graceful, HasHttp
<1>9. Get(boot.live, "external-controller-unix") = Endpoint(e)
  BY <1>3, <1>5, EffectiveGet DEF Graceful
<1>10. Get(core.plan.effective, "external-controller-unix") \in {Endpoint(core.epoch), Absent}
  BY DEF ConfigIInv, ProcessOK, PlanOK
<1>11. Get(core.live, "external-controller-unix") # Get(boot.live, "external-controller-unix")
  BY <1>2, <1>7, <1>9, <1>10, EndpointIsValue
<1> QED BY <1>6, <1>8, <1>11 DEF OverlapDisjoint

(***************************************************************************)
(* No change is classified as smaller than it is: after any sequence of    *)
(* edits and applies the process does what the committed plan says, for    *)
(* every set of documents the user can write (classify_documents,          *)
(* build_patch, RuntimeProjection::verify).                                *)
(***************************************************************************)
THEOREM LiveIsThePlan == ConfigSpec => []LiveMatchesPlan
BY ConfigInvariance, LiveMeans, PTL

(***************************************************************************)
(* The controller that the manager calls is one that the process serves.   *)
(***************************************************************************)
THEOREM ControllerIsServed == ConfigSpec => []ControllerServed
BY ConfigInvariance, ControllerMeans, PTL

(***************************************************************************)
(* A graceful switch never has two processes that listen on the same       *)
(* address (zero_inbounds, overlap_block, switch_locked).                  *)
(***************************************************************************)
THEOREM EpochsAreDisjoint == ConfigSpec => []OverlapDisjoint
BY ConfigInvariance, OverlapMeans, PTL
=============================================================================
