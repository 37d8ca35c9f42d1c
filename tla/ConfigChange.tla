----------------------------- MODULE ConfigChange -----------------------------
(***************************************************************************)
(* From the user's YAML to what a running Mihomo does with it: the         *)
(* effective document of an epoch (config/mod.rs, clash.rs), the diff and  *)
(* classification of a change (diff.rs, mihomo.rs), and the three ways a   *)
(* change reaches the core: a PATCH that is verified, a reload of the file *)
(* and a new process, gracefully next to the old one or after it.          *)
(*                                                                         *)
(* A YAML value is a pair of its kind and its content; a document maps its *)
(* root keys to values.  One key stands for each class of fields that the  *)
(* code treats alike.  Staging, DNS and the failures of a transaction are  *)
(* modules RuntimeStore and CoreManager.                                   *)
(***************************************************************************)
EXTENDS Naturals, Sequences, FiniteSets

CONSTANTS
  ConfigBases,       \* documents that the user starts from
  Candidates,        \* what the user may write at a root key
  NestedCandidates,  \* ... and at a field of a mapping
  MaxEdits           \* bound: edits of the user's file

Null == <<"null">>
Str(s) == <<"string", s>>
Num(n) == <<"number", n>>
Bool(b) == <<"bool", b>>
List(n) == <<"sequence", n>>
Map(f) == <<"mapping", f>>
Absent == <<"absent">>

IsMap(v) == v[1] = "mapping"
Get(f, k) == IF k \in DOMAIN f THEN f[k] ELSE Absent
Field(v, f) == IF IsMap(v) THEN Get(v[2], f) ELSE Absent
Nested(doc, k, f) == Field(Get(doc, k), f)
Without(f, ks) == [k \in DOMAIN f \ ks |-> f[k]]
With(f, k, v) == [x \in DOMAIN f \cup {k} |-> IF x = k THEN v ELSE f[x]]

\* what a YAML parser returns: a mapping is one of keys to values
IsFunction(f) == f = [k \in DOMAIN f |-> f[k]]
IsValue(v) ==
  /\ v[1] # "absent"
  /\ IsMap(v) => v = Map(v[2]) /\ IsFunction(v[2]) /\ \A f \in DOMAIN v[2] : v[2][f] # Absent
IsDocument(doc) == IsFunction(doc) /\ \A k \in DOMAIN doc : IsValue(doc[k])

ASSUME ConfigAssumption ==
  /\ MaxEdits \in Nat
  /\ \A doc \in ConfigBases : IsDocument(doc)
  /\ \A k \in DOMAIN Candidates : \A v \in Candidates[k] : IsValue(v)
  /\ \A k \in DOMAIN NestedCandidates : \A f \in DOMAIN NestedCandidates[k] :
       \A v \in NestedCandidates[k][f] : v # Absent

(***************************************************************************)
(* The field tables                                                        *)
(***************************************************************************)
InboundPortFields == {"mixed-port"}
PatchFields == InboundPortFields \cup {"tun", "tuic-server", "ss-config", "allow-lan"}
TunPatchFields == {"enable", "mtu"}
TuicPatchFields == {"enable"}
NestedFields(root) == IF root = "tun" THEN TunPatchFields ELSE TuicPatchFields
ReloadFields == {"rules", "dns"}
ControllerFields == {"external-controller", "external-controller-unix", "secret"}
\* any other key whose name looks like an inbound
InboundLike == {"extra-port"}

(***************************************************************************)
(* diff: the paths at which two documents differ                           *)
(***************************************************************************)
Entry(path, v) == [path |-> path, new |-> v]
Split(cur, new) ==
  /\ IsMap(cur) \/ IsMap(new)
  /\ cur = Absent \/ (IsMap(cur) /\ (new = Absent \/ IsMap(new)))
KeysOf(v) == IF IsMap(v) THEN DOMAIN v[2] ELSE {}
DiffNested(root, cur, new) ==
  IF Split(cur, new) /\ KeysOf(cur) \cup KeysOf(new) # {}
  THEN {Entry(<<root, k>>, Field(new, k)) :
          k \in {k \in KeysOf(cur) \cup KeysOf(new) : Field(cur, k) # Field(new, k)}}
  ELSE {Entry(<<root>>, new)}
Diff(cur, new) ==
  UNION {DiffNested(k, Get(cur, k), Get(new, k)) :
           k \in {k \in DOMAIN cur \cup DOMAIN new : Get(cur, k) # Get(new, k)}}

(***************************************************************************)
(* classify                                                                *)
(***************************************************************************)
DnsListen(doc) == Nested(doc, "dns", "listen")
IsDnsListen(path) == Len(path) = 2 /\ path[1] = "dns" /\ path[2] = "listen"
NestedPathSupported(path) ==
  IF path[1] \in {"tun", "tuic-server"}
  THEN Len(path) = 2 /\ path[2] \in NestedFields(path[1]) ELSE Len(path) = 1
Patchable(e) == e.new # Absent /\ e.path[1] \in PatchFields /\ NestedPathSupported(e.path)
Reloadable(e) ==
  e.path[1] \in ReloadFields /\ ~IsDnsListen(e.path) /\ ~(e.path[1] = "dns" /\ Len(e.path) = 1)

\* ConfigPatch as serde decodes it: a null is None, a value of another type is refused
Decodes(root, field, v) ==
  \/ v = Null
  \/ v[1] = (CASE root \in InboundPortFields -> "number" [] root = "ss-config" -> "string"
               [] root = "allow-lan" -> "bool" [] field = "enable" -> "bool" [] OTHER -> "number")
FilterMapping(root, v) == [f \in DOMAIN v[2] \cap NestedFields(root) |-> v[2][f]]
PatchOf(new, roots) ==
  [r \in roots |-> IF r \in {"tun", "tuic-server"} THEN Map(FilterMapping(r, new[r])) ELSE new[r]]
Undecodable(patch) ==
  \E r \in DOMAIN patch :
    IF r \in {"tun", "tuic-server"}
    THEN \/ Nested(patch, r, "enable")[1] # "bool"
         \/ \E f \in DOMAIN patch[r][2] : ~Decodes(r, f, patch[r][2][f])
    ELSE ~Decodes(r, "", patch[r])
\* None is not serialized
Serialized(patch) ==
  [r \in {r \in DOMAIN patch : patch[r] # Null} |->
     IF IsMap(patch[r]) THEN Map([f \in {f \in DOMAIN patch[r][2] : patch[r][2][f] # Null} |-> patch[r][2][f]])
     ELSE patch[r]]

Change(kind, patch) == [kind |-> kind, patch |-> patch]
BuildPatch(new, changes) ==
  LET patch == PatchOf(new, {e.path[1] : e \in changes})
  IN IF Undecodable(patch) THEN Change("Switch", <<>>) ELSE Change("Patch", Serialized(patch))
ClassifyDocuments(cur, new) ==
  LET changes == Diff(cur, new)
  IN CASE DnsListen(cur) # DnsListen(new) -> Change("Switch", <<>>)
       [] changes = {} -> Change("Noop", <<>>)
       [] OTHER -> IF \A e \in changes : Patchable(e) THEN BuildPatch(new, changes)
                   ELSE IF \A e \in changes : Reloadable(e) THEN Change("Reload", <<>>)
                   ELSE Change("Switch", <<>>)

ControlChannelMoves(cur, new) ==
  \E e \in Diff(cur, new) : e.path[1] \in ControllerFields \/ IsDnsListen(e.path)
\* the policy of the controller is not part of the process
ProcessSpecChanged(cur, new) == cur.binary # new.binary
IsMihomo(spec) == spec.binary # "clash-rs"
Unchanged(cur, new) == Diff(cur.source, new.source) = {} /\ Diff(cur.effective, new.effective) = {}
Classify(cur, new) ==
  CASE ProcessSpecChanged(cur.spec, new.spec) -> Change("Switch", <<>>)
    [] ~ProcessSpecChanged(cur.spec, new.spec) /\ ~IsMihomo(new.spec) ->
         Change(IF Unchanged(cur, new) THEN "Noop" ELSE "Switch", <<>>)
    [] OTHER -> IF ControlChannelMoves(cur.source, new.source) THEN Change("Switch", <<>>)
                ELSE ClassifyDocuments(cur.effective, new.effective)

(***************************************************************************)
(* prepare: the effective document and the controller of an epoch          *)
(***************************************************************************)
NonEmptyStr(v) == v[1] = "string" /\ v # Str("")
Endpoint(epoch) == <<"endpoint", epoch>>
RewriteManagedController(doc, epoch, keep) ==
  With(Without(doc, {"external-controller-unix"} \cup (IF keep THEN {} ELSE {"external-controller"})),
       "external-controller-unix", Endpoint(epoch))
Effective(doc, epoch, spec) ==
  IF spec.managed THEN RewriteManagedController(doc, epoch, spec.keep)
  ELSE Without(doc, {"external-controller-unix"})
\* inspect, inspect_http and resolve_controller; Absent is ControllerMissing
ResolveController(doc, spec) ==
  IF spec.managed /\ Get(doc, "external-controller-unix") # Absent
  THEN Get(doc, "external-controller-unix")
  ELSE IF NonEmptyStr(Get(doc, "external-controller")) THEN Get(doc, "external-controller") ELSE Absent
Prepare(doc, epoch, spec) ==
  [source |-> doc, effective |-> Effective(doc, epoch, spec), spec |-> spec,
   controller |-> ResolveController(Effective(doc, epoch, spec), spec)]

ZeroListener(doc, k) ==
  IF Get(doc, k)[1] = "number" /\ doc[k] # Num(0) THEN With(doc, k, Num(0)) ELSE doc
ZeroTun(doc) ==
  IF Nested(doc, "tun", "enable") = Bool(TRUE)
  THEN With(doc, "tun", Map(With(doc["tun"][2], "enable", Bool(FALSE)))) ELSE doc
ZeroInbounds(doc) == ZeroTun(ZeroListener(doc, "mixed-port"))

(***************************************************************************)
(* overlap_block: a document with no dns.listen is looked through; one     *)
(* that has the key is judged by it alone                                  *)
(***************************************************************************)
TunUnknown(doc) ==
  Get(doc, "tun") # Absent /\ (~IsMap(doc["tun"]) \/ Nested(doc, "tun", "enable")[1] \notin {"absent", "bool"})
TuicOpen(doc) ==
  LET tuic == Get(doc, "tuic-server")
  IN tuic # Absent /\ ~(IsMap(tuic) /\ (tuic = Map(<<>>) \/ Nested(doc, "tuic-server", "enable") = Bool(FALSE)))
NonEmptyCollection(v) == v \notin {Absent, Null, Str(""), List(0), Map(<<>>)}
OpenSurface(doc) ==
  \/ \E k \in InboundPortFields : Get(doc, k)[1] \notin {"absent", "number"}
  \/ TunUnknown(doc) \/ TuicOpen(doc)
  \/ Get(doc, "ss-config") \notin {Absent, Str("")}
  \/ NonEmptyCollection(Get(doc, "listeners"))
  \/ DOMAIN doc \cap InboundLike # {}
OverlapBlock(doc) ==
  LET listen == DnsListen(doc)
  IN IF listen # Absent THEN listen \notin {Str(""), Null} ELSE OpenSurface(doc)

HasHttp(doc) == NonEmptyStr(Get(doc, "external-controller"))
Graceful(cur, doc, spec) ==
  /\ IsMihomo(spec) /\ spec.managed
  /\ ~HasHttp(cur.effective) /\ ~(spec.keep /\ HasHttp(doc))
  /\ ~OverlapBlock(doc)

(***************************************************************************)
(* The core                                                                *)
(***************************************************************************)
VARIABLES
  file,    \* the user's document
  want,    \* the spec of the next apply: core, managed controller, HTTP kept
  core,    \* the running epoch: its plan, what the process has adopted, its number
  boot,    \* the bootstrap epoch next to it, if there is one
  edits

gvars == <<file, want, core, boot, edits>>

Binaries == {"mihomo-1", "mihomo-2", "clash-rs"}
Specs == [managed : BOOLEAN, keep : BOOLEAN, binary : Binaries]
\* of the growing epoch number only the difference to the one before matters: 1 or 2
Process(epoch, plan, live) == [epoch |-> epoch, plan |-> plan, live |-> live]
NoBoot == Process(0, <<>>, <<>>)
\* the process of a fresh spawn has read the whole file
Fresh(epoch, plan) == Process(epoch, plan, plan.effective)

ConfigInit ==
  /\ file \in ConfigBases
  /\ want = [managed |-> TRUE, keep |-> FALSE, binary |-> "mihomo-1"]
  /\ core = Fresh(1, Prepare(file, 1, want))
  /\ boot = NoBoot /\ edits = 0

Edited(doc) ==
  /\ boot = NoBoot /\ edits < MaxEdits
  /\ file' = doc /\ edits' = edits + 1 /\ UNCHANGED <<want, core, boot>>
SetRoot(k, v) == Edited(With(file, k, v))
RemoveRoot(k) == k \in DOMAIN file /\ Edited(Without(file, {k}))
SetNested(k, f, v) ==
  IsMap(Get(file, k)) /\ Edited(With(file, k, Map(With(file[k][2], f, v))))
RemoveNested(k, f) ==
  IsMap(Get(file, k)) /\ f \in DOMAIN file[k][2] /\ Edited(With(file, k, Map(Without(file[k][2], {f}))))
SetSpec(spec) ==
  /\ boot = NoBoot /\ edits < MaxEdits /\ spec # want
  /\ want' = spec /\ edits' = edits + 1 /\ UNCHANGED <<file, core, boot>>

\* prepare_apply, then classify; ControllerMissing refuses the apply
Desired == Prepare(file, core.epoch, want)
Verdict == Classify(core.plan, Desired)
Applying(kind) == boot = NoBoot /\ Desired.controller # Absent /\ Verdict.kind = kind

\* Noop: the live revision stands; only the spec of later restarts is new
ApplyNoop ==
  /\ Applying("Noop")
  /\ core' = [core EXCEPT !.plan.spec = want]
  /\ UNCHANGED <<file, want, boot, edits>>

\* what a PATCH does in the core: the fields that are there are set, one by one
Merged(live, patch) ==
  [k \in DOMAIN live \cup DOMAIN patch |->
     IF k \notin DOMAIN patch THEN live[k]
     ELSE IF IsMap(patch[k]) /\ IsMap(Get(live, k))
     THEN Map([f \in DOMAIN live[k][2] \cup DOMAIN patch[k][2] |->
                 IF f \in DOMAIN patch[k][2] THEN patch[k][2][f] ELSE live[k][2][f]])
     ELSE patch[k]]
\* RuntimeProjection::verify: every leaf of the patch is read back
Verified(live, patch) ==
  \A k \in DOMAIN patch :
    IF IsMap(patch[k]) THEN \A f \in DOMAIN patch[k][2] : Nested(live, k, f) = patch[k][2][f]
    ELSE Get(live, k) = patch[k]
\* mutant of Adopt: the PATCH is trusted
AdoptTrusting(live) == Process(core.epoch, Desired, live)
\* reconcile_in_place and, when it fails, the restart of the epoch
Adopt(live) ==
  IF Verified(live, Verdict.patch) THEN Process(core.epoch, Desired, live) ELSE Fresh(core.epoch, Desired)
ApplyPatch ==
  /\ Applying("Patch")
  /\ \E took \in BOOLEAN : core' = Adopt(IF took THEN Merged(core.live, Verdict.patch) ELSE core.live)
  /\ UNCHANGED <<file, want, boot, edits>>

\* PUT /configs with the path of the runtime file
ReloadedDoc ==
  [k \in {k \in DOMAIN core.live \cup DOMAIN Desired.effective :
            IF k \in ReloadFields THEN k \in DOMAIN Desired.effective ELSE k \in DOMAIN core.live} |->
     IF k \in ReloadFields THEN Desired.effective[k] ELSE core.live[k]]
ApplyReload ==
  /\ Applying("Reload")
  /\ \/ core' = Process(core.epoch, Desired, ReloadedDoc)
     \/ core' = Fresh(core.epoch, Desired)
  /\ UNCHANGED <<file, want, boot, edits>>

\* switch_with_compensation: a full process after the old one...
SwitchHard ==
  /\ Applying("Switch") /\ ~Graceful(core.plan, file, want)
  /\ core' = Fresh(3 - core.epoch, Prepare(file, 3 - core.epoch, want))
  /\ UNCHANGED <<file, want, boot, edits>>
\* ... or a bootstrap next to it, unless its patch cannot restore the rest
BootstrapPlan == Prepare(ZeroInbounds(file), 3 - core.epoch, want)
FullPlan == Prepare(file, 3 - core.epoch, want)
Restoration == ClassifyDocuments(BootstrapPlan.effective, FullPlan.effective)
SwitchBootstraps ==
  /\ Applying("Switch") /\ Graceful(core.plan, file, want)
  /\ Restoration.kind \in {"Noop", "Patch"}
  /\ boot' = Process(3 - core.epoch, FullPlan, BootstrapPlan.effective)
  /\ UNCHANGED <<file, want, core, edits>>
SwitchRefused ==
  /\ Applying("Switch") /\ Graceful(core.plan, file, want)
  /\ Restoration.kind \notin {"Noop", "Patch"}
  /\ UNCHANGED gvars
\* the old epoch is retired, the full file committed, the inbounds restored
SwitchRestores ==
  /\ boot # NoBoot
  /\ \E took \in BOOLEAN :
       LET live == IF took THEN Merged(boot.live, Restoration.patch) ELSE boot.live
       IN core' = IF Verified(live, Restoration.patch) THEN Process(boot.epoch, boot.plan, live)
                  ELSE Fresh(boot.epoch, boot.plan)
  /\ boot' = NoBoot
  /\ UNCHANGED <<file, want, edits>>

ConfigNext ==
  \/ \E k \in DOMAIN Candidates : \E v \in Candidates[k] : SetRoot(k, v)
  \/ \E k \in DOMAIN Candidates : RemoveRoot(k)
  \/ \E k \in DOMAIN NestedCandidates : \E f \in DOMAIN NestedCandidates[k] :
       (\E v \in NestedCandidates[k][f] : SetNested(k, f, v)) \/ RemoveNested(k, f)
  \/ \E spec \in Specs : SetSpec(spec)
  \/ ApplyNoop \/ ApplyPatch \/ ApplyReload
  \/ SwitchHard \/ SwitchBootstraps \/ SwitchRefused \/ SwitchRestores

ConfigSpec == ConfigInit /\ [][ConfigNext]_gvars

(***************************************************************************)
(* Properties                                                              *)
(***************************************************************************)

\* A null in a field that is patched decodes to None and reaches nobody.
NullFree(doc) ==
  \A k \in DOMAIN doc : doc[k] # Null /\ (IsMap(doc[k]) => \A f \in DOMAIN doc[k][2] : doc[k][2][f] # Null)

\* Whatever the sequence of edits and applies, the process does what the
\* committed plan says: no change is classified as smaller than it is
\* (classify_documents, build_patch, RuntimeProjection::verify).
LiveMatchesPlan == NullFree(core.plan.effective) => core.live = core.plan.effective

\* The controller that the manager calls is one the running process serves,
\* whichever way the last changes of fields or policy were applied.
ControllerServed == core.plan.controller = ResolveController(core.live, core.plan.spec)

\* what a process listens on, besides its endpoint
Listens(doc) ==
  \/ \E k \in InboundPortFields : Get(doc, k) \notin {Absent, Num(0)}
  \/ Nested(doc, "tun", "enable") = Bool(TRUE)
  \/ TunUnknown(doc) \/ TuicOpen(doc)
  \/ Get(doc, "ss-config") \notin {Absent, Str("")}
  \/ NonEmptyCollection(Get(doc, "listeners"))
  \/ DOMAIN doc \cap InboundLike # {}
  \/ DnsListen(doc) \notin {Absent, Str(""), Null}

\* Two epochs run side by side only when the bootstrap one opens no inbound
\* and they share no controller address (zero_inbounds, overlap_block, the
\* http_listener condition of switch_locked).  overlap_block judges a file
\* that has a dns.listen key by that key alone, so nothing is claimed of the
\* other inbounds of such a file.
OverlapDisjoint ==
  boot # NoBoot =>
    /\ DnsListen(boot.plan.source) = Absent => ~Listens(boot.live)
    /\ ~(HasHttp(core.live) /\ HasHttp(boot.live))
    /\ Get(core.live, "external-controller-unix") # Get(boot.live, "external-controller-unix")

===============================================================================
