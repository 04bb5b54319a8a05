------------------------------ MODULE Pipeline ------------------------------
(***************************************************************************)
(* The profile pipeline before anything runs: resolve.rs expands a         *)
(* document's imports depth first through an explicit stack of open        *)
(* documents, over a cache directory every process of the operator shares, *)
(* and against servers that may serve other bytes at any time;             *)
(* normalize.rs orders and completes the phases, validate.rs judges them,  *)
(* and apply runs what it resolves for itself.                             *)
(*                                                                         *)
(* A document's text is abstracted to the record its parse yields, and the *)
(* canonical hash of an expanded fragment to the fragment without its node *)
(* ids: a pin is such a value.                                             *)
(***************************************************************************)
EXTENDS Naturals, FiniteSets, SequencesExt

CONSTANTS Processes, \* resolving processes that share the cache directory
          Roots,     \* the profiles they may be given, local files
          Files,     \* local file -> its document
          Served,    \* URL name -> the documents its server may hand out
          Entries,   \* what a cache file may be found holding
          Keys,      \* the names environments and assumptions give values to
          Words,     \* and the values
          Depth,     \* MAX_IMPORT_DEPTH
          Changes,   \* BOUND: what servers and the cache's owner may change
          Passes     \* BOUND: commands given in one behaviour

VARIABLES site,     \* URL name -> the document it serves now, or Nothing
          cache,    \* pin -> what <cache_root>/<pin> holds, or Nothing
          changes, passes,
          work,     \* process -> its command
          stack,    \* process -> the documents it has open, root first
          settled,  \* profile -> every expansion a command ended with
          admitted  \* profiles some validate accepted

vars == <<site, cache, changes, passes, work, stack, settled, admitted>>

Nothing == [kind |-> "nothing"]
NoPin == [kind |-> "no pin"]
Malformed == [kind |-> "malformed pin"]

Idle == [does |-> "idle", root |-> Nothing, at |-> "end", next |-> 0]

-----------------------------------------------------------------------------
(* Documents and their node ids                                            *)

\* The kinds of phase there are; an import is none until it is expanded.
PhaseKinds == {"install", "toolchain", "pycheck", "pydeps", "models", "restart",
               "health", "sh", "write", "vacuous"}

\* What a hash tells apart: everything but the ids.
Maps == UNION {[K -> Words] : K \in SUBSET Keys}

Hashes == [kind : STRING, caps : SUBSET STRING, assumes : Maps, env : Maps,
           items : Seq((PhaseKinds \cup {"import"}) \X Nat)]

\* Items and documents with ids among Ids, those of an item's values a set in
\* Inner; a document that has not been parsed has none.
Items(Ids, Inner) ==
  [kind : PhaseKinds, values : Nat, id : Ids, inner : Inner]
    \cup [kind : {"import"}, src : [form : STRING, name : STRING],
          pin : Hashes \cup {NoPin, Malformed}, values : Nat, id : Ids, inner : Inner]

Docs(Ids, Inner) ==
  [kind : STRING, caps : SUBSET STRING, assumes : Maps,
   env : UNION {[K -> [value : Words, id : Ids]] : K \in SUBSET Keys},
   items : Seq(Items(Ids, Inner)), id : Ids]

Texts == Docs({0}, {{}})

Documents == {Files[f] : f \in DOMAIN Files}
               \cup UNION {Served[u] : u \in DOMAIN Served}

ASSUME PipelineAssumption ==
  /\ IsFiniteSet(Keys)
  /\ Roots \subseteq DOMAIN Files /\ DOMAIN Files \subseteq STRING
  /\ Documents \cup Entries \subseteq Texts

IsImport(item) == item.kind = "import"

\* The last id of each item, if one is minted for each value node in it and
\* then one for itself, from above n.
LastIds(items, n) ==
  LET last[i \in 0 .. Len(items)] ==
        IF i = 0 THEN n ELSE last[i - 1] + items[i].values + 1
  IN last

\* A parse mints the ids of the environment's values, of the items, and the
\* root's last, all above n.
Parse(doc, n) ==
  LET keys == SetToSeq(DOMAIN doc.env)
      last == LastIds(doc.items, n + Len(keys))
  IN [doc EXCEPT
        !.id = last[Len(doc.items)] + 1,
        !.env = [k \in DOMAIN doc.env |->
                   [doc.env[k] EXCEPT !.id =
                      n + CHOOSE i \in DOMAIN keys : keys[i] = k]],
        !.items = [i \in DOMAIN doc.items |->
                     [doc.items[i] EXCEPT !.id = last[i],
                                          !.inner = last[i - 1] + 1 .. last[i] - 1]]]

ItemIds(items) ==
  UNION {{items[i].id} \cup items[i].inner : i \in DOMAIN items}

EnvIds(doc) == {doc.env[k].id : k \in DOMAIN doc.env}

Highest(ids) == CHOOSE top \in ids : \A id \in ids : id <= top

\* As the profile of an earlier version had it: the phases' ids alone.
MaxIdOfPhases(doc) == Highest(ItemIds(doc.items) \cup {0})

\* Over the whole tree: the root, its values, the phases and theirs.
MaxId(doc) == Highest(ItemIds(doc.items) \cup EnvIds(doc) \cup {doc.id})

\* What canonical::hash reads: everything but the ids.
Hash(doc) ==
  [kind |-> doc.kind, caps |-> doc.caps, assumes |-> doc.assumes,
   env |-> [k \in DOMAIN doc.env |-> doc.env[k].value],
   items |-> [i \in DOMAIN doc.items |->
                <<doc.items[i].kind, doc.items[i].values>>]]

-----------------------------------------------------------------------------
(* Where an import leads, and what refuses it before anything is read      *)

\* A relative source means what it means next to the document that wrote it.
Target(src, loc) ==
  [remote |-> src.form = "https" \/ loc.remote, name |-> src.name]

Refused(open, import) ==
  LET loc == open[Len(open)].loc
      target == Target(import.src, loc)
  IN \/ Len(open) > Depth
     \/ import.src.form = "denied"
     \/ loc.remote /\ import.src.form = "absolute"
     \/ target.remote /\ import.pin = NoPin
     \/ import.pin = Malformed
     \/ \E i \in DOMAIN open : open[i].loc = target

\* An entry counts when it parses, whatever it says.
HoldsParsed(pin, entry) == entry.kind = "fragment"

\* An entry counts when it parses as a fragment that hashes to its name.
Holds(pin, entry) == entry.kind = "fragment" /\ Hash(entry) = pin

Frame(loc, pin, doc) ==
  [loc |-> loc, pin |-> pin, doc |-> [doc EXCEPT !.items = <<>>],
   todo |-> doc.items]

\* The next phase is passed through to the document that is open.
Passing(open) ==
  LET n == Len(open)
  IN [open EXCEPT ![n].doc.items = Append(@, open[n].todo[1]), ![n].todo = Tail(@)]

-----------------------------------------------------------------------------
(* Merging an expanded fragment into the document that imported it         *)

Agree(f, g) == \A k \in DOMAIN f \cap DOMAIN g : f[k] = g[k]

Values(env) == [k \in DOMAIN env |-> env[k].value]

Mergeable(doc, fragment) ==
  /\ Agree(Values(doc.env), Values(fragment.env))
  /\ Agree(doc.assumes, fragment.assumes)

Union(f, g) ==
  [k \in DOMAIN f \cup DOMAIN g |-> IF k \in DOMAIN f THEN f[k] ELSE g[k]]

Merge(doc, fragment) ==
  [doc EXCEPT !.caps = @ \cup fragment.caps,
              !.env = Union(@, fragment.env),
              !.assumes = Union(@, fragment.assumes),
              !.items = @ \o fragment.items]

\* The import that is next gives way to its fragment.
Spliced(open, fragment) ==
  LET n == Len(open)
  IN [open EXCEPT ![n].doc = Merge(@, fragment), ![n].todo = Tail(@)]

-----------------------------------------------------------------------------
(* normalize: canonical order, implied phases with ids of their own        *)

\* The kinds in the order their phases run; operations of the engine share
\* the last place, in the order they are written.
CanonicalOrder ==
  <<{"install"}, {"toolchain"}, {"pycheck"}, {"pydeps"}, {"models"},
    {"restart"}, {"health"}, {"sh", "write"}>>

Places == DOMAIN CanonicalOrder

\* Phases of a kind without a place (the vacuous version check) go.
Placed(kind) == \E b \in Places : kind \in CanonicalOrder[b]

Kept(items) == {i \in DOMAIN items : Placed(items[i].kind)}

Earlier(items, j, i) ==
  \E a, b \in Places :
    /\ items[j].kind \in CanonicalOrder[a]
    /\ items[i].kind \in CanonicalOrder[b]
    /\ a < b \/ (a = b /\ j < i)

Kinds(items) == {items[i].kind : i \in DOMAIN items}

\* What a checkout implies: an environment, a launch and a look at it.
Unless(kinds, kind) == IF kind \in kinds THEN <<>> ELSE <<kind>>

Implied(kinds) ==
  IF "install" \in kinds
  THEN Unless(kinds, "toolchain") \o Unless(kinds, "restart") \o Unless(kinds, "health")
  ELSE <<>>

Inserted(doc) ==
  LET implied == Implied(Kinds(doc.items))
  IN [i \in DOMAIN implied |->
        [kind |-> implied[i], values |-> 0, inner |-> {}, id |-> MaxId(doc) + i]]

\* The phases that run, under the numbers they have in the list with what is
\* implied at its end; Earlier says in which order.
Normalize(doc) ==
  LET all == doc.items \o Inserted(doc)
  IN [doc EXCEPT !.items = [i \in Kept(all) |-> all[i]]]

-----------------------------------------------------------------------------
(* validate, and the run it speaks for                                     *)

Requires(kind) ==
  CASE kind = "models" -> {"comfyui_root"}
    [] kind = "toolchain" -> {"comfyui_root"}
    [] kind = "restart" -> {"comfyui_root", "venv"}
    [] kind = "pydeps" -> {"venv"}
    [] OTHER -> {}

Produces(kind) ==
  CASE kind = "install" -> {"comfyui_root"}
    [] kind = "toolchain" -> {"venv"}
    [] OTHER -> {}

\* The capability the gate asks for when a phase of this kind runs.
Demand(kind) ==
  CASE kind = "models" -> {"net.transfer"}
    [] kind = "health" -> {"net.http_get"}
    [] kind = "write" -> {"fs.write"}
    [] OTHER -> {"sh.exec"}

Bound(doc, i) ==
  DOMAIN doc.assumes
    \cup UNION {Produces(doc.items[j].kind) :
                  j \in {k \in DOMAIN doc.items : Earlier(doc.items, k, i)}}

InScope(doc) ==
  \A i \in DOMAIN doc.items : Requires(doc.items[i].kind) \subseteq Bound(doc, i)

Derived(doc) == UNION {Demand(doc.items[i].kind) : i \in DOMAIN doc.items}

\* Mutant: the demand of what the author wrote, not of what will run.
AdmitsAsWritten(doc) == InScope(Normalize(doc)) /\ Derived(doc) \subseteq doc.caps

\* Checks 8b and 9.
Admits(doc) ==
  LET normal == Normalize(doc)
  IN InScope(normal) /\ Derived(normal) \subseteq doc.caps

\* An apply's phases, one after the other, each against what the earlier
\* ones bound and the capabilities the profile declares.
RunsThrough(doc) ==
  LET run == Normalize(doc)
  IN \A i \in DOMAIN run.items :
       /\ Requires(run.items[i].kind) \subseteq Bound(run, i)
       /\ Demand(run.items[i].kind) \subseteq run.caps

\* The ids an apply's program holds: the tree's, and above them one per
\* composed step (one per phase here).
StepIds(doc) == [i \in DOMAIN doc.items |-> MaxId(doc) + i]

\* Who bears which id.
Node(is, of, id) == [is |-> is, of |-> of, id |-> id]

Nodes(doc) ==
  {Node("root", "", doc.id)}
    \cup {Node("value", k, doc.env[k].id) : k \in DOMAIN doc.env}
    \cup UNION {{Node("phase", i, doc.items[i].id)}
                   \cup {Node("inner", i, n) : n \in doc.items[i].inner}
                 : i \in DOMAIN doc.items}

StepNodes(doc) ==
  LET steps == StepIds(doc) IN {Node("step", i, steps[i]) : i \in DOMAIN steps}

-----------------------------------------------------------------------------
(* One process                                                             *)

Top(p) == stack[p][Len(stack[p])]
Rest(p) == SubSeq(stack[p], 1, Len(stack[p]) - 1)
Ahead(p) == Top(p).todo[1]

Busy(p, at) == work[p].does # "idle" /\ work[p].at = at

Fail(p) ==
  /\ work' = [work EXCEPT ![p] = Idle]
  /\ stack' = [stack EXCEPT ![p] = <<>>]

Goto(p, at, next) == work' = [work EXCEPT ![p].at = at, ![p].next = next]

\* load_profile, and resolve_at: ids of fragments start above the root's.
Start(p, root, does) ==
  LET doc == Parse(Files[root], 0)
  IN /\ work[p].does = "idle"
     /\ passes < Passes
     /\ passes' = passes + 1
     /\ work' = [work EXCEPT ![p] = [does |-> does, root |-> root,
                                     at |-> "walk", next |-> MaxId(doc)]]
     /\ stack' = [stack EXCEPT ![p] =
                    <<Frame([remote |-> FALSE, name |-> root], NoPin, doc)>>]
     /\ UNCHANGED <<site, cache, changes, settled, admitted>>

\* expand_phases passes a phase through.
Pass(p) ==
  /\ Busy(p, "walk")
  /\ Top(p).todo # <<>>
  /\ ~IsImport(Ahead(p))
  /\ stack' = [stack EXCEPT ![p] = Passing(@)]
  /\ UNCHANGED <<site, cache, changes, passes, work, settled, admitted>>

\* The fragment an import stood for takes its place.
Splice(p, below, fragment) ==
  IF Mergeable(below[Len(below)].doc, fragment)
  THEN stack' = [stack EXCEPT ![p] = Spliced(below, fragment)]
  ELSE stack' = [stack EXCEPT ![p] = <<>>]

AfterSplice(p, below, fragment, next) ==
  IF Mergeable(below[Len(below)].doc, fragment)
  THEN Goto(p, "walk", next)
  ELSE work' = [work EXCEPT ![p] = Idle]

\* expand_import up to and with the cache: refuse, take the entry, or go on
\* to the document itself. An entry that does not hold costs ids, no more.
Look(p) ==
  LET import == Ahead(p)
      target == Target(import.src, Top(p).loc)
      keyed == target.remote /\ import.pin \in DOMAIN cache
      entry == IF keyed THEN cache[import.pin] ELSE Nothing
      parsed == IF entry = Nothing THEN Nothing
                ELSE Parse(entry, work[p].next)
  IN /\ Busy(p, "walk")
     /\ Top(p).todo # <<>>
     /\ IsImport(import)
     /\ \/ Refused(stack[p], import) /\ Fail(p)
        \/ /\ ~Refused(stack[p], import)
           /\ entry # Nothing /\ Holds(import.pin, parsed)
           /\ Splice(p, stack[p], parsed)
           /\ AfterSplice(p, stack[p], parsed, parsed.id)
        \/ /\ ~Refused(stack[p], import)
           /\ entry = Nothing \/ ~Holds(import.pin, parsed)
           /\ Goto(p, "load", IF entry = Nothing THEN work[p].next ELSE parsed.id)
           /\ UNCHANGED stack
     /\ UNCHANGED <<site, cache, changes, passes, settled, admitted>>

\* load_at: the file, or whatever the server hands out by now. Anything but
\* a fragment ends the resolve; a fragment is opened.
Load(p) ==
  LET import == Ahead(p)
      target == Target(import.src, Top(p).loc)
      there == IF target.remote THEN site ELSE Files
      found == IF target.name \in DOMAIN there THEN there[target.name] ELSE Nothing
      doc == Parse(found, work[p].next)
  IN /\ Busy(p, "load")
     /\ IF found.kind # "fragment" THEN Fail(p)
        ELSE /\ stack' = [stack EXCEPT ![p] =
                            Append(@, Frame(target, import.pin, doc))]
             /\ Goto(p, "walk", doc.id)
     /\ UNCHANGED <<site, cache, changes, passes, settled, admitted>>

\* A fragment is expanded: the pin is held against the expansion, a remote
\* one is left in the cache (without ids, as its bytes are) if that can be
\* written, and it is spliced in.
Close(p) ==
  LET frame == Top(p)
      bytes == Parse(frame.doc, 0)
      keep == frame.loc.remote /\ frame.pin # NoPin
  IN /\ Busy(p, "walk")
     /\ Len(stack[p]) > 1
     /\ frame.todo = <<>>
     /\ IF frame.pin # NoPin /\ Hash(frame.doc) # frame.pin
        THEN Fail(p) /\ UNCHANGED cache
        ELSE /\ \/ keep /\ cache' = [cache EXCEPT ![frame.pin] = bytes]
                \/ UNCHANGED cache
             /\ Splice(p, Rest(p), frame.doc)
             /\ AfterSplice(p, Rest(p), frame.doc, work[p].next)
     /\ UNCHANGED <<site, changes, passes, settled, admitted>>

\* The root is expanded: what the command was for.
Finish(p) ==
  LET doc == Top(p).doc
      root == work[p].root
  IN /\ Busy(p, "walk")
     /\ Len(stack[p]) = 1
     /\ Top(p).todo = <<>>
     /\ settled' = [settled EXCEPT ![root] = @ \cup {Hash(doc)}]
     /\ IF work[p].does = "validate"
        THEN /\ admitted' = IF Admits(doc) THEN admitted \cup {root} ELSE admitted
             /\ Fail(p)
        ELSE /\ work' = [work EXCEPT ![p].at =
                           IF RunsThrough(doc) THEN "ran" ELSE "stopped"]
             /\ UNCHANGED <<stack, admitted>>
     /\ UNCHANGED <<site, cache, changes, passes>>

\* The apply is over and its process gone.
Leave(p) ==
  /\ Busy(p, "ran") \/ Busy(p, "stopped")
  /\ Fail(p)
  /\ UNCHANGED <<site, cache, changes, passes, settled, admitted>>

-----------------------------------------------------------------------------
(* Servers and the cache directory                                         *)

\* A server hands out another document, or none.
Republish(url) ==
  /\ changes < Changes
  /\ changes' = changes + 1
  /\ \E doc \in Served[url] \cup {Nothing} :
       doc # site[url] /\ site' = [site EXCEPT ![url] = doc]
  /\ UNCHANGED <<cache, passes, work, stack, settled, admitted>>

\* A cache file is evicted, damaged, or copied over another.
Disturb(pin) ==
  /\ changes < Changes
  /\ changes' = changes + 1
  /\ \E entry \in Entries \cup {Nothing} :
       entry # cache[pin] /\ cache' = [cache EXCEPT ![pin] = entry]
  /\ UNCHANGED <<site, passes, work, stack, settled, admitted>>

-----------------------------------------------------------------------------
PinsOf(doc) ==
  {doc.items[i].pin : i \in {j \in DOMAIN doc.items : IsImport(doc.items[j])}}
    \ {NoPin, Malformed}

Init ==
  /\ site \in {s \in [DOMAIN Served -> UNION {Served[u] : u \in DOMAIN Served}] :
                 \A u \in DOMAIN Served : s[u] \in Served[u]}
  /\ cache = [pin \in UNION {PinsOf(d) : d \in Documents} |-> Nothing]
  /\ changes = 0
  /\ passes = 0
  /\ work = [p \in Processes |-> Idle]
  /\ stack = [p \in Processes |-> <<>>]
  /\ settled = [r \in Roots |-> {}]
  /\ admitted = {}

Step(p) == Pass(p) \/ Look(p) \/ Load(p) \/ Close(p) \/ Finish(p) \/ Leave(p)

Next ==
  \/ \E p \in Processes : Step(p)
  \/ \E p \in Processes, r \in Roots, does \in {"validate", "apply"} : Start(p, r, does)
  \/ \E url \in DOMAIN Served : Republish(url)
  \/ \E pin \in DOMAIN cache : Disturb(pin)

Spec == Init /\ [][Next]_vars

-----------------------------------------------------------------------------
\* A profile whose remote imports are pinned (and no other kind resolves)
\* expands to one and the same document however often, in whichever process
\* and with whatever on the servers and in the cache (resolve.rs, verify the
\* pin against the expansion; try_cache, rehash what was read).
PinnedIsFixed == \A root \in Roots : Cardinality(settled[root]) <= 1

\* What a validate once admitted, an apply of the same profile that gets
\* past resolve never stops on: no unbound resource and no capability it did
\* not declare, the phases it never wrote included (validate.rs 8b and 9).
AdmittedRuns ==
  \A p \in Processes : Busy(p, "stopped") => work[p].root \notin admitted

\* The tree an apply runs never holds an id twice, fragments parsed by other
\* generators, inserted phases and projected steps included: the engine's
\* program is keyed by them (resolve_at, IdMinter, StepPlan::build).
IdsInjective ==
  \A p \in Processes : Busy(p, "ran") =>
    LET doc == Normalize(stack[p][1].doc)
    IN \A a, b \in Nodes(doc) \cup StepNodes(doc) : a.id = b.id => a = b
=============================================================================
