------------------------------ MODULE Listing -------------------------------
(***************************************************************************)
(* One listing of an account (crates/lm-provision-driver/src/infra.rs,     *)
(* list and machines): the pages asked for one after another, and the      *)
(* rows read out of each, while machines come and go.  This is where a     *)
(* sweep learns what is absent, and Fleet's listings are these.            *)
(*                                                                         *)
(* Ids grow and the platform sorts by them.  A page may be refused, come   *)
(* in a shape with no rows in it, or name a next page that is no page      *)
(* after this one; a row may come without a readable id.                   *)
(***************************************************************************)
EXTENDS Integers, Sequences, FiniteSets

CONSTANTS
  Newest,      \* the machines are 1 .. Newest
  Unreadable,  \* those whose rows carry an id nobody can read
  PerPage,     \* rows to a page
  MaxPages     \* MAX_LIST_PAGES

ASSUME ListingAssumption ==
  /\ Newest \in Nat /\ PerPage \in Nat \ {0} /\ MaxPages \in Nat \ {0}
  /\ Unreadable \subseteq 1 .. Newest

VARIABLES
  phase,     \* of each machine: "unborn", "up", "ending" (still listed), "gone"
  steady,    \* the machines up since the first page was asked for
  ended,     \* the machines over before it
  departed,  \* how many rows left the account since then
  page,      \* the page to ask for, and how many have been asked for
  walked,
  found,
  listing    \* "walking", "listed" or "failed"

listingVars == <<phase, steady, ended, departed, page, walked, found, listing>>

All == 1 .. Newest
In(p) == {m \in All : phase[m] \in p}

-----------------------------------------------------------------------------
(* Reading one document: an array of rows, or an object's arrays.  What is   *)
(* read of an array does not depend on the order of its rows.               *)

\* Mutant: the first array is taken for the rows.
FirstArray(arrays) == IF arrays = <<>> THEN 0 ELSE 1

\* The array whose entries carry the id key, or none.
RowsAt(arrays) ==
  LET carrying == {i \in DOMAIN arrays : \E row \in arrays[i] : row.keyed}
  IN IF carrying = {} THEN 0 ELSE CHOOSE i \in carrying : \A j \in carrying : i <= j

\* Rows the platform still lists but has already ended are left out.
Live(rows) == {row \in rows : row.live}

Ids(rows) == {row.id : row \in {r \in rows : r.readable}}

\* machines: the ids, or the refusal to take a shape for an empty account.
Unread == {0}
MachinesOf(arrays) ==
  LET at == RowsAt(arrays)
      live == IF at = 0 THEN {} ELSE Live(arrays[at])
  IN CASE at = 0 /\ arrays # <<>> /\ (\A i \in DOMAIN arrays : arrays[i] = {}) -> {}
       [] at # 0 /\ (live = {} \/ Ids(live) # {}) -> Ids(live)
       [] OTHER -> Unread

-----------------------------------------------------------------------------
(* The platform                                                             *)

Row(m) == [id |-> m, live |-> phase[m] = "up", readable |-> m \notin Unreadable,
           keyed |-> TRUE]

Listed == In({"up", "ending"})

\* Where a machine's row stands in the account.
Rank(m) == Cardinality({k \in Listed : k <= m})

OnPage(p) ==
  {Row(m) : m \in {k \in Listed : Rank(k) > (p - 1) * PerPage /\ Rank(k) <= p * PerPage}}

More(p) == p * PerPage < Cardinality(Listed)

\* The rows, alone or after an empty sibling; or a document with none.
Documents(p) == {<<OnPage(p)>>, <<{}, OnPage(p)>>, <<>>,
                 <<{[id |-> 0, live |-> TRUE, readable |-> FALSE, keyed |-> FALSE]}>>}

NoNext == 0

\* The next page, none after the last, or an answer that does not advance or
\* never ends.
NextPages(p) == {IF More(p) THEN p + 1 ELSE NoNext, p, p + 1}

Arrive ==
  /\ listing = "walking"
  /\ \E m \in In({"unborn"}) :
       /\ \A k \in In({"unborn"}) : m <= k
       /\ phase' = [phase EXCEPT ![m] = "up"]
  /\ UNCHANGED <<steady, ended, departed, page, walked, found, listing>>

\* A machine ends, and its row stays for a while or leaves with it.
Depart ==
  /\ listing = "walking"
  /\ \E m \in Listed, to \in {"ending", "gone"} :
       /\ phase[m] # to
       /\ phase' = [phase EXCEPT ![m] = to]
       /\ steady' = steady \ {m}
       /\ departed' = departed + (IF to = "gone" THEN 1 ELSE 0)
  /\ UNCHANGED <<ended, page, walked, found, listing>>

-----------------------------------------------------------------------------
(* list                                                                     *)

Begins(start) ==
  /\ phase = start
  /\ steady = {m \in All : start[m] = "up"}
  /\ ended = {m \in All : start[m] \in {"ending", "gone"}}
  /\ departed = 0 /\ page = 1 /\ walked = 0 /\ found = {}
  /\ listing = "walking"

Born(start) == {m \in All : start[m] # "unborn"}
ListingInit == \E start \in [All -> {"unborn", "up", "ending"}] :
                 /\ Born(start) = 1 .. Cardinality(Born(start))
                 /\ Begins(start)

Outcome(to) == listing' = to /\ UNCHANGED page

Advances(next) == next > page

Spent(pages) == pages >= MaxPages

\* The platform's CLI fails: so does the listing.
AskFails == /\ listing = "walking"
            /\ Outcome("failed")
            /\ UNCHANGED <<phase, steady, ended, departed, walked, found>>

Ask ==
  /\ listing = "walking"
  /\ walked' = walked + 1
  /\ \E arrays \in Documents(page), next \in NextPages(page) :
       IF MachinesOf(arrays) = Unread
         THEN Outcome("failed") /\ UNCHANGED found
         ELSE /\ found' = found \cup MachinesOf(arrays)
              /\ CASE next = NoNext -> Outcome("listed")
                   [] next # NoNext /\ (~Advances(next) \/ Spent(walked + 1)) ->
                        Outcome("failed")
                   [] OTHER -> page' = next /\ UNCHANGED listing
  /\ UNCHANGED <<phase, steady, ended, departed>>

ListingOver == listing # "walking" /\ UNCHANGED listingVars

ListingNext == Arrive \/ Depart \/ AskFails \/ Ask \/ ListingOver

\* A platform's CLI returns.
ListingFairness == WF_listingVars(AskFails \/ Ask)

ListingSpec == ListingInit /\ [][ListingNext]_listingVars /\ ListingFairness

-----------------------------------------------------------------------------
(* Properties                                                               *)

\* Every variable keeps to its values; a machine found is one of the account's.
ListingTypeOK ==
  /\ phase \in [All -> {"unborn", "up", "ending", "gone"}]
  /\ steady \subseteq In({"up"}) /\ ended \subseteq All
  /\ page \in Nat \ {0} /\ walked \in Nat /\ departed \in 0 .. Newest
  /\ found \subseteq All /\ listing \in {"walking", "listed", "failed"}

\* A listing that succeeds hides no running machine with a readable row, but
\* for one by each row that left the account while it was read (Fleet::next_page
\* says which): no shape, sibling array, page or newcomer hides any. And it
\* shows none that was over before it began, which a sweep would release anew
\* on every tick.
ListingTrue ==
  /\ listing = "listed" =>
       Cardinality(steady \ (found \cup Unreadable)) <= departed
  /\ found \cap ended = {}

\* A listing ends, whatever the platform names as the next page.
ListingEnds == <>(listing # "walking")
=============================================================================
