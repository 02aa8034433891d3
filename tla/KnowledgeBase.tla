---------------------------- MODULE KnowledgeBase ----------------------------
(***************************************************************************)
(* The viewer of a knowledge base in the browser: the page that renders    *)
(* whichever document its URL names, the reader's history, the search box, *)
(* and the index that reads every document in the background               *)
(* (web/shells/kbshell/kb.js and kb-search.js).                            *)
(*                                                                         *)
(* One thread runs it, and everything it waits for is a callback: the      *)
(* answer of a fetch, a timer, a key or a click of the reader, in whatever *)
(* order they come.                                                        *)
(*                                                                         *)
(* Abstractions.  A place is what a URL of the base names: a document, or  *)
(* something the page shows at once (a listing, a file it does not render, *)
(* a path that is not there).  Fragments, the sidebar, the outline and the *)
(* drawers are left out.  A query is answered with the documents it was    *)
(* asked over.  The file list names a document once.  A base whose list    *)
(* cannot be read shows the error and is not followed further.             *)
(***************************************************************************)
EXTENDS Naturals, Sequences, FiniteSets, FiniteSetsExt

CONSTANTS
    Docs,       \* the documents, in the order of the file list
    Panels,     \* the other places
    Root,       \* the place "", or none of these
    RootDoc,    \* the document shown there
    DocSize,    \* document -> bytes
    MaxFiles,   \* MAX_FILES
    MaxBytes,   \* MAX_BYTES
    Every,      \* indexed documents between two reports
    Queries,    \* what the reader may type, at least two characters of it
    Readings    \* bounds on visits, keys and failing fetches, one per behaviour

Documents == {Docs[i] : i \in 1..Len(Docs)}
Places == Documents \union Panels \union {Root}

ASSUME BaseAssumption ==
    /\ Docs \in Seq(Documents) /\ RootDoc \in Documents /\ "none" \notin Documents
    /\ DocSize \in [Documents -> Nat] /\ {MaxFiles, MaxBytes, Every} \subseteq Nat \ {0}
    /\ \A i, j \in 1..Len(Docs) : Docs[i] = Docs[j] => i = j

VARIABLES
    listed,   \* whether the file list has come, or failed
    entries,  \* the places of the history, and the one the URL names
    shown,    \* what the content area holds
    pending,  \* the path whose fetch is in flight, or was the last to be
    fetches,  \* document -> its fetches in flight for the page
    index,    \* the index: what it holds and how far its walk is
    search,   \* the search box and the results under it
    budget    \* what is left of the bounds

baseVars == <<listed, entries, shown, pending, fetches, index, search, budget>>

None == "none"
Blank == [kind |-> "blank", place |-> None]
Doc(p) == [kind |-> "doc", place |-> p]
Short == "" \* a query of less than two characters

\* What the index tells the page.
State(x) == [done |-> x.done, indexed |-> x.texts, failures |-> x.failures, bounded |-> x.bounded]

NewIndex == [texts |-> {}, seeds |-> {}, cursor |-> 0, failures |-> 0, bounded |-> FALSE,
             done |-> FALSE, walk |-> "off"]

BaseInit ==
    /\ listed = "asked" /\ shown = Blank /\ pending = None
    /\ \E p \in Places : entries = [seq |-> <<p>>, at |-> 1]
    /\ fetches = [d \in Documents |-> 0]
    /\ index = NewIndex
    /\ search = [value |-> Short, typing |-> FALSE, open |-> FALSE, hits |-> {},
                 of |-> Short, note |-> State(NewIndex)]
    /\ budget \in Readings

Uses(kind) == budget[kind] > 0 /\ budget' = [budget EXCEPT ![kind] = @ - 1]

Addressed == entries.seq[entries.at]
Named(p) == IF p = Root THEN RootDoc ELSE p
Rendered == IF shown.kind = "doc" THEN shown.place ELSE None

-----------------------------------------------------------------------------
(* The page. *)

\* A document that is painted already is not fetched again.
OpenDoc(d) ==
    IF d = Rendered THEN UNCHANGED <<shown, pending, fetches>>
    ELSE /\ pending' = d /\ fetches' = [fetches EXCEPT ![d] = @ + 1]
         /\ UNCHANGED shown

\* begin: a listing, a link or an error takes the place of a document.
Begin(kind, p) == shown' = [kind |-> kind, place |-> p] /\ pending' = None

Show(p) ==
    IF Named(p) \in Documents THEN OpenDoc(Named(p))
    ELSE Begin("panel", p) /\ UNCHANGED fetches

Hidden(s) == [s EXCEPT !.open = FALSE, !.hits = {}, !.of = Short]

\* start: the page shows what its URL names, and the walk begins.
Listed ==
    /\ listed = "asked" /\ listed' = "yes"
    /\ Show(Addressed)
    /\ index' = [index EXCEPT !.walk = "timer"]
    /\ search' = [search EXCEPT !.note = State(index)]
    /\ UNCHANGED <<entries, budget>>

NotListed ==
    /\ listed = "asked" /\ listed' = "failed" /\ Uses("failures")
    /\ Begin("error", None)
    /\ UNCHANGED <<entries, fetches, index, search>>

\* A link, a crumb, the sidebar or a hit: the place is pushed unless the URL
\* names it.
Navigate(p) ==
    /\ listed = "yes" /\ Uses("visits")
    /\ entries' = IF p = Addressed THEN entries
                  ELSE [seq |-> Append(SubSeq(entries.seq, 1, entries.at), p), at |-> entries.at + 1]
    /\ search' = Hidden(search)
    /\ Show(p)
    /\ UNCHANGED <<listed, index>>

\* popstate: the browser has changed the URL already.
Travel(i) ==
    /\ listed = "yes" /\ Uses("visits") /\ i # entries.at
    /\ entries' = [entries EXCEPT !.at = i]
    /\ IF Named(entries.seq[i]) = Rendered THEN UNCHANGED <<shown, pending, fetches>>
                                           ELSE Show(entries.seq[i])
    /\ UNCHANGED <<listed, index, search>>

\* The answer of a fetch counts if no later navigation won the race.
AlwaysWins(d) == TRUE
Wins(d) == pending = d

\* seed: the text is kept for the walk, while there is one.
SeedAtOnce(d) ==
    index' = IF index.done THEN index ELSE [index EXCEPT !.texts = @ \union {d}]
Seed(d) == index' = IF index.done THEN index ELSE [index EXCEPT !.seeds = @ \union {d}]

DocAnswered(d, ok) ==
    /\ fetches[d] > 0 /\ fetches' = [fetches EXCEPT ![d] = @ - 1]
    /\ IF ok THEN UNCHANGED budget ELSE Uses("failures")
    /\ CASE ~Wins(d) -> UNCHANGED <<shown, pending, index>>
         [] Wins(d) /\ ok -> Seed(d) /\ shown' = Doc(d) /\ UNCHANGED pending
         [] Wins(d) /\ ~ok -> Begin("error", d) /\ UNCHANGED index
    /\ UNCHANGED <<listed, entries, search>>

-----------------------------------------------------------------------------
(* The search box. *)

\* runQuery over what the index holds now, with its note.
Results(s, x) ==
    IF s.value = Short THEN Hidden(s)
    ELSE [s EXCEPT !.open = TRUE, !.of = s.value, !.hits = x.texts, !.note = State(x)]

\* onProgress: the note, and the results again if they are open.
Report(x) == LET noted == [search EXCEPT !.note = State(x)] IN
    search' = IF search.open THEN Results(noted, x) ELSE noted

Type(q) ==
    /\ listed = "yes" /\ Uses("keys") /\ q # search.value
    /\ search' = [search EXCEPT !.value = q, !.typing = TRUE]
    /\ UNCHANGED <<listed, entries, shown, pending, fetches, index>>

TimerRuns ==
    /\ search.typing
    /\ search' = Results([search EXCEPT !.typing = FALSE], index)
    /\ UNCHANGED <<listed, entries, shown, pending, fetches, index, budget>>

\* The box is entered again, left by a click elsewhere, or cleared.
Focus ==
    /\ listed = "yes" /\ Uses("keys") /\ search.value # Short
    /\ search' = Results(search, index)
    /\ UNCHANGED <<listed, entries, shown, pending, fetches, index>>

Leave ==
    /\ Uses("keys")
    /\ \/ search.open /\ search' = Hidden(search)
       \/ search.value # Short /\ search' = Hidden([search EXCEPT !.value = Short])
    /\ UNCHANGED <<listed, entries, shown, pending, fetches, index>>

-----------------------------------------------------------------------------
(* The walk of the index. *)

Bytes(ds) == MapThenSumSet(LAMBDA d : DocSize[d], ds)
AtBound(ds) == Cardinality(ds) >= MaxFiles \/ Bytes(ds) >= MaxBytes

Absorbed(x, d) == [x EXCEPT !.texts = @ \union {d}, !.seeds = @ \ {d}]

\* next: a report now and then, and a turn for the page.
NextTurn(x) ==
    /\ index' = [x EXCEPT !.walk = "timer"]
    /\ IF x.cursor % Every = 0 THEN Report(index') ELSE UNCHANGED search

\* The last step tells the page, whatever it told before.
Stop ==
    /\ index.walk = "timer"
    /\ index.cursor = Len(Docs) \/ AtBound(index.texts)
    /\ index' = [index EXCEPT !.bounded = index.cursor < Len(Docs), !.seeds = {}, !.done = TRUE,
                              !.walk = "over"]
    /\ Report(index')
    /\ UNCHANGED <<listed, entries, shown, pending, fetches, budget>>

Step ==
    /\ index.walk = "timer" /\ index.cursor < Len(Docs) /\ ~AtBound(index.texts)
    /\ LET x == [index EXCEPT !.cursor = @ + 1]
           d == Docs[x.cursor]
       IN  IF d \in index.seeds THEN NextTurn(Absorbed(x, d))
           ELSE index' = [x EXCEPT !.walk = "fetching"] /\ UNCHANGED search
    /\ UNCHANGED <<listed, entries, shown, pending, fetches, budget>>

\* One that cannot be read is counted and passed over.
FailureEnds(x) == index' = [x EXCEPT !.walk = "over"] /\ UNCHANGED search
FailureGoesOn(x) == NextTurn(x)

Walked(ok) ==
    /\ index.walk = "fetching"
    /\ IF ok THEN NextTurn(Absorbed(index, Docs[index.cursor])) /\ UNCHANGED budget
       ELSE FailureGoesOn([index EXCEPT !.failures = @ + 1]) /\ Uses("failures")
    /\ UNCHANGED <<listed, entries, shown, pending, fetches>>

-----------------------------------------------------------------------------
Reader ==
    \/ \E p \in Places : Navigate(p)
    \/ \E i \in 1..Len(entries.seq) : Travel(i)
    \/ \E q \in Queries \union {Short} : Type(q)
    \/ Focus \/ Leave

PageAnswers == Listed \/ NotListed \/ \E d \in Documents, ok \in BOOLEAN : DocAnswered(d, ok)
Walks == Stop \/ Step \/ \E ok \in BOOLEAN : Walked(ok)

BaseNext == Reader \/ PageAnswers \/ TimerRuns \/ Walks

\* A fetch is answered and a timer runs.
BaseSpec ==
    /\ BaseInit /\ [][BaseNext]_baseVars
    /\ WF_baseVars(PageAnswers) /\ WF_baseVars(TimerRuns) /\ WF_baseVars(Walks)

-----------------------------------------------------------------------------
(* Properties. *)

Quiet == listed = "yes" /\ \A d \in Documents : fetches[d] = 0

\* When no document is on its way, the page holds the one it fetched last, and
\* none over a listing or an error that came after it, in whatever order the
\* answers arrived (kb.js openDoc and begin).
LastAskedShown == Quiet =>
    IF pending = None THEN shown.kind \in {"panel", "error"} ELSE shown = Doc(pending)

\* The bound of the index falls in the order of the file list, not in the
\* reader's (kb-search.js seed): it holds what the walk has passed, without
\* what could not be read, and it never went on beyond a bound.
IndexInOrder ==
    LET passed == {Docs[i] : i \in 1..index.cursor}
        absent == passed \ index.texts
        before == IF index.cursor = 0 THEN {} ELSE index.texts \ {Docs[index.cursor]}
    IN  /\ index.texts \subseteq passed
        /\ Cardinality(absent) = index.failures + IF index.walk = "fetching" THEN 1 ELSE 0
        /\ index.cursor > 0 => ~AtBound(before)
        /\ index.bounded => AtBound(index.texts)

\* Once the walk is over no document is kept outside the bounds, whatever the
\* reader opens (kb-search.js seed).
NothingBeyond == index.done => index.seeds = {}

\* Once the walk is over, the note and the open results are those of the whole
\* index and of the query in the box (kb.js onProgress, runQuery).
TellsAll == index.done =>
    /\ search.note = State(index)
    /\ search.open /\ ~search.typing => search.hits = index.texts /\ search.of = search.value

\* The search answers for the base, whatever the reader does and however
\* documents fail while the walk goes on.
IndexFaithful == IndexInOrder /\ NothingBeyond /\ TellsAll

\* A base that was listed is indexed to the end or to the bound, although
\* documents fail (kb-search.js step).
WalkEnds == listed = "yes" ~> index.done
=============================================================================
