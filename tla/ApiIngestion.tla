---------------------------- MODULE ApiIngestion ----------------------------
(* run_api_pipeline: pages of an external API are fetched one by one until a *)
(* short page or the page limit, with two more attempts for failures that    *)
(* may pass; the records are written raw and transformed.  The API may gain  *)
(* or lose posts between two pages.                                          *)
EXTENDS Jobs

CONSTANTS
  Served,      \* what the API holds at first: a sequence of [id, kind]
  Newcomers,   \* posts that may come in at the front
  PageSize, MaxPages,
  MaxChanges   \* bound: changes of the API

Post == [id : Nat, kind : {"good", "null", "named", "lacks", "number", "nothing"}]

ASSUME ApiAssumption ==
  /\ Served \in Seq(Post) /\ Newcomers \subseteq Post
  /\ {PageSize, MaxPages} \subseteq Nat \ {0}

VARIABLES
  posts,       \* what the API holds
  page,        \* pages fetched by the run
  tries,       \* failed attempts for the next page
  got,         \* records fetched
  changed      \* the API changed during the run
\* kinds of posts: "good", "null" (a title that is null), "named" (an id that
\* is not a number), "lacks" (a field is missing), "number" (no object but a
\* number) and "nothing" (no object but a null)

apiVars == <<posts, page, tries, got, changed>>
Changes ==
  {<<p>> \o posts : p \in Newcomers} \cup (IF posts = <<>> THEN {} ELSE {Tail(posts)})

\* transform_posts: Python reads a null as empty text and demands numeric ids,
\* and looks for the fields of a number, which raises.
Kept(lg, kind) == kind = "good" \/ kind = (IF lg = "py" THEN "null" ELSE "named")
Raising(lg, ps) ==
  \E i \in DOMAIN ps : ps[i].kind \in (IF lg = "py" THEN {"number", "nothing"} ELSE {"nothing"})
Transformed(lg, ps) == SelectSeq(ps, LAMBDA p : Kept(lg, p.kind))

\* fetch_page: what is tried again
Transient(lg, failure) == failure = "network" \/ (lg = "js" /\ failure = "server")

Paged(ps) == SubSeq(ps, page * PageSize + 1,
                    IF Len(ps) < (page + 1) * PageSize THEN Len(ps) ELSE (page + 1) * PageSize)

Files(ps) ==
  << [file |-> <<"raw", clock>>, rows |-> ps],
     [file |-> <<"processed", clock>>, rows |-> Transformed(lang, ps)] >>

-----------------------------------------------------------------------------
ApiInit == posts = Served /\ page = 0 /\ tries = 0 /\ got = <<>> /\ changed = 0

RunApi ==
  /\ Start("api")
  /\ page' = 0 /\ tries' = 0 /\ got' = <<>> /\ changed' = 0
  /\ pc' = "fetch" /\ todo' = <<>> /\ verdict' = Unknown
  /\ UNCHANGED <<job, lang, disk, manifests, faults, posts>>

LastPage(p) == Len(p) < PageSize \/ page + 1 = MaxPages

FetchPage ==
  /\ pc = "fetch"
  /\ got' = got \o Paged(posts)
  /\ page' = page + 1 /\ tries' = 0
  /\ \/ /\ ~LastPage(Paged(posts))
        /\ UNCHANGED <<pc, todo, verdict>>
     \/ /\ LastPage(Paged(posts)) /\ ~Raising(lang, got')
        /\ pc' = "write" /\ todo' = Files(got')
        /\ verdict' = Verdict("success", Len(Transformed(lang, got')))
  /\ UNCHANGED <<job, lang, run, clock, disk, manifests, faults, posts, changed>>

\* The transformation raises to the caller, in Python behind the raw file.
RawOnly(whole) ==
  Under(disk, <<"raw", clock>>, [run |-> run, rows |-> got', whole |-> whole])

TransformRaises ==
  /\ pc = "fetch" /\ LastPage(Paged(posts))
  /\ got' = got \o Paged(posts)
  /\ Raising(lang, got')
  /\ page' = page + 1 /\ tries' = 0
  /\ \/ lang = "py" /\ disk' = RawOnly(TRUE) /\ UNCHANGED faults
     \/ lang = "py" /\ disk' \in {disk, RawOnly(FALSE)} /\ Fault
     \/ lang = "js" /\ UNCHANGED <<disk, faults>>
  /\ EndWith(Unknown)
  /\ UNCHANGED <<job, lang, run, clock, manifests, posts, changed>>

FetchAgain ==
  /\ pc = "fetch" /\ Fault
  /\ tries < 2
  /\ tries' = tries + 1
  /\ UNCHANGED <<job, lang, run, clock, pc, todo, verdict, disk, manifests, posts, page, got, changed>>

\* What was fetched so far is dropped.  Python returns its errors and leaves
\* neither files nor manifest; JavaScript goes on without records.
FetchFails ==
  /\ pc = "fetch" /\ Fault
  /\ \E failure \in {"network", "server", "malformed"} : tries = 2 \/ ~Transient(lang, failure)
  /\ \/ lang = "py" /\ EndWith(Verdict("failed", 0))
     \/ lang = "js" /\ pc' = "write" /\ todo' = Files(<<>>) /\ verdict' = Verdict("failed", 0)
  /\ got' = <<>> /\ page' = 0
  /\ UNCHANGED <<job, lang, run, clock, disk, manifests, posts, tries, changed>>

ApiChanges ==
  /\ pc = "fetch" /\ page > 0 /\ changed < MaxChanges
  /\ posts' \in Changes
  /\ changed' = changed + 1
  /\ UNCHANGED <<jobVars, page, tries, got>>

ApiNext == RunApi \/ FetchPage \/ TransformRaises \/ FetchAgain \/ FetchFails \/ ApiChanges
=============================================================================
