------------------------------ MODULE TextSearch ------------------------------
(***************************************************************************)
(* The project search of the first version: the engine, whose scans run on  *)
(* the background pool (old/src/utils/text_search_async.cpp,                *)
(* text_search.cpp, text_search_part2.cpp), and the panel that shows its    *)
(* matches (old/src/components/search_panel*.cpp).                          *)
(*                                                                         *)
(* What a scan finds is abstracted to what it was asked and the state of    *)
(* the files it read: a record [query, root, tree].  The job's token is     *)
(* checked before the scan, during it and after it, but not again under the *)
(* mutex that protects the matches.                                        *)
(***************************************************************************)
EXTENDS Background

CONSTANTS Queries,    \* texts of the query field
          NoQuery,    \* the empty query
          NoMatches   \* an empty list of matches

VARIABLES
  matches,      \* TextSearch::matches
  searchRoot,   \* TextSearch::root_path
  searching,    \* TextSearch::searching
  searchVer,    \* TextSearch::ver
  searchToken,  \* TextSearch::job_token
  query,        \* SearchPanel::query
  searchSeen,   \* SearchPanel::seen_version
  searchShown   \* SearchPanel::cached

engineVars == <<matches, searchRoot, searching, searchVer, searchToken>>
panelVars == <<query, searchSeen, searchShown>>
searchVars == <<engineVars, panelVars>>

SearchInit(root) ==
  /\ matches = NoMatches /\ searchRoot = root /\ searching = FALSE
  /\ searchVer = 0 /\ searchToken = 0
  /\ query = NoQuery /\ searchSeen = 0 /\ searchShown = NoMatches

\* scan(): the matches of a query under a root, in the state of the files it reads.
Matches(q, root, tree) == [query |-> q, root |-> root, tree |-> tree]

SearchJob(q, t) == [svc |-> "search", query |-> q, root |-> searchRoot, token |-> t]
SearchIsCurrent(w) == worker[w].job.token = searchToken

\* run_search() of the query q: the old matches go at once, and an empty query
\* posts nothing and leaves the token of the search before it in place.
RunSearch(q) ==
  /\ query' = q
  /\ matches' = NoMatches /\ searchVer' = searchVer + 1 /\ searchSeen' = 0
  /\ \/ /\ q = NoQuery
        /\ searching' = FALSE
        /\ UNCHANGED <<searchToken, poolVars>>
     \/ /\ q # NoQuery
        /\ searchToken' = token /\ token' = token + 1
        /\ searching' = TRUE
        /\ Post(<<SearchJob(q, token)>>)
  /\ UNCHANGED <<searchRoot, searchShown>>

\* The search reads the files, unless a newer search has taken the token.
SearchScan(w, tree) ==
  /\ worker[w].pc = "taken" /\ worker[w].job.svc = "search"
  /\ IF SearchIsCurrent(w)
     THEN Scanned(w, Matches(worker[w].job.query, worker[w].job.root, tree))
     ELSE Return(w)
  /\ UNCHANGED <<queueVars, wakeVars, searchVars>>

SearchRecheck(w) ==
  /\ worker[w].pc = "scanned" /\ worker[w].job.svc = "search"
  /\ IF SearchIsCurrent(w) THEN Goto(w, "checked") ELSE Return(w)
  /\ UNCHANGED <<queueVars, wakeVars, searchVars>>

SearchPublish(w) ==
  /\ worker[w].pc = "checked" /\ worker[w].job.svc = "search"
  /\ matches' = worker[w].got
  /\ Goto(w, "published")
  /\ UNCHANGED <<queueVars, wakeVars, searchRoot, searching, searchVer, searchToken, panelVars>>

SearchSettle(w) ==
  /\ worker[w].pc = "published" /\ worker[w].job.svc = "search"
  /\ searching' = FALSE /\ searchVer' = searchVer + 1
  /\ Return(w)
  /\ UNCHANGED <<queueVars, wakeVars, matches, searchRoot, searchToken, panelVars>>

SearchStep(w, tree) ==
  SearchScan(w, tree) \/ SearchRecheck(w) \/ SearchPublish(w) \/ SearchSettle(w)

\* sync_results(): the panel copies the matches when the version has moved.
SyncResults ==
  /\ searchSeen' = searchVer
  /\ searchShown' = IF searchSeen # searchVer THEN matches ELSE searchShown
  /\ UNCHANGED <<engineVars, query>>

===============================================================================
