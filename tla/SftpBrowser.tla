---------------------------- MODULE SftpBrowser -----------------------------
(***************************************************************************)
(* The SFTP tab: components/sftp/SftpBrowser.tsx with its local and remote  *)
(* pane, the session of ssh/sftp.rs behind it and the file commands of both *)
(* sides.                                                                   *)
(*                                                                          *)
(* Directories are Paths, one as good as another; sizes, dates and order    *)
(* are left out.  Nobody else changes the disks.  A handler refreshes the   *)
(* path that was shown when it was clicked, whatever is shown by then.  The *)
(* buttons of a pane work from the start, when its path is still "": None.  *)
(***************************************************************************)
EXTENDS Naturals, FiniteSets

CONSTANTS
    Paths, Names,
    Home,       \* the directory both sides open in
    Root,       \* "/"
    MaxClicks,  \* bound: what the user does altogether
    None

ASSUME SftpAssumption == MaxClicks \in Nat /\ {Home, Root} \subseteq Paths /\ None \notin Paths

VARIABLES
    disk,       \* side -> [Paths \X Names -> Kinds]
    session,    \* of the backend's table
    effect,     \* the connect effect: where it waits, and its two calls
    sftpIdRef,  \* is it set?
    status, disposed,
    pane,       \* side -> what a FilePane shows
    lists,      \* side -> list calls under way
    edit,       \* the mkdir, rename or delete under way
    transfer,   \* the upload or download under way
    stray,      \* history: side -> was the listing last asked for another path,
                \* or not at all, or did a failed transfer change it?
    clicks

browser == <<session, effect, sftpIdRef, status>>
vars == <<disk, browser, disposed, pane, lists, edit, transfer, stray, clicks>>

Sides == {"local", "remote"}
Kinds == {"none", "dir", "file"}
Entry(p, n, isDir) == [dir |-> p, name |-> n, isDir |-> isDir]
\* joinPath of the path "" gives "/name"; the SFTP library joins the same way.
Joined(p) == IF p = None THEN Root ELSE p
\* The server lists its working directory for "".
Listed(p) == IF p = None THEN Home ELSE p
Entries(side, p) ==
    LET kind(n) == disk[side][<<Listed(p), n>>]
    IN  {Entry(Joined(p), n, kind(n) = "dir") : n \in {m \in Names : kind(m) # "none"}}
NoEdit == [kind |-> "none"]
NoTransfer == [to |-> "none"]

NoPane == [path |-> None, entries |-> {}, loading |-> FALSE, error |-> FALSE, req |-> 0]

\* Anything may be on the disks; here one file in the home of each.
Init ==
    /\ disk = [s \in Sides |-> [f \in Paths \X Names |->
                 IF f = <<Home, CHOOSE n \in Names : TRUE>> THEN "file" ELSE "none"]]
    /\ session = "none" /\ sftpIdRef = FALSE /\ status = "connecting" /\ disposed = FALSE
    /\ effect = [at |-> "both", connect |-> "called", home |-> "called"]
    /\ pane = [s \in Sides |-> NoPane]
    /\ lists = [s \in Sides |-> {}] /\ stray = [s \in Sides |-> FALSE]
    /\ edit = NoEdit /\ transfer = NoTransfer /\ clicks = 0

-----------------------------------------------------------------------------
(* Listing                                                                 *)

\* refreshLocal and refreshRemote, with the path that is shown from now on.
Refresh(side, p, shown) ==
    /\ pane' = [pane EXCEPT ![side] = [path |-> shown, entries |-> pane[side].entries, loading |-> TRUE,
                                       error |-> FALSE, req |-> pane[side].req + 1]]
    /\ lists' = [lists EXCEPT ![side] = @ \cup {[req |-> pane[side].req + 1, path |-> p, got |-> FALSE, entries |-> {}]}]
    /\ stray' = [stray EXCEPT ![side] = p # shown \/ p = None]

\* read_dir("") of the own machine fails.
ListReads(side, c) ==
    /\ ~c.got /\ (c.path = None => side = "remote")
    /\ lists' = [lists EXCEPT ![side] = (@ \ {c}) \cup {[c EXCEPT !.got = TRUE, !.entries = Entries(side, c.path)]}]
    /\ UNCHANGED <<disk, browser, disposed, pane, edit, transfer, stray, clicks>>

\* The answer counts if no later request was made; a version where all do.
AllCount(side, req) == TRUE
LatestCounts(side, req) == req = pane[side].req
\* Loading ends with either outcome; a version that forgets the failure.
EndsWell(ok) == ok
EndsAlways(ok) == TRUE

ListAnswers(side, c, ok) ==
    /\ ok = c.got
    /\ lists' = [lists EXCEPT ![side] = @ \ {c}]
    /\ LET q == pane[side]
       IN  pane' = IF ~LatestCounts(side, c.req) THEN pane
                   ELSE [pane EXCEPT ![side] = [path |-> q.path, entries |-> IF ok THEN c.entries ELSE q.entries, req |-> q.req,
                                                error |-> q.error \/ ~ok, loading |-> q.loading /\ ~EndsAlways(ok)]]
    /\ UNCHANGED <<disk, browser, disposed, edit, transfer, stray, clicks>>

-----------------------------------------------------------------------------
(* The connect effect                                                      *)

Shows(shown) == UNCHANGED <<pane, lists, stray>> /\ status' = IF disposed THEN status ELSE shown

\* The tab was closed before the session came; a version that returns only.
LeftOpen(e) == "open"
ClosedLate(e) == "closed"
\* The catch block closes the session it knows of, and forgets it.
Caught(e) ==
    /\ session' = IF e.connect = "ok" THEN "closed" ELSE session
    /\ sftpIdRef' = IF e.connect = "ok" THEN FALSE ELSE sftpIdRef
    /\ effect' = [e EXCEPT !.at = "done"]
    /\ Shows("error")

\* After one of sftpConnect and localHomeDir has answered.
AfterBoth(e) ==
    \/ /\ e.connect = "ok" /\ e.home = "ok" /\ disposed
       /\ session' = ClosedLate(e) /\ effect' = [e EXCEPT !.at = "done"]
       /\ UNCHANGED <<sftpIdRef, status, pane, lists, stray>>
    \/ /\ e.connect = "ok" /\ e.home = "ok" /\ ~disposed
       /\ sftpIdRef' = TRUE /\ effect' = [e EXCEPT !.at = "canonicalize"]
       /\ IF pane["local"].path = Home THEN UNCHANGED <<pane, lists, stray>>
          ELSE Refresh("local", Home, Home)
       /\ session' = "open" /\ UNCHANGED status
    \/ "fail" \in {e.connect, e.home} /\ Caught(e)
    \/ /\ "fail" \notin {e.connect, e.home} /\ "called" \in {e.connect, e.home}
       /\ effect' = e /\ session' = IF e.connect = "ok" THEN "open" ELSE session
       /\ UNCHANGED <<sftpIdRef, status, pane, lists, stray>>

ConnectAnswers(ok) ==
    /\ effect.connect = "called"
    /\ LET e == [effect EXCEPT !.connect = IF ok THEN "ok" ELSE "fail"]
       IN  IF effect.at = "both" THEN AfterBoth(e)
           ELSE /\ effect' = e /\ session' = IF ok THEN "open" ELSE session
                /\ UNCHANGED <<sftpIdRef, status, pane, lists, stray>>
    /\ UNCHANGED <<disk, disposed, edit, transfer, clicks>>

HomeAnswers(ok) ==
    /\ effect.home = "called"
    /\ LET e == [effect EXCEPT !.home = IF ok THEN "ok" ELSE "fail"]
       IN  IF effect.at = "both" THEN AfterBoth(e)
           ELSE effect' = e /\ UNCHANGED <<session, sftpIdRef, status, pane, lists, stray>>
    /\ UNCHANGED <<disk, disposed, edit, transfer, clicks>>

CanonicalizeAnswers(ok) ==
    /\ effect.at = "canonicalize"
    /\ IF ~ok THEN Caught(effect)
       ELSE /\ effect' = [effect EXCEPT !.at = "done"]
            /\ IF disposed THEN UNCHANGED <<status, pane, lists, stray>>
               ELSE status' = "connected" /\ Refresh("remote", Home, Home)
            /\ UNCHANGED <<session, sftpIdRef>>
    /\ UNCHANGED <<disk, disposed, edit, transfer, clicks>>

-----------------------------------------------------------------------------
(* The user                                                                *)

Reaches(side) == side = "remote" => sftpIdRef
\* A listing is on the screen; a version that shows it while it is loaded too.
Always(side) == ~pane[side].error
Visible(side) == ~pane[side].loading /\ ~pane[side].error

\* Up, or a double click on a directory.  The remote pane lists nothing before
\* the connection is up: only its path changes.
Navigate(side, p) ==
    /\ p # pane[side].path
    /\ pane[side].path = None /\ pane[side].entries = {} => p = Root
    /\ IF Reaches(side) /\ (side = "remote" => status = "connected") THEN Refresh(side, p, p)
       ELSE /\ pane' = [pane EXCEPT ![side].path = p]
            /\ stray' = [stray EXCEPT ![side] = TRUE] /\ UNCHANGED lists
    /\ UNCHANGED <<edit, transfer, disposed, session>>

RefreshClick(side) ==
    /\ Reaches(side)
    /\ Refresh(side, pane[side].path, pane[side].path)
    /\ UNCHANGED <<edit, transfer, disposed, session>>

\* A change of one side, from the disk's place `from` to `to`; `at` is the path
\* the pane showed.  Bound: one at a time.
StartEdit(kind, side, from, to) ==
    /\ edit = NoEdit /\ Reaches(side)
    /\ edit' = [kind |-> kind, side |-> side, from |-> from, to |-> to, at |-> pane[side].path,
                stray |-> stray[side]]
    /\ UNCHANGED <<pane, lists, stray, transfer, disposed, session>>

NewFolder(side, n) == StartEdit("mkdir", side, None, <<Joined(pane[side].path), n>>)
Rename(side, e, n) ==
    /\ Visible(side) /\ n # e.name
    /\ StartEdit("rename", side, <<e.dir, e.name>>, <<Joined(pane[side].path), n>>)
Delete(side, e) ==
    Visible(side) /\ StartEdit(IF e.isDir THEN "rmdir" ELSE "remove", side, <<e.dir, e.name>>, None)

\* Upload and Download, of the entry that is selected.
Transfer(side, e) ==
    LET other == IF side = "local" THEN "remote" ELSE "local"
    IN  /\ transfer = NoTransfer /\ sftpIdRef /\ ~e.isDir
        /\ transfer' = [to |-> other, place |-> <<Joined(pane[other].path), e.name>>,
                        source |-> <<e.dir, e.name>>, at |-> pane[other].path]
        /\ UNCHANGED <<pane, lists, stray, edit, disposed, session>>

\* What is under way goes on unseen.
CloseTab ==
    /\ disposed' = TRUE
    /\ session' = IF sftpIdRef THEN "closed" ELSE session
    /\ pane' = [s \in Sides |-> NoPane]
    /\ lists' = [s \in Sides |-> {}] /\ stray' = [s \in Sides |-> FALSE]
    /\ edit' = NoEdit /\ transfer' = NoTransfer

Click ==
    /\ ~disposed /\ clicks < MaxClicks /\ clicks' = clicks + 1
    /\ \/ \E side \in Sides :
            \/ \E p \in Paths : Navigate(side, p)
            \/ RefreshClick(side) \/ \E n \in Names : NewFolder(side, n)
            \/ \E e \in pane[side].entries :
                 Transfer(side, e) \/ Delete(side, e) \/ \E n \in Names : Rename(side, e, n)
       \/ CloseTab
    /\ UNCHANGED <<disk, effect, sftpIdRef, status>>

-----------------------------------------------------------------------------
(* The file commands and what their handlers do next                       *)

At(side, f) == disk[side][f]
Possible == CASE edit.kind = "mkdir" -> At(edit.side, edit.to) = "none"
              [] edit.kind = "rename" ->
                   /\ At(edit.side, edit.from) # "none"
                   /\ \/ At(edit.side, edit.to) = "none"
                      \/ edit.side = "local" /\ At("local", edit.from) = At("local", edit.to)
              [] edit.kind = "rmdir" -> At(edit.side, edit.from) = "dir"
              [] OTHER -> At(edit.side, edit.from) = "file"
Edited == [f \in Paths \X Names |->
             IF f = edit.to THEN IF edit.kind = "mkdir" THEN "dir" ELSE At(edit.side, edit.from)
             ELSE IF f = edit.from THEN "none" ELSE disk[edit.side][f]]

EditAnswers(ok) ==
    /\ edit # NoEdit
    /\ ok => Possible
    /\ disk' = IF ok THEN [disk EXCEPT ![edit.side] = Edited] ELSE disk
    /\ IF ok /\ Reaches(edit.side) THEN Refresh(edit.side, edit.at, pane[edit.side].path)
       ELSE pane' = [pane EXCEPT ![edit.side].error = @ \/ ~ok] /\ UNCHANGED <<lists, stray>>
    /\ edit' = NoEdit
    /\ UNCHANGED <<browser, disposed, transfer, clicks>>

\* The file is made, or cut to nothing, before its bytes are written: a failure
\* may leave it, and the pane is then not refreshed.
TransferAnswers(ok, left) ==
    LET to == transfer.to
    IN  /\ transfer # NoTransfer
        /\ ok => left /\ At(IF to = "local" THEN "remote" ELSE "local", transfer.source) = "file"
        /\ left => At(to, transfer.place) # "dir"
        /\ disk' = IF left THEN [disk EXCEPT ![to][transfer.place] = "file"] ELSE disk
        /\ IF ok /\ Reaches(to) THEN Refresh(to, transfer.at, pane[to].path)
           ELSE stray' = [stray EXCEPT ![to] = @ \/ left] /\ UNCHANGED <<pane, lists>>
        /\ transfer' = NoTransfer
        /\ UNCHANGED <<browser, disposed, edit, clicks>>

-----------------------------------------------------------------------------
Listing == \E side \in Sides : \E c \in lists[side] :
              ListReads(side, c) \/ \E ok \in BOOLEAN : ListAnswers(side, c, ok)
Answer ==
    \/ Listing
    \/ \E ok \in BOOLEAN :
         \/ ConnectAnswers(ok) \/ HomeAnswers(ok) \/ CanonicalizeAnswers(ok)
         \/ EditAnswers(ok) \/ \E left \in BOOLEAN : TransferAnswers(ok, left)
Next == Click \/ Answer

\* The backend answers its list calls.
Spec == Init /\ [][Next]_vars /\ WF_vars(Listing)

-----------------------------------------------------------------------------
(* Properties                                                              *)

TypeOK ==
    /\ disk \in [Sides -> [Paths \X Names -> Kinds]]
    /\ session \in {"none", "open", "closed"} /\ sftpIdRef \in BOOLEAN
    /\ status \in {"connecting", "connected", "error"} /\ disposed \in BOOLEAN
    /\ \A s \in Sides : pane[s].path \in Paths \cup {None} /\ pane[s].req \in Nat
    /\ stray \in [Sides -> BOOLEAN] /\ clicks \in 0..MaxClicks

\* A pane that is not loading shows the directory whose path it shows, as it is
\* on the disk, however navigation, refreshes and their answers overlap.  Not
\* so after an operation that finished when the user was elsewhere: its handler
\* refreshes the path it was clicked in; nor after a failed transfer; nor in a
\* remote pane whose Up button was used before the connection was up: it says
\* "/" and "Empty directory" until the connect effect ends, for good if it fails.
ListingTrue ==
    \A s \in Sides :
        ~disposed /\ pane[s].path # None /\ Reaches(s)
            /\ ~pane[s].loading /\ ~pane[s].error /\ ~stray[s]
        => pane[s].entries = Entries(s, pane[s].path)

\* A rename leaves the file in its directory: the target is put together from
\* the path the pane shows, the source from the listing.  Not claimed of a pane
\* that lists another directory than it shows, or the one of no path.
RenameInPlace ==
    [][edit.kind = "rename" /\ disk' # disk /\ edit' = NoEdit /\ ~edit.stray
       => edit.from[1] = edit.to[1]]_vars

\* A session of the backend is one that somebody will close, the open tab or the
\* effect that still waits, and what the open tab holds is a session the backend
\* has.  Not so when localHomeDir failed first: the catch block does not know the
\* session yet.
SessionReachable ==
    /\ TypeOK
    /\ session = "open" =>
         effect.at = "both" \/ (sftpIdRef /\ ~disposed) \/ effect.home = "fail"
    /\ sftpIdRef /\ ~disposed => session = "open"

\* A pane does not load for ever, also when a newer request overtook the call.
LoadingEnds == \A s \in Sides : []<>(~pane[s].loading)
=============================================================================
