------------------------- MODULE SftpBrowserProofs --------------------------
(***************************************************************************)
(* What a pane of the SFTP tab shows, where a rename leaves its file and    *)
(* who closes the backend's session, for any directories, names and number  *)
(* of clicks.                                                               *)
(***************************************************************************)
EXTENDS SftpBrowser, TLAPS

Places == Paths \X Names
AnyEntry == [dir : Paths, name : Names, isDir : BOOLEAN]
Pane == [path : Paths \cup {None}, entries : SUBSET AnyEntry, loading : BOOLEAN,
         error : BOOLEAN, req : Nat]
Call == [req : Nat, path : Paths \cup {None}, got : BOOLEAN, entries : SUBSET AnyEntry]
Edit == [kind : {"mkdir", "rename", "rmdir", "remove"}, side : Sides,
         from : Places \cup {None}, to : Places \cup {None}, at : Paths \cup {None},
         stray : BOOLEAN]
Effect == [at : {"both", "canonicalize", "done"}, connect : {"called", "ok", "fail"},
           home : {"called", "ok", "fail"}]
File == [to : Sides, place : Places, source : Places, at : Paths \cup {None}]

\* TypeOK, and the types of what waits for an answer.
TypeInv ==
    /\ TypeOK
    /\ effect \in Effect
    /\ pane \in [Sides -> Pane] /\ lists \in [Sides -> SUBSET Call]
    /\ edit \in Edit \cup {NoEdit}
    /\ edit.kind \in {"rename", "rmdir", "remove"} => edit.from \in Places
    /\ transfer \in File \cup {NoTransfer}

\* Before the session is there the remote pane lists nothing, whatever path it
\* was moved to.
RemoteLater ==
    effect.at = "both" => ~sftpIdRef /\ (pane["remote"].path = None \/ stray["remote"])

\* The pane claims to show a directory.
Usable(s) == pane[s].path # None /\ Reaches(s)

\* The call whose answer will count lists the path the pane shows, and what it
\* has read is still true: whatever changed the disk since made a later request.
CallTrue(s, c) ==
    /\ c.req <= pane[s].req
    /\ Usable(s) /\ ~stray[s] /\ c.req = pane[s].req =>
         /\ c.path = pane[s].path
         /\ c.got => c.entries = Entries(s, c.path)

Shown(s) ==
    Usable(s) /\ ~pane[s].loading /\ ~pane[s].error /\ ~stray[s] =>
        pane[s].entries = Entries(s, pane[s].path)

\* A pane without a path lists nothing, if it was not refreshed all the same.
Blank(s) == pane[s].path = None /\ ~stray[s] => lists[s] = {} /\ pane[s].entries = {}

SideInv(s) == Shown(s) /\ Blank(s) /\ \A c \in lists[s] : CallTrue(s, c)

ListInv == RemoteLater /\ \A s \in Sides : SideInv(s)

\* The source of a rename was listed where its target is put.
RenameInv == edit.kind = "rename" /\ ~edit.stray => edit.from[1] = edit.to[1]

\* The effect has not handed the session over before its two calls are answered,
\* and stops waiting for sftpConnect only when localHomeDir has failed.
SessionInv ==
    /\ effect.at = "both" => ~sftpIdRef /\ "fail" \notin {effect.connect, effect.home}
    /\ effect.at = "both" => session = IF effect.connect = "ok" THEN "open" ELSE "none"
    /\ effect.at = "canonicalize" =>
         sftpIdRef /\ effect.connect = "ok" /\ effect.home = "ok"
    /\ effect.at = "done" /\ effect.connect = "called" => effect.home = "fail" /\ ~sftpIdRef
    /\ session = "open" =>
         effect.at = "both" \/ (sftpIdRef /\ ~disposed) \/ effect.home = "fail"
    /\ sftpIdRef /\ ~disposed => session = "open"

-----------------------------------------------------------------------------
(* Types                                                                   *)

\* The directory both sides open in is one.
LEMMA HomeType == Home \in Paths
BY SftpAssumption

\* A path is joined to a directory, and lists one.
LEMMA JoinedType ==
  ASSUME NEW p \in Paths \cup {None}
  PROVE  Joined(p) \in Paths /\ Listed(p) \in Paths
BY SftpAssumption DEF Joined, Listed

\* A listing is made of entries.
LEMMA EntriesType ==
  ASSUME TypeInv, NEW s \in Sides, NEW p \in Paths \cup {None}
  PROVE  Entries(s, p) \subseteq AnyEntry
<1> SUFFICES ASSUME NEW e \in Entries(s, p) PROVE e \in AnyEntry
  OBVIOUS
<1>1. PICK n \in Names : e = Entry(Joined(p), n, disk[s][<<Listed(p), n>>] = "dir")
  BY DEF Entries
<1> QED
  BY <1>1, JoinedType DEF Entry, AnyEntry

\* A refresh keeps the types of a pane and of the calls under way.
LEMMA RefreshType ==
  ASSUME TypeInv, NEW side \in Sides, NEW p \in Paths \cup {None},
         NEW shown \in Paths \cup {None}, Refresh(side, p, shown)
  PROVE  /\ pane' \in [Sides -> Pane] /\ lists' \in [Sides -> SUBSET Call]
         /\ stray' \in [Sides -> BOOLEAN]
<1>1. [path |-> shown, entries |-> pane[side].entries, loading |-> TRUE, error |-> FALSE,
       req |-> pane[side].req + 1] \in Pane
  BY DEF TypeInv, Pane
<1>2. [req |-> pane[side].req + 1, path |-> p, got |-> FALSE, entries |-> {}] \in Call
  BY DEF TypeInv, Pane, Call
<1>3. pane' \in [Sides -> Pane]
  BY <1>1 DEF Refresh, TypeInv
<1>4. lists' \in [Sides -> SUBSET Call]
  BY <1>2 DEF Refresh, TypeInv
<1>5. stray' \in [Sides -> BOOLEAN]
  BY DEF Refresh, TypeInv, TypeOK
<1> QED
  BY <1>3, <1>4, <1>5

\* What TypeOK says of the panes follows from their type.
PathsKnown(f) ==
    \A s \in Sides : f[s].path \in Paths \cup {None} /\ f[s].req \in Nat

LEMMA PaneType ==
  ASSUME NEW f \in [Sides -> Pane]
  PROVE  PathsKnown(f)
BY DEF Pane, PathsKnown

\* Nothing is there before the effect runs.
LEMMA TypeInvInit == Init => TypeInv
<1> SUFFICES ASSUME Init PROVE TypeInv
  OBVIOUS
<1> USE SftpAssumption
<1>1. pane \in [Sides -> Pane]
  BY DEF Init, NoPane, Pane
<1>2. disk \in [Sides -> [Paths \X Names -> Kinds]]
  BY DEF Init, Kinds
<1>3. edit = NoEdit /\ edit.kind = "none"
  BY DEF Init, NoEdit
<1>4. lists \in [Sides -> SUBSET Call] /\ stray \in [Sides -> BOOLEAN]
  BY DEF Init
<1>5. PathsKnown(pane)
  BY <1>1, PaneType
<1>6. clicks \in 0..MaxClicks
  BY DEF Init
<1>7. TypeOK
  BY <1>2, <1>4, <1>5, <1>6, Zenon DEF Init, TypeOK, PathsKnown
<1> QED
  BY <1>1, <1>3, <1>4, <1>7 DEF Init, TypeInv, Effect

-----------------------------------------------------------------------------
(* Each step keeps the types                                               *)

\* The answers of a listing.
LEMMA ListingType ==
  ASSUME TypeInv, NEW s \in Sides, NEW c \in lists[s],
         ListReads(s, c) \/ \E ok \in BOOLEAN : ListAnswers(s, c, ok)
  PROVE  TypeInv'
<1>1. c \in Call
  BY DEF TypeInv
<1>2. CASE ListReads(s, c)
  <2>1. Entries(s, c.path) \subseteq AnyEntry
    BY <1>1, EntriesType DEF Call
  <2>2. [c EXCEPT !.got = TRUE, !.entries = Entries(s, c.path)] \in Call
    BY <1>1, <2>1 DEF Call
  <2>3. lists' \in [Sides -> SUBSET Call]
    BY <1>2, <2>2 DEF ListReads, TypeInv
  <2> QED
    BY <1>2, <2>3 DEF ListReads, TypeInv, TypeOK, browser
<1>3. ASSUME NEW ok \in BOOLEAN, ListAnswers(s, c, ok) PROVE TypeInv'
  <2>1. lists' \in [Sides -> SUBSET Call]
    BY <1>3 DEF ListAnswers, TypeInv
  <2> DEFINE q == pane[s]
             r == [path |-> q.path, entries |-> IF ok THEN c.entries ELSE q.entries,
                   req |-> q.req, error |-> q.error \/ ~ok,
                   loading |-> q.loading /\ ~EndsAlways(ok)]
  <2>2. r \in Pane
    BY <1>1 DEF TypeInv, Pane, Call
  <2>3. pane' \in [Sides -> Pane]
    BY <1>3, <2>2 DEF ListAnswers, TypeInv
  <2>4. PathsKnown(pane')
    BY <2>3, PaneType
  <2>5. UNCHANGED <<disk, browser, disposed, edit, transfer, stray, clicks>>
    BY <1>3 DEF ListAnswers
  <2> QED
    BY <2>1, <2>3, <2>4, <2>5 DEF TypeInv, TypeOK, PathsKnown, browser
<1> QED
  BY <1>2, <1>3

\* A step that leaves the panes alone or refreshes one.
PanesStep == \/ UNCHANGED <<pane, lists, stray>>
             \/ \E side \in Sides, p, shown \in Paths \cup {None} : Refresh(side, p, shown)

LEMMA PanesType ==
  ASSUME TypeInv, PanesStep
  PROVE  /\ pane' \in [Sides -> Pane] /\ PathsKnown(pane')
         /\ lists' \in [Sides -> SUBSET Call] /\ stray' \in [Sides -> BOOLEAN]
<1>1. /\ pane' \in [Sides -> Pane] /\ lists' \in [Sides -> SUBSET Call]
      /\ stray' \in [Sides -> BOOLEAN]
  BY RefreshType DEF PanesStep, TypeInv, TypeOK
<1> QED
  BY <1>1, PaneType

\* The connect effect, its calls and what they make of the session.
EffectStep ==
    /\ effect' \in Effect /\ session' \in {"none", "open", "closed"}
    /\ sftpIdRef' \in BOOLEAN /\ status' \in {"connecting", "connected", "error"}
    /\ PanesStep

\* The catch block.
LEMMA CaughtType ==
  ASSUME TypeInv, NEW e \in Effect, Caught(e)
  PROVE  EffectStep
<1>1. effect' \in Effect /\ PanesStep
  BY DEF Caught, Effect, Shows, PanesStep
<1>2. session' \in {"none", "open", "closed"} /\ status' \in {"connecting", "connected", "error"}
  BY DEF Caught, Shows, TypeInv, TypeOK
<1>3. sftpIdRef' \in BOOLEAN
  BY DEF Caught, TypeInv, TypeOK
<1> QED
  BY <1>1, <1>2, <1>3 DEF EffectStep

\* The answers of sftpConnect and localHomeDir.
LEMMA AfterBothType ==
  ASSUME TypeInv, NEW e \in Effect, AfterBoth(e)
  PROVE  EffectStep
<1>1. CASE "fail" \in {e.connect, e.home} /\ Caught(e)
  BY <1>1, CaughtType
<1>2. CASE ~ Caught(e)
  <2>1. effect' \in Effect
    BY <1>2 DEF AfterBoth, Effect
  <2>2. PanesStep
    BY <1>2, HomeType DEF AfterBoth, PanesStep, Sides
  <2>3. session' \in {"none", "open", "closed"} /\ status' \in {"connecting", "connected", "error"}
    BY <1>2 DEF AfterBoth, ClosedLate, TypeInv, TypeOK
  <2>4. sftpIdRef' \in BOOLEAN
    BY <1>2 DEF AfterBoth, TypeInv, TypeOK
  <2> QED
    BY <2>1, <2>2, <2>3, <2>4 DEF EffectStep
<1> QED
  BY <1>1, <1>2, CaughtType

LEMMA EffectType ==
  ASSUME TypeInv, NEW ok \in BOOLEAN,
         ConnectAnswers(ok) \/ HomeAnswers(ok) \/ CanonicalizeAnswers(ok)
  PROVE  TypeInv'
<1>1. UNCHANGED <<disk, disposed, edit, transfer, clicks>>
  BY DEF ConnectAnswers, HomeAnswers, CanonicalizeAnswers
<1>2. ASSUME ConnectAnswers(ok) PROVE EffectStep
  <2> DEFINE e == [effect EXCEPT !.connect = IF ok THEN "ok" ELSE "fail"]
  <2>1. e \in Effect
    BY DEF TypeInv, Effect
  <2>2. CASE effect.at = "both"
    BY <1>2, <2>1, <2>2, AfterBothType DEF ConnectAnswers
  <2>3. CASE effect.at # "both"
    <3>1. effect' = e /\ session' \in {session, "open"}
          /\ UNCHANGED <<sftpIdRef, status, pane, lists, stray>>
      BY <1>2, <2>3 DEF ConnectAnswers
    <3> QED
      BY <2>1, <3>1 DEF EffectStep, PanesStep, TypeInv, TypeOK
  <2> QED
    BY <2>2, <2>3
<1>3. ASSUME HomeAnswers(ok) PROVE EffectStep
  <2> DEFINE e == [effect EXCEPT !.home = IF ok THEN "ok" ELSE "fail"]
  <2>1. e \in Effect
    BY DEF TypeInv, Effect
  <2>2. CASE effect.at = "both"
    BY <1>3, <2>1, <2>2, AfterBothType DEF HomeAnswers
  <2>3. CASE effect.at # "both"
    BY <1>3, <2>1, <2>3 DEF HomeAnswers, EffectStep, PanesStep, TypeInv, TypeOK
  <2> QED
    BY <2>2, <2>3
<1>4. ASSUME CanonicalizeAnswers(ok) PROVE EffectStep
  <2>1. effect \in Effect
    BY DEF TypeInv
  <2>2. CASE ~ok
    BY <1>4, <2>1, <2>2, CaughtType DEF CanonicalizeAnswers
  <2>3. CASE ok
    <3>1. effect' \in Effect
      BY <1>4, <2>1, <2>3 DEF CanonicalizeAnswers, Effect
    <3>2. PanesStep
      BY <1>4, <2>3, HomeType DEF CanonicalizeAnswers, PanesStep, Sides
    <3>3. status' \in {"connecting", "connected", "error"} /\ UNCHANGED <<session, sftpIdRef>>
      BY <1>4, <2>3 DEF CanonicalizeAnswers, TypeInv, TypeOK
    <3> QED
      BY <3>1, <3>2, <3>3 DEF EffectStep, TypeInv, TypeOK
  <2> QED
    BY <2>2, <2>3
<1>5. EffectStep
  BY <1>2, <1>3, <1>4
<1>6. /\ pane' \in [Sides -> Pane] /\ PathsKnown(pane')
      /\ lists' \in [Sides -> SUBSET Call] /\ stray' \in [Sides -> BOOLEAN]
  BY <1>5, PanesType DEF EffectStep
<1> QED
  BY <1>1, <1>5, <1>6 DEF EffectStep, TypeInv, TypeOK, PathsKnown

\* A pane shows a directory or none.
LEMMA ShownPath ==
  ASSUME TypeInv, NEW s \in Sides
  PROVE  pane[s].path \in Paths \cup {None} /\ Joined(pane[s].path) \in Paths
BY JoinedType DEF TypeInv, TypeOK

LEMMA EntryPlace ==
  ASSUME TypeInv, NEW s \in Sides, NEW e \in pane[s].entries
  PROVE  <<e.dir, e.name>> \in Places
<1>1. e \in AnyEntry
  BY DEF TypeInv, Pane
<1> QED
  BY <1>1 DEF AnyEntry, Places

\* mkdir, rename and delete keep the place they were clicked for.
LEMMA StartEditType ==
  ASSUME TypeInv, NEW kind \in {"mkdir", "rename", "rmdir", "remove"}, NEW side \in Sides,
         NEW from \in Places \cup {None}, NEW to \in Places \cup {None},
         kind # "mkdir" => from \in Places, StartEdit(kind, side, from, to)
  PROVE  edit' \in Edit /\ (edit'.kind # "mkdir" => edit'.from \in Places)
<1>1. pane[side].path \in Paths \cup {None}
  BY ShownPath
<1>2. stray[side] \in BOOLEAN
  BY DEF TypeInv, TypeOK
<1> QED
  BY <1>1, <1>2 DEF StartEdit, Edit

\* What a click makes of everything but the panes.
ClickStep ==
    /\ edit' \in Edit \cup {NoEdit} /\ transfer' \in File \cup {NoTransfer}
    /\ edit'.kind \in {"rename", "rmdir", "remove"} => edit'.from \in Places
    /\ disposed' \in BOOLEAN /\ session' \in {"none", "open", "closed"}

LEMMA CloseTabType ==
  ASSUME TypeInv, CloseTab
  PROVE  /\ ClickStep
         /\ pane' \in [Sides -> Pane] /\ PathsKnown(pane')
         /\ lists' \in [Sides -> SUBSET Call] /\ stray' \in [Sides -> BOOLEAN]
<1>1. NoPane \in Pane
  BY DEF NoPane, Pane
<1>2. pane' \in [Sides -> Pane]
  BY <1>1 DEF CloseTab
<1>3. lists' \in [Sides -> SUBSET Call] /\ stray' \in [Sides -> BOOLEAN]
  BY DEF CloseTab
<1>4. ClickStep
  <2>1. edit' = NoEdit /\ edit'.kind = "none"
    BY DEF CloseTab, NoEdit
  <2> QED
    BY <2>1 DEF CloseTab, ClickStep, TypeInv, TypeOK
<1> QED
  BY <1>2, <1>3, <1>4, PaneType

LEMMA ClickType ==
  ASSUME TypeInv, Click
  PROVE  TypeInv'
<1> DEFINE Done == /\ ClickStep
                   /\ pane' \in [Sides -> Pane] /\ PathsKnown(pane')
                   /\ lists' \in [Sides -> SUBSET Call] /\ stray' \in [Sides -> BOOLEAN]
<1>0. ASSUME ClickStep, PanesStep PROVE Done
  BY <1>0, PanesType
<1>1. ASSUME NEW side \in Sides,
             (\E p \in Paths : Navigate(side, p)) \/ RefreshClick(side)
      PROVE  Done
  <2>2. UNCHANGED <<edit, transfer, disposed, session>>
    BY <1>1 DEF Navigate, RefreshClick
  <2>3. ClickStep
    BY <2>2 DEF ClickStep, TypeInv, TypeOK
  <2>4. CASE PanesStep
    BY <1>0, <2>3, <2>4
  <2>5. ASSUME NEW p \in Paths, pane' = [pane EXCEPT ![side].path = p],
               stray' = [stray EXCEPT ![side] = TRUE], UNCHANGED lists
        PROVE  Done
    <3>1. pane' \in [Sides -> Pane]
      BY <2>5 DEF TypeInv, Pane
    <3>2. lists' \in [Sides -> SUBSET Call] /\ stray' \in [Sides -> BOOLEAN]
      BY <2>5 DEF TypeInv, TypeOK
    <3> QED
      BY <2>3, <3>1, <3>2, PaneType
  <2> QED
    BY <1>1, <2>4, <2>5, ShownPath DEF Navigate, RefreshClick, PanesStep
<1>2. ASSUME NEW kind \in {"mkdir", "rename", "rmdir", "remove"}, NEW side \in Sides,
             NEW from \in Places \cup {None}, NEW to \in Places \cup {None},
             kind # "mkdir" => from \in Places, StartEdit(kind, side, from, to)
      PROVE  Done
  <2>1. edit' \in Edit /\ (edit'.kind # "mkdir" => edit'.from \in Places)
    BY <1>2, StartEditType
  <2>2. UNCHANGED <<pane, lists, stray, transfer, disposed, session>>
    BY <1>2 DEF StartEdit
  <2> QED
    BY <1>0, <2>1, <2>2 DEF ClickStep, PanesStep, TypeInv, TypeOK
<1>3. ASSUME NEW side \in Sides, NEW n \in Names, NewFolder(side, n) PROVE Done
  <2>1. <<Joined(pane[side].path), n>> \in Places
    BY <1>3, ShownPath DEF Places
  <2> QED
    BY <1>2, <1>3, <2>1 DEF NewFolder
<1>4. ASSUME NEW side \in Sides, NEW e \in pane[side].entries, NEW n \in Names,
             Rename(side, e, n)
      PROVE  Done
  <2>1. <<Joined(pane[side].path), n>> \in Places
    BY <1>4, ShownPath DEF Places
  <2> QED
    BY <1>2, <1>4, <2>1, EntryPlace DEF Rename
<1>5. ASSUME NEW side \in Sides, NEW e \in pane[side].entries, Delete(side, e) PROVE Done
  BY <1>2, <1>5, EntryPlace DEF Delete
<1>6. ASSUME NEW side \in Sides, NEW e \in pane[side].entries, Transfer(side, e) PROVE Done
  <2> DEFINE other == IF side = "local" THEN "remote" ELSE "local"
  <2>1. other \in Sides
    BY DEF Sides
  <2>2. pane[other].path \in Paths \cup {None} /\ Joined(pane[other].path) \in Paths
    BY <2>1, ShownPath
  <2>3. e.name \in Names /\ <<e.dir, e.name>> \in Places
    BY <1>6, EntryPlace DEF Places
  <2>4. transfer' \in File
    BY <1>6, <2>1, <2>2, <2>3 DEF Transfer, File, Places
  <2>5. UNCHANGED <<pane, lists, stray, edit, disposed, session>>
    BY <1>6 DEF Transfer
  <2> QED
    BY <1>0, <2>4, <2>5 DEF ClickStep, PanesStep, TypeInv, TypeOK
<1>7. Done
  BY <1>1, <1>3, <1>4, <1>5, <1>6, CloseTabType DEF Click
<1>8. clicks' \in 0..MaxClicks /\ UNCHANGED <<disk, effect, sftpIdRef, status>>
  BY SftpAssumption DEF Click, TypeInv, TypeOK
<1> QED
  BY <1>7, <1>8 DEF ClickStep, TypeInv, TypeOK, PathsKnown

\* The answers of the file commands.
LEMMA EditType ==
  ASSUME TypeInv, NEW ok \in BOOLEAN, EditAnswers(ok)
  PROVE  TypeInv'
<1>1. edit \in Edit /\ edit.side \in Sides /\ edit.at \in Paths \cup {None}
  BY DEF EditAnswers, TypeInv, Edit
<1>2. Edited \in [Paths \X Names -> Kinds]
  <2> SUFFICES ASSUME NEW f \in Paths \X Names
               PROVE  Edited[f] \in Kinds
    BY DEF Edited
  <2>1. disk[edit.side] \in [Paths \X Names -> Kinds]
    BY <1>1 DEF TypeInv, TypeOK
  <2>2. edit.kind # "mkdir" => edit.from \in Paths \X Names
    BY <1>1 DEF TypeInv, Edit, Places
  <2> QED
    BY <2>1, <2>2 DEF Edited, At, Kinds
<1>3. disk' \in [Sides -> [Paths \X Names -> Kinds]]
  BY <1>1, <1>2 DEF EditAnswers, TypeInv, TypeOK
<1>4. /\ pane' \in [Sides -> Pane] /\ PathsKnown(pane')
      /\ lists' \in [Sides -> SUBSET Call] /\ stray' \in [Sides -> BOOLEAN]
  <2>1. CASE ok /\ Reaches(edit.side)
    <3>1. pane[edit.side].path \in Paths \cup {None}
      BY <1>1, ShownPath
    <3> QED
      BY <1>1, <2>1, <3>1, PanesType DEF EditAnswers, PanesStep
  <2>2. CASE ~(ok /\ Reaches(edit.side))
    <3>1. pane' = [pane EXCEPT ![edit.side].error = @ \/ ~ok] /\ UNCHANGED <<lists, stray>>
      BY <2>2 DEF EditAnswers
    <3>2. pane' \in [Sides -> Pane]
      <4> DEFINE old == pane[edit.side]
      <4> DEFINE failed == old.error \/ ~ok
      <4>1. pane \in [Sides -> Pane] /\ old \in Pane
        BY <1>1 DEF TypeInv
      <4>2. failed \in BOOLEAN
        OBVIOUS
      <4>3. pane' = [pane EXCEPT ![edit.side] = [old EXCEPT !.error = failed]]
        BY <3>1
      <4> HIDE DEF failed
      <4>4. [old EXCEPT !.error = failed] \in Pane
        BY <4>1, <4>2 DEF Pane
      <4> QED
        BY <1>1, <4>1, <4>3, <4>4
    <3> QED
      BY <3>1, <3>2, PaneType DEF TypeInv, TypeOK
  <2> QED
    BY <2>1, <2>2
<1>5. edit' = NoEdit /\ edit'.kind = "none"
  BY DEF EditAnswers, NoEdit
<1>6. UNCHANGED <<browser, disposed, transfer, clicks>>
  BY DEF EditAnswers
<1> QED
  BY <1>3, <1>4, <1>5, <1>6 DEF TypeInv, TypeOK, PathsKnown, browser

LEMMA TransferType ==
  ASSUME TypeInv, NEW ok \in BOOLEAN, NEW left \in BOOLEAN, TransferAnswers(ok, left)
  PROVE  TypeInv'
<1> DEFINE to == transfer.to
<1>1. transfer \in File /\ to \in Sides /\ transfer.place \in Paths \X Names
  BY DEF TransferAnswers, TypeInv, File, Places
<1>2. disk' \in [Sides -> [Paths \X Names -> Kinds]]
  BY <1>1 DEF TransferAnswers, TypeInv, TypeOK, Kinds
<1>3. /\ pane' \in [Sides -> Pane] /\ PathsKnown(pane')
      /\ lists' \in [Sides -> SUBSET Call] /\ stray' \in [Sides -> BOOLEAN]
  <2>1. CASE ok /\ Reaches(to)
    <3>1. pane[to].path \in Paths \cup {None} /\ transfer.at \in Paths \cup {None}
      BY <1>1, ShownPath DEF File
    <3> QED
      BY <1>1, <2>1, <3>1, PanesType DEF TransferAnswers, PanesStep
  <2>2. CASE ~(ok /\ Reaches(to))
    <3>1. stray' = [stray EXCEPT ![to] = @ \/ left] /\ UNCHANGED <<pane, lists>>
      BY <2>2 DEF TransferAnswers
    <3> QED
      BY <1>1, <3>1, PaneType DEF TypeInv, TypeOK
  <2> QED
    BY <2>1, <2>2
<1>4. transfer' = NoTransfer /\ UNCHANGED <<browser, disposed, edit, clicks>>
  BY DEF TransferAnswers
<1> QED
  BY <1>2, <1>3, <1>4 DEF TypeInv, TypeOK, PathsKnown, browser

\* Every step keeps the types.
LEMMA TypeInvNext == TypeInv /\ [Next]_vars => TypeInv'
<1> SUFFICES ASSUME TypeInv, [Next]_vars PROVE TypeInv'
  OBVIOUS
<1>1. CASE UNCHANGED vars
  BY <1>1 DEF vars, browser, TypeInv, TypeOK
<1> QED
  BY <1>1, ClickType, ListingType, EffectType, EditType, TransferType DEF Next, Answer, Listing

-----------------------------------------------------------------------------
(* What a pane shows                                                       *)

\* A step that does not touch a side, its disk, its pane and its calls.
LEMMA SideKept ==
  ASSUME NEW s \in Sides, SideInv(s), Usable(s)' => Usable(s),
         disk'[s] = disk[s], pane'[s] = pane[s], lists'[s] = lists[s], stray'[s] = stray[s]
  PROVE  SideInv(s)'
<1>1. \A p : Entries(s, p)' = Entries(s, p)
  BY DEF Entries
<1>2. Shown(s)'
  BY <1>1 DEF SideInv, Shown
<1>3. \A c \in lists[s] : CallTrue(s, c)'
  BY <1>1 DEF SideInv, CallTrue
<1> QED
  BY <1>2, <1>3 DEF SideInv, Blank

\* After refreshLocal or refreshRemote no earlier call counts, and nothing is
\* claimed of the listing until the new one is answered.
LEMMA Refreshed ==
  ASSUME TypeInv, NEW side \in Sides, NEW p \in Paths \cup {None},
         NEW shown \in Paths \cup {None}, Refresh(side, p, shown), SideInv(side)
  PROVE  /\ SideInv(side)'
         /\ \A s \in Sides : s # side =>
              pane'[s] = pane[s] /\ lists'[s] = lists[s] /\ stray'[s] = stray[s]
<1> DEFINE n == [req |-> pane[side].req + 1, path |-> p, got |-> FALSE, entries |-> {}]
<1>1. /\ pane'[side].loading = TRUE /\ pane'[side].path = shown
      /\ pane'[side].req = pane[side].req + 1
      /\ lists'[side] = lists[side] \cup {n}
      /\ stray'[side] = (p # shown \/ p = None)
  BY DEF Refresh, TypeInv, TypeOK
<1>2. Shown(side)'
  BY <1>1 DEF Shown
<1>3. ASSUME NEW c \in lists[side] PROVE CallTrue(side, c)'
  <2>1. c.req <= pane[side].req /\ c.req \in Nat /\ pane[side].req \in Nat
    BY DEF SideInv, CallTrue, TypeInv, TypeOK, Call
  <2> QED
    BY <1>1, <2>1 DEF CallTrue
<1>4. ASSUME NEW c, c = n PROVE CallTrue(side, c)'
  <2>1. pane[side].req + 1 <= pane[side].req + 1
    BY DEF TypeInv, TypeOK
  <2> QED
    BY <1>1, <1>4, <2>1 DEF CallTrue
<1>5. \A s \in Sides : s # side =>
        pane'[s] = pane[s] /\ lists'[s] = lists[s] /\ stray'[s] = stray[s]
  BY DEF Refresh, TypeInv, TypeOK
<1> HIDE DEF n
<1>6. \A c \in lists'[side] : CallTrue(side, c)'
  BY <1>1, <1>3, <1>4
<1>7. SideInv(side)'
  BY <1>1, <1>2, <1>6 DEF SideInv, Blank
<1> QED
  BY <1>5, <1>7

\* The answers of a listing.
LEMMA ListingShown ==
  ASSUME TypeInv, ListInv, NEW s \in Sides, NEW c \in lists[s],
         ListReads(s, c) \/ \E ok \in BOOLEAN : ListAnswers(s, c, ok)
  PROVE  ListInv'
<1> USE DEF ListInv
<1>1. c \in Call /\ CallTrue(s, c) /\ Shown(s)
  BY DEF TypeInv, SideInv
<1>2. disk' = disk /\ \A p : Entries(s, p)' = Entries(s, p)
  <2>1. disk' = disk
    BY DEF ListReads, ListAnswers
  <2> QED
    BY <2>1 DEF Entries
<1>3. CASE ListReads(s, c)
  <2> DEFINE d == [c EXCEPT !.got = TRUE, !.entries = Entries(s, c.path)]
  <2>0. UNCHANGED <<disk, browser, pane, stray>>
    BY <1>3 DEF ListReads
  <2>1. /\ lists'[s] = (lists[s] \ {c}) \cup {d}
        /\ \A t \in Sides : t # s => lists'[t] = lists[t]
    BY <1>3 DEF ListReads, TypeInv
  <2>2. d.req = c.req /\ d.path = c.path /\ d.entries = Entries(s, c.path)
    BY <1>1 DEF Call
  <2>3. ASSUME NEW x, x = d PROVE CallTrue(s, x)'
    BY <1>1, <1>2, <2>0, <2>2, <2>3 DEF CallTrue, Usable, Reaches, browser
  <2>4. Shown(s)' /\ \A x \in lists[s] : CallTrue(s, x)'
    BY <1>2, <2>0 DEF SideInv, Shown, Blank, CallTrue, Usable, Reaches, browser
  <2>5. SideInv(s)'
    BY <2>0, <2>1, <2>3, <2>4 DEF SideInv, Blank
  <2>6. \A t \in Sides : t # s => SideInv(t)'
    BY <2>0, <2>1, SideKept DEF browser, Usable, Reaches
  <2> QED
    BY <2>0, <2>5, <2>6 DEF RemoteLater, browser
<1>4. ASSUME NEW ok \in BOOLEAN, ListAnswers(s, c, ok) PROVE ListInv'
  <2>0. UNCHANGED <<disk, browser, stray>>
    BY <1>4 DEF ListAnswers
  <2>1. lists'[s] = lists[s] \ {c}
    BY <1>4 DEF ListAnswers, TypeInv
  <2>2. \A t \in Sides : t # s => pane'[t] = pane[t] /\ lists'[t] = lists[t]
    BY <1>4 DEF ListAnswers, TypeInv
  <2>3. \A t \in Sides : pane'[t].path = pane[t].path /\ pane'[t].req = pane[t].req
    BY <1>4, <2>2 DEF ListAnswers, TypeInv
  <2>4. \A x \in lists[s] : CallTrue(s, x)'
    BY <1>2, <2>0, <2>3 DEF SideInv, CallTrue, Usable, Reaches, browser
  <2>5. ASSUME c.req # pane[s].req PROVE Shown(s)'
    <3>1. pane' = pane
      BY <1>4, <2>5 DEF ListAnswers, LatestCounts
    <3> QED
      BY <1>1, <1>2, <2>0, <3>1 DEF Shown, Usable, Reaches, browser
  <2>6. ASSUME c.req = pane[s].req, ok PROVE Shown(s)'
    <3>1. pane'[s].entries = c.entries /\ c.got
      BY <1>4, <2>6 DEF ListAnswers, LatestCounts, TypeInv
    <3> QED
      BY <1>1, <1>2, <2>0, <2>3, <2>6, <3>1 DEF Shown, CallTrue, Usable, Reaches, browser
  <2>7. ASSUME c.req = pane[s].req, ~ok PROVE Shown(s)'
    <3>1. pane'[s].error = (pane[s].error \/ TRUE)
      BY <1>4, <2>7 DEF ListAnswers, LatestCounts, TypeInv
    <3> QED
      BY <3>1 DEF Shown
  <2>8. \A t \in Sides : t # s => SideInv(t)'
    BY <2>0, <2>2, <2>3, SideKept DEF browser, Usable, Reaches
  <2>9. SideInv(s)'
    BY <2>0, <2>1, <2>3, <2>4, <2>5, <2>6, <2>7 DEF SideInv, Blank
  <2>10. RemoteLater'
    BY <2>0, <2>3 DEF RemoteLater, browser, Sides
  <2> QED
    BY <2>8, <2>9, <2>10
<1> QED
  BY <1>3, <1>4

\* The three things the connect effect can do to the panes.
PanesLeft == /\ UNCHANGED <<pane, lists, stray>> /\ (sftpIdRef' => sftpIdRef)
             /\ effect'.at \in {effect.at, "done"}
LocalOpened == /\ effect.at = "both" /\ effect'.at = "canonicalize"
               /\ UNCHANGED <<pane, lists, stray>> \/ Refresh("local", Home, Home)
RemoteOpened == effect'.at = "done" /\ UNCHANGED sftpIdRef /\ Refresh("remote", Home, Home)

LEMMA CaughtPanes ==
  ASSUME NEW e \in Effect, Caught(e), TypeInv
  PROVE  PanesLeft
BY DEF Caught, Shows, PanesLeft, Effect, TypeInv, TypeOK

LEMMA AfterBothPanes ==
  ASSUME NEW e \in Effect, AfterBoth(e), TypeInv, effect.at = "both", e.at = "both"
  PROVE  PanesLeft \/ LocalOpened
<1>1. CASE Caught(e)
  BY <1>1, CaughtPanes
<1>2. CASE ~Caught(e)
  BY <1>2 DEF AfterBoth, PanesLeft, LocalOpened, Effect
<1> QED
  BY <1>1, <1>2

LEMMA EffectPanes ==
  ASSUME TypeInv, NEW ok \in BOOLEAN,
         ConnectAnswers(ok) \/ HomeAnswers(ok) \/ CanonicalizeAnswers(ok)
  PROVE  PanesLeft \/ LocalOpened \/ RemoteOpened
<1>0. effect \in Effect
  BY DEF TypeInv
<1>1. CASE ConnectAnswers(ok)
  <2> DEFINE e == [effect EXCEPT !.connect = IF ok THEN "ok" ELSE "fail"]
  <2>1. e \in Effect /\ e.at = effect.at
    BY <1>0 DEF Effect
  <2> QED
    BY <1>1, <2>1, AfterBothPanes DEF ConnectAnswers, PanesLeft
<1>2. CASE HomeAnswers(ok)
  <2> DEFINE e == [effect EXCEPT !.home = IF ok THEN "ok" ELSE "fail"]
  <2>1. e \in Effect /\ e.at = effect.at
    BY <1>0 DEF Effect
  <2> QED
    BY <1>2, <2>1, AfterBothPanes DEF HomeAnswers, PanesLeft
<1>3. CASE CanonicalizeAnswers(ok)
  <2>1. CASE ~ok
    BY <1>0, <1>3, <2>1, CaughtPanes DEF CanonicalizeAnswers
  <2>2. CASE ok
    BY <1>0, <1>3, <2>2 DEF CanonicalizeAnswers, PanesLeft, RemoteOpened, Effect
  <2> QED
    BY <2>1, <2>2
<1> QED
  BY <1>1, <1>2, <1>3

LEMMA EffectShown ==
  ASSUME TypeInv, ListInv, NEW ok \in BOOLEAN,
         ConnectAnswers(ok) \/ HomeAnswers(ok) \/ CanonicalizeAnswers(ok)
  PROVE  ListInv'
<1> USE HomeType DEF ListInv
<1>1. disk' = disk
  BY DEF ConnectAnswers, HomeAnswers, CanonicalizeAnswers
<1>2. CASE PanesLeft
  <2>1. \A s \in Sides : SideInv(s)'
    BY <1>1, <1>2, SideKept DEF PanesLeft, Usable, Reaches
  <2> QED
    BY <1>2, <2>1 DEF PanesLeft, RemoteLater
<1>3. CASE LocalOpened
  <2>1. SideInv("local")' /\ UNCHANGED <<pane["remote"], lists["remote"], stray["remote"]>>
    <3>1. CASE Refresh("local", Home, Home)
      BY <3>1, Refreshed DEF Sides
    <3>2. CASE UNCHANGED <<pane, lists, stray>>
      BY <1>1, <3>2, SideKept DEF Usable, Reaches, Sides
    <3> QED
      BY <1>3, <3>1, <3>2 DEF LocalOpened
  <2>2. pane["remote"].path = None \/ stray["remote"]
    BY <1>3 DEF LocalOpened, RemoteLater
  <2>3. SideInv("remote")'
    <3>1. \A c \in lists["remote"] : c.req <= pane["remote"].req
      BY DEF SideInv, CallTrue, Sides
    <3>2. Blank("remote")
      BY DEF SideInv, Sides
    <3>3. Shown("remote")' /\ Blank("remote")'
      BY <2>1, <2>2, <3>2 DEF Shown, Blank, Usable
    <3>4. \A c \in lists["remote"]' : CallTrue("remote", c)'
      BY <2>1, <2>2, <3>1 DEF CallTrue, Usable
    <3> QED
      BY <3>3, <3>4 DEF SideInv
  <2> QED
    BY <1>3, <2>1, <2>3 DEF LocalOpened, RemoteLater, Sides
<1>4. CASE RemoteOpened
  <2>1. SideInv("remote")' /\ UNCHANGED <<pane["local"], lists["local"], stray["local"]>>
    BY <1>4, Refreshed DEF RemoteOpened, Sides
  <2>2. SideInv("local")'
    BY <1>1, <2>1, SideKept DEF Usable, Reaches, Sides
  <2> QED
    BY <1>4, <2>1, <2>2 DEF RemoteOpened, RemoteLater, Sides
<1> QED
  BY <1>2, <1>3, <1>4, EffectPanes

\* A refresh of a side that is shown, with a change of its own disk or none.
LEMMA UsedRefreshed ==
  ASSUME TypeInv, ListInv, NEW side \in Sides, NEW p \in Paths \cup {None},
         NEW shown \in Paths \cup {None}, Reaches(side), Refresh(side, p, shown),
         UNCHANGED <<effect, sftpIdRef>>,
         \A s \in Sides : s # side => disk'[s] = disk[s]
  PROVE  ListInv'
<1> USE DEF ListInv
<1>1. SideInv(side)' /\ \A s \in Sides : s # side =>
        pane'[s] = pane[s] /\ lists'[s] = lists[s] /\ stray'[s] = stray[s]
  BY Refreshed
<1>2. \A s \in Sides : s # side => SideInv(s)'
  BY <1>1, SideKept DEF Usable, Reaches
<1>3. RemoteLater'
  BY <1>1 DEF RemoteLater, Usable, Reaches, Sides
<1> QED
  BY <1>1, <1>2, <1>3

LEMMA ClickShown ==
  ASSUME TypeInv, ListInv, Click
  PROVE  ListInv'
<1> USE DEF ListInv
<1>0. UNCHANGED <<disk, effect, sftpIdRef, status>>
  BY DEF Click
<1>1. ASSUME NEW side \in Sides,
             (\E p \in Paths : Navigate(side, p)) \/ RefreshClick(side)
      PROVE  ListInv'
  <2>1. CASE RefreshClick(side)
    BY <1>0, <2>1, ShownPath, UsedRefreshed DEF RefreshClick
  <2>2. ASSUME NEW p \in Paths, Navigate(side, p), Reaches(side), Refresh(side, p, p)
        PROVE  ListInv'
    BY <1>0, <2>2, UsedRefreshed
  <2>3. ASSUME NEW p \in Paths, pane' = [pane EXCEPT ![side].path = p],
               stray' = [stray EXCEPT ![side] = TRUE], UNCHANGED lists
        PROVE  ListInv'
    <3>1. /\ stray'[side] /\ pane'[side].req = pane[side].req
          /\ \A s \in Sides : s # side => pane'[s] = pane[s] /\ stray'[s] = stray[s]
      BY <2>3 DEF TypeInv, TypeOK, Pane
    <3>2. SideInv(side)'
      BY <2>3, <3>1 DEF SideInv, Shown, Blank, CallTrue
    <3>3. \A s \in Sides : s # side => SideInv(s)'
      BY <1>0, <2>3, <3>1, SideKept DEF Usable, Reaches
    <3>4. RemoteLater'
      BY <1>0, <3>1 DEF RemoteLater, Sides
    <3> QED
      BY <3>2, <3>3, <3>4
  <2> QED
    BY <1>1, <2>1, <2>2, <2>3 DEF Navigate
<1>2. ASSUME UNCHANGED <<pane, lists, stray>> PROVE ListInv'
  BY <1>0, <1>2, SideKept DEF Usable, Reaches, RemoteLater
<1>3. ASSUME CloseTab PROVE ListInv'
  <2>1. \A s \in Sides : pane'[s].path = None /\ lists'[s] = {} /\ pane'[s].entries = {}
    BY <1>3 DEF CloseTab, NoPane
  <2> QED
    BY <1>0, <2>1 DEF SideInv, Shown, Blank, Usable, RemoteLater, Sides
<1> QED
  BY <1>1, <1>2, <1>3 DEF Click, NewFolder, Rename, Delete, StartEdit, Transfer

\* The disk of a side that is not in use may change unseen.
LEMMA UnusedChanged ==
  ASSUME NEW s \in Sides, SideInv(s), ~Usable(s)', lists'[s] = lists[s], stray'[s] = stray[s],
         pane'[s].req = pane[s].req, pane'[s].path = pane[s].path, pane'[s].entries = pane[s].entries
  PROVE  SideInv(s)'
BY DEF SideInv, Shown, Blank, CallTrue

LEMMA EditShown ==
  ASSUME TypeInv, ListInv, NEW ok \in BOOLEAN, EditAnswers(ok)
  PROVE  ListInv'
<1> USE DEF ListInv
<1>0. edit.side \in Sides /\ edit.at \in Paths \cup {None}
  BY DEF EditAnswers, TypeInv, Edit
<1>1. PICK side \in Sides : side = edit.side
  BY <1>0
<1>2. \A s \in Sides : s # side => disk'[s] = disk[s]
  BY <1>1 DEF EditAnswers, TypeInv, TypeOK
<1>3. UNCHANGED <<effect, sftpIdRef>>
  BY DEF EditAnswers, browser
<1>4. ASSUME ok, Reaches(side) PROVE ListInv'
  <2>1. Refresh(side, edit.at, pane[side].path)
    BY <1>1, <1>4 DEF EditAnswers
  <2> QED
    BY <1>0, <1>1, <1>2, <1>3, <1>4, <2>1, ShownPath, UsedRefreshed DEF Usable, Reaches
<1>5. ASSUME ~(ok /\ Reaches(side)) PROVE ListInv'
  <2>1. /\ UNCHANGED <<lists, stray>>
        /\ pane' = [pane EXCEPT ![side].error = @ \/ ~ok]
    BY <1>1, <1>5 DEF EditAnswers
  <2>2. /\ \A s \in Sides : s # side => pane'[s] = pane[s]
        /\ \A s \in Sides : /\ pane'[s].path = pane[s].path
                              /\ pane'[s].req = pane[s].req
                              /\ pane'[s].entries = pane[s].entries
        /\ pane'[side].error = (pane[side].error \/ ~ok)
    BY <1>1, <2>1 DEF TypeInv, Pane
  <2>3. \A s \in Sides : s # side => SideInv(s)'
    BY <1>2, <1>3, <2>1, <2>2, SideKept DEF Usable, Reaches
  <2>4. ASSUME ~ok PROVE SideInv(side)'
    <3>1. disk' = disk
      BY <2>4 DEF EditAnswers
    <3>2. \A q : Entries(side, q)' = Entries(side, q)
      BY <3>1 DEF Entries
    <3>3. Shown(side)'
      BY <2>2, <2>4 DEF Shown
    <3>4. \A c \in lists[side] : CallTrue(side, c)'
      BY <1>1, <1>3, <2>1, <2>2, <3>2 DEF SideInv, CallTrue, Usable, Reaches
    <3> QED
      BY <2>1, <2>2, <3>3, <3>4 DEF SideInv, Blank
  <2>5. ASSUME ~Reaches(side) PROVE SideInv(side)'
    BY <1>1, <1>3, <2>1, <2>2, <2>5, UnusedChanged DEF Usable, Reaches
  <2>6. RemoteLater'
    BY <1>3, <2>1, <2>2 DEF RemoteLater, Sides
  <2> QED
    BY <1>5, <2>3, <2>4, <2>5, <2>6
<1> QED
  BY <1>4, <1>5

LEMMA TransferShown ==
  ASSUME TypeInv, ListInv, NEW ok \in BOOLEAN, NEW left \in BOOLEAN,
         TransferAnswers(ok, left)
  PROVE  ListInv'
<1> USE DEF ListInv
<1>0. transfer.to \in Sides /\ transfer.at \in Paths \cup {None}
  BY DEF TransferAnswers, TypeInv, File
<1>1. PICK to \in Sides : to = transfer.to
  BY <1>0
<1>2. \A s \in Sides : s # to => disk'[s] = disk[s]
  BY <1>1 DEF TransferAnswers, TypeInv, TypeOK
<1>3. UNCHANGED <<effect, sftpIdRef>>
  BY DEF TransferAnswers, browser
<1>4. ASSUME ok, Reaches(to) PROVE ListInv'
  <2>1. Refresh(to, transfer.at, pane[to].path)
    BY <1>1, <1>4 DEF TransferAnswers
  <2> QED
    BY <1>0, <1>1, <1>2, <1>3, <1>4, <2>1, ShownPath, UsedRefreshed DEF Usable, Reaches
<1>5. ASSUME ~(ok /\ Reaches(to)) PROVE ListInv'
  <2>1. UNCHANGED <<pane, lists>> /\ stray' = [stray EXCEPT ![to] = @ \/ left]
    BY <1>1, <1>5 DEF TransferAnswers
  <2>2. /\ \A s \in Sides : s # to => stray'[s] = stray[s]
        /\ stray'[to] = (stray[to] \/ left)
    BY <1>1, <2>1 DEF TypeInv, TypeOK
  <2>3. \A s \in Sides : s # to => SideInv(s)'
    BY <1>2, <1>3, <2>1, <2>2, SideKept DEF Usable, Reaches
  <2>4. ASSUME left PROVE SideInv(to)'
    BY <1>1, <2>1, <2>2, <2>4 DEF SideInv, Shown, Blank, CallTrue
  <2>5. ASSUME ~left PROVE SideInv(to)'
    <3>1. disk' = disk /\ stray'[to] = stray[to]
      BY <1>1, <2>2, <2>5 DEF TransferAnswers, TypeInv, TypeOK
    <3> QED
      BY <1>1, <1>3, <2>1, <3>1, SideKept DEF Usable, Reaches
  <2>6. RemoteLater'
    BY <1>3, <2>1, <2>2 DEF RemoteLater, Sides
  <2> QED
    BY <2>3, <2>4, <2>5, <2>6
<1> QED
  BY <1>4, <1>5

\* The listings stay true through every step.
LEMMA ListInvNext == TypeInv /\ ListInv /\ [Next]_vars => ListInv'
<1> SUFFICES ASSUME TypeInv, ListInv, [Next]_vars PROVE ListInv'
  OBVIOUS
<1>1. CASE UNCHANGED vars
  BY <1>1, SideKept DEF vars, browser, ListInv, RemoteLater, Usable, Reaches
<1> QED
  BY <1>1, ClickShown, ListingShown, EffectShown, EditShown, TransferShown
     DEF Next, Answer, Listing

\* The types and the listings, of every behaviour.
LEMMA ListInvariant == Spec => [](TypeInv /\ ListInv)
<1>1. Init => ListInv
  BY DEF Init, ListInv, RemoteLater, SideInv, Shown, Blank, Usable, Reaches, NoPane, Sides
<1> QED
  BY <1>1, TypeInvInit, TypeInvNext, ListInvNext, PTL DEF Spec

\* A pane of the SFTP tab that is not loading shows the directory it says, as it
\* is, however many refreshes, commands and answers overlap, but for the cases
\* `stray` names.
THEOREM ListingsTrue == Spec => []ListingTrue
<1>1. ListInv => ListingTrue
  BY DEF ListInv, SideInv, Shown, Usable, Reaches, ListingTrue
<1> QED
  BY <1>1, ListInvariant, PTL

-----------------------------------------------------------------------------
(* Where a rename leaves its file                                          *)

\* Only a click on "Rename" puts a rename under way, in a listing that is true.
LEMMA RenameInvNext == TypeInv /\ ListInv /\ RenameInv /\ [Next]_vars => RenameInv'
<1> SUFFICES ASSUME TypeInv, ListInv, RenameInv, [Next]_vars PROVE RenameInv'
  OBVIOUS
<1>1. ASSUME UNCHANGED edit PROVE RenameInv'
  BY <1>1 DEF RenameInv
<1>2. ASSUME edit' = NoEdit PROVE RenameInv'
  BY <1>2 DEF RenameInv, NoEdit
<1>3. ASSUME NEW side \in Sides, NEW e \in pane[side].entries, NEW n \in Names,
             Rename(side, e, n)
      PROVE  RenameInv'
  <2>1. /\ Reaches(side) /\ Visible(side)
        /\ edit' = [kind |-> "rename", side |-> side, from |-> <<e.dir, e.name>>,
                    to |-> <<Joined(pane[side].path), n>>, at |-> pane[side].path,
                    stray |-> stray[side]]
    BY <1>3 DEF Rename, StartEdit
  <2>2. ASSUME ~stray[side] PROVE e.dir = Joined(pane[side].path)
    <3>0. Shown(side) /\ Blank(side)
      BY DEF ListInv, SideInv
    <3>1. pane[side].entries = Entries(side, pane[side].path)
      BY <1>3, <2>1, <2>2, <3>0 DEF Shown, Usable, Blank, Visible
    <3>2. PICK m \in Names :
            e = Entry(Joined(pane[side].path), m, disk[side][<<Listed(pane[side].path), m>>] = "dir")
      BY <3>1 DEF Entries
    <3> QED
      BY <3>2 DEF Entry
  <2> QED
    BY <2>1, <2>2 DEF RenameInv
<1>4. ASSUME NEW kind \in {"mkdir", "rmdir", "remove"}, NEW side, NEW from, NEW to,
             StartEdit(kind, side, from, to)
      PROVE  RenameInv'
  BY <1>4 DEF StartEdit, RenameInv
<1>5. ASSUME Click PROVE RenameInv'
  BY <1>1, <1>2, <1>3, <1>4, <1>5 DEF Click, Navigate, RefreshClick, NewFolder, Delete,
                                      Transfer, CloseTab
<1>6. ASSUME Answer PROVE RenameInv'
  BY <1>1, <1>2, <1>6 DEF Answer, Listing, ListReads, ListAnswers, ConnectAnswers,
     HomeAnswers, CanonicalizeAnswers, EditAnswers, TransferAnswers
<1>7. CASE UNCHANGED vars
  BY <1>1, <1>7 DEF vars
<1> QED
  BY <1>5, <1>6, <1>7 DEF Next

\* A rename of the SFTP tab never moves a file to another directory, whatever
\* the user did between the listing, the click and the answer.
THEOREM RenamesInPlace == Spec => RenameInPlace
<1>1. Init => RenameInv
  BY DEF Init, RenameInv, NoEdit
<1>2. Spec => []RenameInv
  BY <1>1, ListInvariant, RenameInvNext, PTL DEF Spec
<1>3. RenameInv /\ [Next]_vars =>
        [edit.kind = "rename" /\ disk' # disk /\ edit' = NoEdit /\ ~edit.stray
         => edit.from[1] = edit.to[1]]_vars
  BY DEF RenameInv
<1> QED
  BY <1>2, <1>3, PTL DEF Spec, RenameInPlace

-----------------------------------------------------------------------------
(* Who closes the session                                                  *)

\* The answers that the connect effect waits for together.
LEMMA AfterBothSession ==
  ASSUME TypeInv, SessionInv, NEW e \in Effect, e.at = "both", effect.at = "both",
         UNCHANGED disposed, AfterBoth(e), e.connect = "called" => effect.connect = "called",
         effect.connect = "ok" => e.connect = "ok"
  PROVE  SessionInv'
<1>1. /\ ~sftpIdRef /\ session \in {"none", "open"}
      /\ session = "open" <=> effect.connect = "ok"
  BY DEF SessionInv
<1>2. CASE "fail" \in {e.connect, e.home} /\ Caught(e)
  <2>1. /\ effect'.at = "done" /\ effect'.connect = e.connect /\ effect'.home = e.home
        /\ session' = (IF e.connect = "ok" THEN "closed" ELSE session) /\ ~sftpIdRef'
    BY <1>1, <1>2 DEF Caught, Effect
  <2> QED
    BY <1>1, <1>2, <2>1 DEF SessionInv, Effect
<1>3. CASE e.connect = "ok" /\ e.home = "ok" /\ disposed /\ session' = ClosedLate(e)
           /\ effect' = [e EXCEPT !.at = "done"] /\ UNCHANGED sftpIdRef
  BY <1>1, <1>3 DEF SessionInv, ClosedLate, Effect
<1>4. CASE e.connect = "ok" /\ e.home = "ok" /\ ~disposed /\ session' = "open"
           /\ effect' = [e EXCEPT !.at = "canonicalize"] /\ sftpIdRef' = TRUE
  BY <1>4 DEF SessionInv, Effect
<1>5. CASE "fail" \notin {e.connect, e.home} /\ effect' = e /\ UNCHANGED sftpIdRef
           /\ session' = IF e.connect = "ok" THEN "open" ELSE session
  BY <1>1, <1>5 DEF SessionInv, Effect
<1> QED
  BY <1>2, <1>3, <1>4, <1>5 DEF AfterBoth

LEMMA EffectSession ==
  ASSUME TypeInv, SessionInv, NEW ok \in BOOLEAN,
         ConnectAnswers(ok) \/ HomeAnswers(ok) \/ CanonicalizeAnswers(ok)
  PROVE  SessionInv'
<1>0. effect \in Effect /\ UNCHANGED disposed
  BY DEF TypeInv, ConnectAnswers, HomeAnswers, CanonicalizeAnswers
<1>1. CASE ConnectAnswers(ok)
  <2> DEFINE e == [effect EXCEPT !.connect = IF ok THEN "ok" ELSE "fail"]
  <2>1. e \in Effect /\ e.at = effect.at /\ e.connect \in {"ok", "fail"}
        /\ e.home = effect.home /\ effect.connect = "called"
    BY <1>0, <1>1 DEF Effect, ConnectAnswers
  <2>2. CASE effect.at = "both"
    BY <1>0, <1>1, <2>1, <2>2, AfterBothSession DEF ConnectAnswers
  <2>3. CASE effect.at # "both"
    BY <1>0, <1>1, <2>1, <2>3 DEF ConnectAnswers, SessionInv, Effect
  <2> QED
    BY <2>2, <2>3
<1>2. CASE HomeAnswers(ok)
  <2> DEFINE e == [effect EXCEPT !.home = IF ok THEN "ok" ELSE "fail"]
  <2>1. e \in Effect /\ e.at = effect.at /\ e.connect = effect.connect
        /\ effect.home = "called"
    BY <1>0, <1>2 DEF Effect, HomeAnswers
  <2>2. CASE effect.at = "both"
    BY <1>0, <1>2, <2>1, <2>2, AfterBothSession DEF HomeAnswers
  <2>3. CASE effect.at # "both"
    BY <1>0, <1>2, <2>1, <2>3 DEF HomeAnswers, SessionInv, Effect
  <2> QED
    BY <2>2, <2>3
<1>3. CASE CanonicalizeAnswers(ok)
  <2>1. effect.at = "canonicalize" /\ sftpIdRef /\ effect.connect = "ok" /\ effect.home = "ok"
    BY <1>3 DEF CanonicalizeAnswers, SessionInv
  <2>2. CASE ~ok
    BY <1>0, <1>3, <2>1, <2>2 DEF CanonicalizeAnswers, Caught, SessionInv, Effect
  <2>3. CASE ok
    BY <1>0, <1>3, <2>1, <2>3 DEF CanonicalizeAnswers, SessionInv, Effect
  <2> QED
    BY <2>2, <2>3
<1> QED
  BY <1>1, <1>2, <1>3

LEMMA SessionInvNext == TypeInv /\ SessionInv /\ [Next]_vars => SessionInv'
<1> SUFFICES ASSUME TypeInv, SessionInv, [Next]_vars PROVE SessionInv'
  OBVIOUS
<1>1. ASSUME UNCHANGED <<effect, session, sftpIdRef, disposed>> PROVE SessionInv'
  BY <1>1 DEF SessionInv
<1>2. ASSUME CloseTab, UNCHANGED <<effect, sftpIdRef>> PROVE SessionInv'
  BY <1>2 DEF CloseTab, SessionInv
<1>3. ASSUME Click PROVE SessionInv'
  BY <1>1, <1>2, <1>3 DEF Click, Navigate, RefreshClick, NewFolder, Rename, Delete,
                          StartEdit, Transfer
<1>4. ASSUME Answer PROVE SessionInv'
  BY <1>1, <1>4, EffectSession DEF Answer, Listing, ListReads, ListAnswers, EditAnswers,
     TransferAnswers, browser
<1>5. CASE UNCHANGED vars
  BY <1>1, <1>5 DEF vars, browser
<1> QED
  BY <1>3, <1>4, <1>5 DEF Next

\* An SFTP session of the backend is one the tab or the waiting effect will
\* close, and the tab never uses one that is gone, whichever of sftpConnect,
\* localHomeDir and sftpCanonicalize answers first, fails, or comes after the
\* tab was closed; but for the session that comes after localHomeDir failed.
THEOREM SessionsReachable == Spec => []SessionReachable
<1>1. Init => SessionInv
  BY DEF Init, SessionInv
<1>2. TypeInv /\ SessionInv => SessionReachable
  BY DEF TypeInv, SessionInv, SessionReachable
<1>3. Spec => [](TypeInv /\ SessionInv)
  BY <1>1, TypeInvInit, TypeInvNext, SessionInvNext, PTL DEF Spec
<1> QED
  BY <1>2, <1>3, PTL
=============================================================================
