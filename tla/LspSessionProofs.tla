-------------------------- MODULE LspSessionProofs --------------------------
(***************************************************************************)
(* Proofs about LspSession, in two parts.                                  *)
(*                                                                         *)
(* Who is open where (IInv): the file is open in the server of its own     *)
(* project only, and only edits that a reload left pending can be flushed  *)
(* through a null fLSPProjectWrapper.  Contents are not looked into.       *)
(*                                                                         *)
(* What is open there (CInv, which rests on IInv): types, the server's     *)
(* copy with the pending changes is the editor's text, and what a server   *)
(* answers is used for the text it was computed for.                       *)
(***************************************************************************)
EXTENDS LspSession, SequenceTheorems, TLAPS

(* A document is registered, with the editor's wrapper, once the tab was   *)
(* shown; that a server came up for it stays noted for good; changes are   *)
(* kept from then on only; and a file that is open somewhere will be       *)
(* closed there by UnsetLSPServer.                                         *)
Linked ==
    /\ fLSPProjectWrapper \in Servers \cup {NoServer}
    /\ selected \in BOOLEAN /\ fInitialized \in BOOLEAN
    /\ registered = IF selected THEN fLSPProjectWrapper ELSE NoServer
    /\ fInitialized => selected
    /\ fChanges # <<>> => fInitialized

Closable ==
    /\ copy = [s \in Servers |-> copy[s]]
    /\ \A s \in Servers : copy[s] # NotOpen => fLSPProjectWrapper = s /\ fInitialized

(* Changes wait in an editor without a server only when they were left     *)
(* there by the reload that took the server away.                          *)
LeftByReload ==
    /\ leftover \in BOOLEAN
    /\ fLSPProjectWrapper = NoServer /\ fChanges # <<>> => leftover
    /\ crashed => leftover

IInv == Linked /\ Closable /\ LeftByReload

-----------------------------------------------------------------------------
(* Pieces of handlers.                                                     *)

(* didChange keeps a change for an editor that has a server only.          *)
LEMMA Changing ==
    ASSUME IInv, NEW to, Change(to),
           UNCHANGED <<selected, link, sent>>, UNCHANGED crashed
    PROVE  IInv'
  <1>1. CASE IsInitialized
    BY <1>1 DEF IInv, Linked, Closable, LeftByReload, Change, IsInitialized, link, sent, NotOpen
  <1>2. CASE ~IsInitialized
    BY <1>2 DEF IInv, Linked, Closable, LeftByReload, Change, link, sent, NotOpen
  <1>3. QED
    BY <1>1, <1>2

(* didClose is sent wherever the file is open.                             *)
LEMMA AllClosed ==
    ASSUME IInv
    PROVE  CopiesAfterClose = [s \in Servers |-> NotOpen]
  <1>1. CASE IsInitialized
    BY <1>1 DEF IInv, Linked, Closable, CopiesAfterClose, IsInitialized
  <1>2. CASE ~IsInitialized
    <2>1. \A s \in Servers : copy[s] = NotOpen
      BY <1>2, ServersAssumption DEF IInv, Linked, Closable, IsInitialized
    <2>2. QED
      BY <1>2, <2>1 DEF IInv, Closable, CopiesAfterClose
  <1>3. QED
    BY <1>1, <1>2

(* A flush reaches the editor's server, and only there changes the copy.   *)
LEMMA Flushing ==
    ASSUME IInv, flushChanges, fLSPProjectWrapper # NoServer,
           UNCHANGED <<selected, link>>, UNCHANGED crashed
    PROVE  IInv'
  <1>1. CASE fChanges = <<>> /\ UNCHANGED <<fChanges, sent>>
    BY <1>1 DEF IInv, Linked, Closable, LeftByReload, link, sent, NotOpen
  <1>2. CASE fChanges # <<>> /\ fChanges' = <<>>
             /\ copy' = [copy EXCEPT ![fLSPProjectWrapper] = After(@, fChanges)]
    <2>1. fInitialized /\ fLSPProjectWrapper \in Servers
      BY <1>2 DEF IInv, Linked
    <2>2. \A s \in Servers : s # fLSPProjectWrapper => copy'[s] = copy[s]
      BY <1>2 DEF IInv, Closable
    <2>3. Closable'
      BY <1>2, <2>1, <2>2 DEF IInv, Closable, link, NotOpen
    <2>4. QED
      BY <1>2, <2>3 DEF IInv, Linked, LeftByReload, link
  <1>3. QED
    BY <1>1, <1>2 DEF flushChanges

(* A document is registered with a server, or with none, after it was      *)
(* closed in every server.                                                 *)
LEMMA Registering ==
    ASSUME NEW target \in Servers \cup {NoServer}, NEW copies,
           copies = [s \in Servers |-> NotOpen],
           RegisterDocument(target, copies),
           fLSPProjectWrapper' = target
    PROVE  Closable' /\ registered' = target
  <1>1. CASE target = NoServer \/ wrapper[target] # "up"
    BY <1>1 DEF RegisterDocument, Closable, NotOpen, OnInitialize
  <1>2. CASE target # NoServer /\ wrapper[target] = "up"
    <2>1. OnInitialize(target, copies) /\ registered' = target
      BY <1>2 DEF RegisterDocument
    <2>2. copy' = [s \in Servers |-> IF s = target THEN text' ELSE NotOpen] /\ fInitialized'
      BY <2>1 DEF OnInitialize
    <2>3. QED
      BY <2>1, <2>2 DEF Closable
  <1>3. QED
    BY <1>1, <1>2

(* UnloadFile, LoadFromFile and _PostFileLoad, with the changes kept or    *)
(* sent before.                                                            *)
LEMMA Reloading ==
    ASSUME IInv, NEW content, NEW point, NEW target \in Servers \cup {NoServer},
           ReloadFileInEditor(content, point, target),
           fChanges' \in {fChanges, <<>>}, UNCHANGED crashed
    PROVE  IInv'
  <1> DEFINE w == fLSPProjectWrapper'
  <1>1. w \in Servers \cup {NoServer} /\ selected' = selected
        /\ leftover' = (leftover \/ fChanges' # <<>>)
    BY DEF ReloadFileInEditor
  <1>2. LeftByReload'
    BY <1>1 DEF IInv, LeftByReload
  <1>3. CASE selected
    <2>1. RegisterDocument(w, CopiesAfterClose)
      BY <1>3 DEF ReloadFileInEditor, IInv, Linked
    <2>2. Closable' /\ registered' = w
      BY <1>1, <2>1, AllClosed, Registering
    <2>3. fInitialized' \in BOOLEAN /\ (fInitialized => fInitialized')
      BY <2>1 DEF RegisterDocument, OnInitialize, IInv, Linked
    <2>4. QED
      BY <1>1, <1>2, <1>3, <2>2, <2>3 DEF IInv, Linked
  <1>4. CASE ~selected
    <2>1. registered' = NoServer /\ copy' = CopiesAfterClose /\ fInitialized' = fInitialized
      BY <1>4 DEF ReloadFileInEditor
    <2>2. Closable'
      BY <2>1, AllClosed DEF Closable
    <2>3. QED
      BY <1>1, <1>2, <1>4, <2>1, <2>2 DEF IInv, Linked
  <1>5. QED
    BY <1>3, <1>4

-----------------------------------------------------------------------------

LEMMA Initially == Init => IInv
  BY ServersAssumption DEF Init, IInv, Linked, Closable, LeftByReload, NotOpen

(* The first time the tab is shown the file is open in no server yet.      *)
LEMMA Showing ==
    ASSUME IInv, Selected, UNCHANGED crashed
    PROVE  IInv'
  <1>1. copy = [s \in Servers |-> NotOpen] /\ ~fInitialized /\ fChanges = <<>>
    BY DEF Selected, IInv, Linked, Closable
  <1>2. Closable' /\ registered' = fLSPProjectWrapper
    BY <1>1, Registering DEF Selected, IInv, Linked
  <1>3. fInitialized' \in BOOLEAN
    BY DEF Selected, RegisterDocument, OnInitialize, IInv, Linked
  <1>4. QED
    BY <1>1, <1>2, <1>3 DEF Selected, IInv, Linked, LeftByReload

(* A project that is opened takes an editor whose file is open nowhere.    *)
LEMMA Joining ==
    ASSUME IInv, NEW s \in Servers, ProjectOpened(s), UNCHANGED crashed
    PROVE  IInv'
  <1>1. fLSPProjectWrapper = NoServer /\ fLSPProjectWrapper' = s
        /\ UNCHANGED <<selected, fChanges, leftover>>
    BY DEF ProjectOpened, editor
  <1>2. copy = [r \in Servers |-> NotOpen]
    BY <1>1, ServersAssumption DEF IInv, Closable
  <1>3. LeftByReload'
    BY <1>1 DEF IInv, LeftByReload
  <1>4. CASE selected
    <2>1. RegisterDocument(s, copy)
      BY <1>4 DEF ProjectOpened, IInv, Linked
    <2>2. Closable' /\ registered' = s
      BY <1>1, <1>2, <2>1, Registering
    <2>3. fInitialized' \in BOOLEAN /\ (fInitialized => fInitialized')
      BY <2>1 DEF RegisterDocument, OnInitialize, IInv, Linked
    <2>4. QED
      BY <1>1, <1>3, <1>4, <2>2, <2>3 DEF IInv, Linked
  <1>5. CASE ~selected
    <2>1. UNCHANGED <<registered, fInitialized, copy>>
      BY <1>5 DEF ProjectOpened, sent
    <2>2. Closable'
      BY <1>2, <2>1 DEF Closable
    <2>3. QED
      BY <1>1, <1>3, <1>5, <2>1, <2>2 DEF IInv, Linked
  <1>6. QED
    BY <1>4, <1>5

(* The answer to "initialize" opens the file in the server it is           *)
(* registered with, which is the editor's.                                 *)
LEMMA ComingUp ==
    ASSUME IInv, NEW s \in Servers, Initialized(s), UNCHANGED crashed
    PROVE  IInv'
  <1>1. CASE registered = s
    <2>1. fLSPProjectWrapper = s
      BY <1>1, ServersAssumption DEF IInv, Linked
    <2>2. OnInitialize(s, copy) /\ leftover' = (leftover \/ fChanges # <<>>)
          /\ UNCHANGED <<selected, fLSPProjectWrapper, registered, fChanges>>
      BY <1>1 DEF Initialized, editor
    <2>3. fInitialized' /\ copy' = [copy EXCEPT ![s] = text']
      BY <2>2 DEF OnInitialize
    <2>4. fInitialized' = TRUE
      BY <2>2 DEF OnInitialize
    <2>5. Closable'
      BY <2>1, <2>2, <2>3 DEF IInv, Closable, NotOpen
    <2>6. selected
      BY <1>1, ServersAssumption DEF IInv, Linked
    <2>7. QED
      BY <2>1, <2>2, <2>4, <2>5, <2>6 DEF IInv, Linked, LeftByReload
  <1>2. CASE registered # s
    BY <1>2 DEF Initialized, IInv, Linked, Closable, LeftByReload, editor, sent, NotOpen
  <1>3. QED
    BY <1>1, <1>2

LEMMA Inductive ==
    ASSUME IInv, [Next]_vars
    PROVE  IInv'
  <1>1. CASE UNCHANGED vars
    BY <1>1 DEF vars, editor, link, sent, IInv, Linked, Closable, LeftByReload, NotOpen
  <1>2. CASE Idle
    <2>1. CASE fLSPProjectWrapper # NoServer
      BY <1>2, <2>1, Flushing DEF Idle, editor
    <2>2. CASE fLSPProjectWrapper = NoServer
      BY <1>2, <2>2 DEF Idle, editor, link, sent, IInv, Linked, Closable, LeftByReload, NotOpen
    <2>3. QED
      BY <2>1, <2>2
  <1>3. ASSUME Step, ~crashed, UNCHANGED crashed
        PROVE  IInv'
    <2>1. CASE Edit \/ Undo \/ Reload \/ ApplyFix
      BY <1>3, <2>1, Changing DEF Edit, Undo, Reload, ApplyFix
    <2>2. CASE Save
      <3>1. CASE IsInitialized
        BY <1>3, <2>2, <3>1, Flushing DEF Save, IsInitialized
      <3>2. CASE ~IsInitialized
        BY <1>3, <2>2, <3>2 DEF Save, link, sent, IInv, Linked, Closable, LeftByReload, NotOpen
      <3>3. QED
        BY <3>1, <3>2
    <2>3. CASE Selected
      BY <1>3, <2>3, Showing
    <2>4. CASE ReloadPatched
      BY <1>3, <2>4, Reloading DEF ReloadPatched, IInv, Linked
    <2>5. CASE Reopen
      BY <1>3, <2>5, AllClosed DEF Reopen, IInv, Linked, Closable, LeftByReload
    <2>6. ASSUME NEW target \in Servers \cup {NoServer}, ReloadMoved(target) \/ SaveAs(target)
          PROVE  IInv'
      BY <1>3, <2>6, Reloading DEF ReloadMoved, SaveAs
    <2>7. ASSUME NEW s \in Servers, ProjectOpened(s) \/ Initialized(s)
          PROVE  IInv'
      BY <1>3, <2>7, Joining, ComingUp
    <2>8. ASSUME NEW s \in Servers, Publish(s)
          PROVE  IInv'
      BY <1>3, <2>8 DEF Publish, editor, link, sent, IInv, Linked, Closable, LeftByReload, NotOpen
    <2>9. CASE Format
      BY <1>3, <2>9, Flushing DEF Format, IsInitialized, editor
    <2>10. ASSUME NEW m \in inFlight, OnEdits(m)
           PROVE  IInv'
      <3>1. CASE UNCHANGED <<editor, fVersion, fChanges, fLastDiagnostics>>
        BY <1>3, <2>10, <3>1
           DEF OnEdits, editor, link, sent, IInv, Linked, Closable, LeftByReload, NotOpen
      <3>2. CASE Change(Fresh) /\ UNCHANGED selected
        BY <1>3, <2>10, <3>2, Changing DEF OnEdits
      <3>3. QED
        BY <2>10, <3>1, <3>2 DEF OnEdits
    <2>11. ASSUME NEW m \in inFlight, OnDiagnostics(m)
           PROVE  IInv'
      BY <1>3, <2>11
         DEF OnDiagnostics, editor, link, sent, IInv, Linked, Closable, LeftByReload, NotOpen
    <2>12. QED
      BY <1>3, <2>1, <2>2, <2>3, <2>4, <2>5, <2>6, <2>7, <2>8, <2>9, <2>10, <2>11 DEF Step
  <1>4. QED
    BY <1>1, <1>2, <1>3 DEF Next

LEMMA Invariance == Spec => []IInv
  BY Initially, Inductive, PTL DEF Spec

(* Through moves, reloads, Save as, reopened tabs and servers that come up *)
(* late, the file is open in no server but the one of its project, and     *)
(* that one has it in fTextDocs: for any number of servers, sessions and   *)
(* edits (LSPEditorWrapper::UnsetLSPServer, LSPProjectWrapper::            *)
(* RegisterTextDocument).                                                  *)
THEOREM OneServer == Spec => []OpenInItsServerOnly
  <1>1. IInv => OpenInItsServerOnly
    BY DEF IInv, Linked, Closable, OpenInItsServerOnly
  <1>2. QED
    BY <1>1, Invariance, PTL

(* kIdle goes through a null fLSPProjectWrapper only when a reload left    *)
(* changes pending in an editor that lost its server: no other order of    *)
(* edits, saves, answers and moves leads there (LSPEditorWrapper::         *)
(* flushChanges has no check of its own).                                  *)
THEOREM OnlyLeftoversCrash == Spec => [](crashed => leftover)
  <1>1. IInv => (crashed => leftover)
    BY DEF IInv, LeftByReload
  <1>2. QED
    BY <1>1, Invariance, PTL

-----------------------------------------------------------------------------
(* Contents and versions.                                                  *)

(* The session still to come has room under the bound.                     *)
Counted ==
    /\ ~selected => session < MaxSessions
    /\ registered # NoServer /\ wrapper[registered] # "up" => session < MaxSessions

(* A server that is up has every file of its fTextDocs open.               *)
OpenWhenUp ==
    /\ \A s \in Servers : copy[s] # NotOpen => wrapper[s] = "up"
    /\ registered # NoServer /\ wrapper[registered] = "up" =>
          copy[registered] # NotOpen /\ fInitialized

(* The pending changes are a chain that ends in the editor's text ...      *)
LeadToText ==
    \A i \in 1..Len(fChanges) :
        fChanges[i][2] = IF i = Len(fChanges) THEN text ELSE fChanges[i + 1][1]

(* ... and starts in the copy, which is as many versions back.             *)
StartFromCopy(s) ==
    /\ copy[s] = IF fChanges = <<>> THEN text ELSE fChanges[1][1]
    /\ copyVersion[s] + Len(fChanges) = fVersion

Following ==
    ~leftover => /\ LeadToText
                 /\ \A s \in Servers : copy[s] # NotOpen => StartFromCopy(s)

Typed ==
    /\ contents \in 1..MaxContents /\ text \in 1..contents /\ saved \in 1..contents
    /\ fVersion \in Nat
    /\ fChanges \in Seq((1..contents) \X (1..contents))
    /\ fLastDiagnostics \in Garbled..contents
    /\ wrapper \in [Servers -> {"none", "starting", "up"}]
    /\ copy \in [Servers -> Garbled..contents] /\ copyVersion \in [Servers -> Nat]
    /\ session \in 0..MaxSessions
    /\ crashed \in BOOLEAN

(* A message comes from a server that is up, in this session or an earlier *)
(* one; one of this session with the editor's version has its text.        *)
Answers(m) ==
    /\ m.what \in {"edits", "diagnostics"} /\ m.server \in Servers
    /\ m.version \in Nat \cup {NoVersion} /\ m.session \in 0..session /\ m.base \in Garbled..contents
    /\ wrapper[m.server] = "up"
    /\ m.session = session /\ ~leftover /\ registered = m.server =>
          /\ m.version <= fVersion
          /\ m.version = fVersion => m.base = text

State == Typed /\ Counted /\ OpenWhenUp /\ Following

CInv == State /\ \A m \in inFlight : Answers(m)

(* Changes that lead from the copy to the text make the text of the copy.  *)
LEMMA AfterChain ==
    ASSUME State, IInv, ~leftover, NEW s \in Servers, copy[s] # NotOpen
    PROVE  After(copy[s], fChanges) = text
  <1>1. LeadToText /\ StartFromCopy(s) /\ fChanges \in Seq((1..contents) \X (1..contents))
    BY DEF State, Following, Typed
  <1>2. CASE fChanges = <<>>
    BY <1>1, <1>2 DEF After, StartFromCopy
  <1>3. CASE fChanges # <<>>
    <2>1. Len(fChanges) \in Nat \ {0}
      BY <1>1, <1>3
    <2>2. Chained(copy[s], fChanges)
      <3>1. ASSUME NEW i \in 1..Len(fChanges)
            PROVE  fChanges[i][1] = IF i = 1 THEN copy[s] ELSE fChanges[i - 1][2]
        <4>1. CASE i = 1
          BY <1>1, <1>3, <4>1 DEF StartFromCopy
        <4>2. CASE i # 1
          <5>1. i - 1 \in 1..Len(fChanges) /\ i - 1 # Len(fChanges) /\ (i - 1) + 1 = i
            BY <2>1, <4>2
          <5>2. fChanges[i - 1][2] = fChanges[(i - 1) + 1][1]
            BY <1>1, <5>1 DEF LeadToText
          <5>3. QED
            BY <4>2, <5>1, <5>2
        <4>3. QED
          BY <4>1, <4>2
      <3>2. QED
        BY <3>1 DEF Chained
    <2>3. fChanges[Len(fChanges)][2] = text
      BY <1>1, <2>1 DEF LeadToText
    <2>4. QED
      BY <1>3, <2>2, <2>3 DEF After
  <1>4. QED
    BY <1>2, <1>3

(* What a server makes of changes is a content of before, or garbled.      *)
LEMMA AfterType ==
    ASSUME NEW c \in Nat, NEW content \in Garbled..c,
           NEW changes \in Seq((1..c) \X (1..c))
    PROVE  After(content, changes) \in Garbled..c
  <1>1. CASE changes = <<>> \/ content = NotOpen
    BY <1>1 DEF After
  <1>2. CASE ~(changes = <<>> \/ content = NotOpen)
    <2>1. changes[Len(changes)] \in (1..c) \X (1..c)
      BY <1>2
    <2>2. changes[Len(changes)][2] \in Garbled..c /\ Garbled \in Garbled..c
      BY <2>1 DEF Garbled
    <2>3. QED
      BY <1>2, <2>2 DEF After
  <1>3. QED
    BY <1>1, <1>2

(* didChange: one more link of the chain, one more version.                *)
LEMMA Editing ==
    ASSUME IInv, CInv, NEW to \in 1..MaxContents, to <= Fresh, Change(to),
           UNCHANGED <<selected, link, sent>>, crashed' \in BOOLEAN,
           saved' \in {saved, text'}, fLastDiagnostics' \in {0, fLastDiagnostics},
           inFlight' \subseteq inFlight
    PROVE  CInv'
  <1>1. /\ text' = to /\ contents' \in 1..MaxContents /\ contents <= contents' /\ to <= contents'
        /\ contents' \in Nat /\ contents \in Nat
    BY DEF Change, CInv, State, Typed, Fresh
  <1>2. text \in 1..contents /\ fVersion \in Nat
        /\ fChanges \in Seq((1..contents) \X (1..contents))
    BY DEF CInv, State, Typed
  <1>3. fChanges \in Seq((1..contents') \X (1..contents'))
    <2>1. (1..contents) \X (1..contents) \subseteq (1..contents') \X (1..contents')
      BY <1>1
    <2>2. QED
      BY <1>2, <2>1
  <1>4. Typed'
    <2>1. fVersion' \in Nat /\ fChanges' \in Seq((1..contents') \X (1..contents'))
      <3>1. CASE IsInitialized
        <4>1. <<text, to>> \in (1..contents') \X (1..contents')
          BY <1>1, <1>2
        <4>2. fVersion' = fVersion + 1 /\ fChanges' = Append(fChanges, <<text, to>>)
          BY <3>1 DEF Change
        <4>3. QED
          BY <1>2, <1>3, <4>1, <4>2
      <3>2. CASE ~IsInitialized
        BY <1>2, <1>3, <3>2 DEF Change
      <3>3. QED
        BY <3>1, <3>2
    <2>2. saved' \in 1..contents' /\ fLastDiagnostics' \in Garbled..contents'
      BY <1>1 DEF CInv, State, Typed, Garbled
    <2>3. copy' \in [Servers -> Garbled..contents']
      <3>1. Garbled..contents \subseteq Garbled..contents'
        BY <1>1 DEF Garbled
      <3>2. QED
        BY <3>1 DEF CInv, State, Typed, sent
    <2>4. QED
      BY <1>1, <2>1, <2>2, <2>3 DEF CInv, State, Typed, sent, link
  <1>5. Counted' /\ OpenWhenUp'
    BY DEF CInv, State, Counted, OpenWhenUp, link, sent, NotOpen
  <1>6. ASSUME NEW s \in Servers, copy[s] # NotOpen
        PROVE  IsInitialized
    BY <1>6, ServersAssumption DEF IInv, Closable, IsInitialized
  <1>7. Following'
    <2> SUFFICES ASSUME ~leftover
                 PROVE  LeadToText' /\ \A s \in Servers : copy'[s] # NotOpen => StartFromCopy(s)'
      BY DEF Following, link, NotOpen
    <2>1. CASE IsInitialized
      <3>1. fVersion' = fVersion + 1 /\ fChanges' = Append(fChanges, <<text, to>>)
        BY <2>1 DEF Change
      <3>2. Len(fChanges') = Len(fChanges) + 1 /\ Len(fChanges) \in Nat
            /\ fChanges'[Len(fChanges) + 1] = <<text, to>>
            /\ \A i \in 1..Len(fChanges) : fChanges'[i] = fChanges[i]
        BY <1>2, <3>1
      <3>3. LeadToText /\ \A s \in Servers : copy[s] # NotOpen => StartFromCopy(s)
        BY DEF CInv, State, Following
      <3>4. LeadToText'
        <4>1. ASSUME NEW i \in 1..Len(fChanges')
              PROVE  fChanges'[i][2] = IF i = Len(fChanges') THEN text' ELSE fChanges'[i + 1][1]
          <5>1. CASE i = Len(fChanges')
            BY <1>1, <3>2, <5>1
          <5>2. CASE i = Len(fChanges)
            BY <3>2, <3>3, <5>2 DEF LeadToText
          <5>3. CASE i < Len(fChanges)
            <6>1. i \in 1..Len(fChanges) /\ i + 1 \in 1..Len(fChanges)
                  /\ i # Len(fChanges) /\ i # Len(fChanges')
              BY <3>2, <5>3
            <6>2. fChanges[i][2] = fChanges[i + 1][1]
              BY <3>3, <6>1 DEF LeadToText
            <6>3. QED
              BY <3>2, <6>1, <6>2
          <5>4. QED
            BY <3>2, <5>1, <5>2, <5>3
        <4>2. QED
          BY <4>1 DEF LeadToText
      <3>5. ASSUME NEW s \in Servers, copy[s] # NotOpen
            PROVE  StartFromCopy(s)'
        <4>1. StartFromCopy(s)
          BY <3>3, <3>5
        <4>2. CASE fChanges = <<>>
          BY <1>2, <3>1, <3>2, <4>1, <4>2 DEF StartFromCopy, sent, CInv, State, Typed
        <4>3. CASE fChanges # <<>>
          <5>1. Len(fChanges) # 0 /\ 1 \in 1..Len(fChanges)
            BY <1>2, <4>3
          <5>2. fChanges'[1] = fChanges[1] /\ fChanges' # <<>>
            <6>1. fChanges'[1] = fChanges[1]
              BY <3>2, <5>1
            <6>2. fChanges' # <<>>
              BY <1>2, <3>1
            <6>3. QED
              BY <6>1, <6>2
          <5>3. copyVersion[s] \in Nat /\ fVersion \in Nat
            BY DEF CInv, State, Typed
          <5>4. copy'[s] = fChanges'[1][1]
            BY <4>1, <4>3, <5>2 DEF StartFromCopy, sent
          <5>5. copyVersion'[s] + Len(fChanges') = fVersion'
            <6>1. copyVersion'[s] = copyVersion[s]
              BY DEF sent
            <6>2. copyVersion[s] + Len(fChanges) = fVersion
              BY <4>1 DEF StartFromCopy
            <6>3. Len(fChanges') = Len(fChanges) + 1 /\ Len(fChanges) \in Nat
              BY <3>2
            <6>4. fVersion' = fVersion + 1
              BY <3>1
            <6>5. QED
              BY <5>3, <6>1, <6>2, <6>3, <6>4
          <5>6. QED
            BY <5>2, <5>4, <5>5 DEF StartFromCopy
        <4>4. QED
          BY <4>2, <4>3
      <3>6. QED
        BY <3>4, <3>5 DEF sent
    <2>2. CASE ~IsInitialized
      <3>1. fChanges = <<>>
        BY <2>2 DEF IInv, Linked, LeftByReload, IsInitialized
      <3>2. fChanges' = <<>>
        BY <2>2, <3>1 DEF Change
      <3>3. QED
        BY <1>6, <2>2, <3>2 DEF LeadToText, sent
    <2>3. QED
      BY <2>1, <2>2
  <1>8. ASSUME NEW m \in inFlight'
        PROVE  Answers(m)'
    <2>1. Answers(m)
      BY DEF CInv
    <2>2. m.base \in Garbled..contents'
      BY <1>1, <2>1 DEF Answers, Garbled
    <2>3. CASE IsInitialized
      <3>1. fVersion' = fVersion + 1 /\ fVersion \in Nat
        BY <2>3 DEF Change, CInv, State, Typed
      <3>2. QED
        BY <2>1, <2>2, <3>1 DEF Answers, link, NoVersion
    <2>4. CASE ~IsInitialized
      <3>1. ~(registered = m.server)
        BY <2>1, <2>4, ServersAssumption
           DEF Answers, CInv, State, OpenWhenUp, IInv, Linked, IsInitialized
      <3>2. QED
        BY <2>1, <2>2, <3>1 DEF Answers, link
    <2>5. QED
      BY <2>3, <2>4
  <1>9. QED
    BY <1>4, <1>5, <1>7, <1>8 DEF CInv, State

(* A flush brings the server's copy to the editor's text and version.      *)
LEMMA Sending ==
    ASSUME IInv, CInv, flushChanges, fLSPProjectWrapper # NoServer,
           UNCHANGED <<text, contents, selected, link, fVersion, fLastDiagnostics>>,
           saved' \in 1..contents, crashed' \in BOOLEAN
    PROVE  /\ State' /\ fChanges' = <<>>
           /\ \A m \in inFlight : Answers(m)'
  <1>1. fChanges' = <<>>
    BY DEF flushChanges
  <1>2. \A m \in inFlight : Answers(m)'
    BY DEF CInv, Answers, link
  <1>3. CASE fChanges = <<>> /\ UNCHANGED <<fChanges, sent>>
    <2>1. Typed' /\ Counted' /\ OpenWhenUp'
      BY <1>3 DEF CInv, State, Typed, Counted, OpenWhenUp, link, sent, NotOpen
    <2>2. Following'
      BY <1>3 DEF CInv, State, Following, LeadToText, StartFromCopy, link, sent, NotOpen
    <2>3. QED
      BY <1>1, <1>2, <2>1, <2>2 DEF State
  <1>4. CASE /\ fChanges # <<>>
             /\ copy' = [copy EXCEPT ![fLSPProjectWrapper] = After(@, fChanges)]
             /\ copyVersion' = [copyVersion EXCEPT ![fLSPProjectWrapper] = fVersion]
    <2> DEFINE w == fLSPProjectWrapper
    <2>1. w \in Servers /\ registered = w
      BY <1>4 DEF IInv, Linked
    <2>2. After(copy[w], fChanges) \in Garbled..contents
      BY <2>1, AfterType DEF CInv, State, Typed
    <2>3. Typed'
      BY <1>1, <1>4, <2>1, <2>2 DEF CInv, State, Typed, link
    <2>4. \A s \in Servers : copy[s] # NotOpen => s = w
      BY DEF IInv, Closable
    <2>5. copy'[w] # NotOpen <=> copy[w] # NotOpen
      <3>1. CASE copy[w] = NotOpen
        BY <1>4, <2>1, <3>1 DEF After, CInv, State, Typed
      <3>2. CASE copy[w] # NotOpen
        <4>1. fChanges[Len(fChanges)] \in (1..contents) \X (1..contents)
          BY <1>4 DEF CInv, State, Typed
        <4>2. After(copy[w], fChanges) # NotOpen
          BY <1>4, <3>2, <4>1 DEF After, NotOpen, Garbled
        <4>3. QED
          BY <1>4, <2>1, <3>2, <4>2 DEF CInv, State, Typed
      <3>3. QED
        BY <3>1, <3>2
    <2>6. \A s \in Servers : copy'[s] # NotOpen <=> copy[s] # NotOpen
      BY <1>4, <2>5 DEF CInv, State, Typed
    <2>7. Counted' /\ OpenWhenUp'
      <3>1. registered \in Servers \cup {NoServer}
        BY <2>1
      <3>2. QED
        BY <2>6, <3>1 DEF CInv, State, Counted, OpenWhenUp, link, NotOpen
    <2>8. Following'
      <3> SUFFICES ASSUME ~leftover
                   PROVE  LeadToText' /\ \A s \in Servers : copy'[s] # NotOpen => StartFromCopy(s)'
        BY DEF Following, link, NotOpen
      <3>1. LeadToText'
        BY <1>1 DEF LeadToText
      <3>2. ASSUME NEW s \in Servers, copy'[s] # NotOpen
            PROVE  StartFromCopy(s)'
        <4>1. s = w /\ copy[w] # NotOpen
          BY <2>4, <2>6, <3>2
        <4>2. copy'[w] = text
          BY <1>4, <2>1, <4>1, AfterChain DEF CInv, State, Typed
        <4>3. copyVersion'[w] = fVersion /\ fVersion \in Nat
          BY <1>4, <2>1 DEF CInv, State, Typed
        <4>4. QED
          BY <1>1, <4>1, <4>2, <4>3 DEF StartFromCopy
      <3>3. QED
        BY <3>1, <3>2
    <2>9. QED
      BY <1>1, <1>2, <2>3, <2>7, <2>8 DEF State
  <1>5. QED
    BY <1>3, <1>4 DEF flushChanges

(* RegisterDocument for a file that is open nowhere: with a server that is *)
(* up it starts a session, else one is still to come.                      *)
LEMMA Opening ==
    ASSUME NEW target \in Servers \cup {NoServer}, NEW copies,
           copies = [s \in Servers |-> NotOpen], RegisterDocument(target, copies),
           IInv, CInv, session < MaxSessions, selected',
           contents' \in 1..MaxContents, contents <= contents',
           text' \in 1..contents', saved' \in 1..contents', fVersion' \in Nat,
           fChanges' \in Seq((1..contents) \X (1..contents)),
           fLastDiagnostics' \in Garbled..contents, crashed' \in BOOLEAN,
           ~leftover' => fChanges' = <<>>, registered' = target
    PROVE  State' /\ \A m \in inFlight : Answers(m)'
  <1>1. /\ wrapper \in [Servers -> {"none", "starting", "up"}]
        /\ copyVersion \in [Servers -> Nat] /\ session \in 0..MaxSessions
        /\ contents \in Nat /\ contents' \in Nat
    <2>1. Typed
      BY DEF CInv, State
    <2>2. QED
      BY <2>1, BoundsAssumption DEF Typed
  <1>2. fChanges' \in Seq((1..contents') \X (1..contents'))
    <2>1. (1..contents) \X (1..contents) \subseteq (1..contents') \X (1..contents')
      <3>1. 1..contents \subseteq 1..contents'
        BY <1>1
      <3>2. QED
        BY <3>1
    <2>2. QED
      BY <2>1, SeqMonotonic
  <1>3. fLastDiagnostics' \in Garbled..contents'
    BY <1>1 DEF Garbled
  <1>4. NotOpen \in Garbled..contents' /\ text' \in Garbled..contents' /\ text' # NotOpen
    BY <1>1 DEF NotOpen, Garbled
  <1>5. CASE target # NoServer /\ wrapper[target] = "up"
    <2>1. /\ fInitialized' = TRUE /\ session' = session + 1
          /\ copy' = [s \in Servers |-> IF s = target THEN text' ELSE NotOpen]
          /\ copyVersion' = [copyVersion EXCEPT ![target] = fVersion']
          /\ wrapper' = wrapper
      BY <1>5 DEF RegisterDocument, OnInitialize
    <2>2. Typed'
      <3>1. copy' \in [Servers -> Garbled..contents'] /\ copyVersion' \in [Servers -> Nat]
        BY <1>1, <1>4, <2>1
      <3>2. session' \in 0..MaxSessions
        BY <1>1, <2>1, BoundsAssumption
      <3>3. QED
        BY <1>1, <1>2, <1>3, <2>1, <3>1, <3>2 DEF Typed
    <2>3. Counted' /\ OpenWhenUp'
      BY <1>1, <1>4, <1>5, <2>1 DEF Counted, OpenWhenUp
    <2>4. Following'
      <3> SUFFICES ASSUME ~leftover'
                   PROVE  LeadToText' /\ \A s \in Servers : copy'[s] # NotOpen => StartFromCopy(s)'
        BY DEF Following
      <3>1. LeadToText'
        BY DEF LeadToText
      <3>2. copy'[target] = text' /\ copyVersion'[target] = fVersion'
        BY <1>1, <1>5, <2>1
      <3>3. \A s \in Servers : copy'[s] # NotOpen => s = target
        BY <2>1
      <3>4. StartFromCopy(target)'
        BY <3>2 DEF StartFromCopy
      <3>5. QED
        BY <3>1, <3>3, <3>4
    <2>5. ASSUME NEW m \in inFlight
          PROVE  Answers(m)'
      <3>1. Answers(m)
        BY DEF CInv
      <3>2. m.base \in Garbled..contents'
        BY <1>1, <3>1 DEF Answers, Garbled
      <3>3. QED
        BY <1>1, <2>1, <3>1, <3>2 DEF Answers
    <2>6. QED
      BY <2>2, <2>3, <2>4, <2>5 DEF State
  <1>6. CASE target = NoServer \/ wrapper[target] # "up"
    <2>1. /\ session' = session /\ copy' = copies /\ copyVersion' = copyVersion
          /\ wrapper' \in [Servers -> {"none", "starting", "up"}]
          /\ target # NoServer => wrapper'[target] = "starting"
          /\ \A s \in Servers : wrapper[s] = "up" => wrapper'[s] = "up"
      BY <1>1, <1>6 DEF RegisterDocument, OnInitialize
    <2>2. Typed'
      BY <1>1, <1>2, <1>3, <1>4, <2>1 DEF Typed
    <2>3. Counted' /\ OpenWhenUp'
      BY <1>1, <2>1 DEF Counted, OpenWhenUp
    <2>4. Following'
      BY <2>1 DEF Following, LeadToText
    <2>5. ASSUME NEW m \in inFlight
          PROVE  Answers(m)'
      <3>1. Answers(m)
        BY DEF CInv
      <3>2. m.base \in Garbled..contents'
        BY <1>1, <3>1 DEF Answers, Garbled
      <3>3. registered' # m.server
        BY <1>6, <3>1, ServersAssumption DEF Answers
      <3>4. QED
        BY <1>1, <2>1, <3>1, <3>2, <3>3 DEF Answers
    <2>6. QED
      BY <2>2, <2>3, <2>4, <2>5 DEF State
  <1>7. QED
    BY <1>5, <1>6

(* The file is closed everywhere and registered nowhere: what is on its    *)
(* way finds no document.                                                  *)
LEMMA Leaving ==
    ASSUME CInv, session < MaxSessions,
           copy' = [s \in Servers |-> NotOpen], registered' = NoServer,
           UNCHANGED <<wrapper, copyVersion, session, inFlight>>,
           contents' \in 1..MaxContents, contents <= contents',
           text' \in 1..contents', saved' \in 1..contents', fVersion' \in Nat,
           fChanges' \in Seq((1..contents) \X (1..contents)),
           fLastDiagnostics' \in Garbled..contents, crashed' \in BOOLEAN,
           ~leftover' => fChanges' = <<>>
    PROVE  CInv'
  <1>1. /\ wrapper \in [Servers -> {"none", "starting", "up"}]
        /\ copyVersion \in [Servers -> Nat] /\ session \in 0..MaxSessions
        /\ contents \in Nat /\ contents' \in Nat
    <2>1. Typed
      BY DEF CInv, State
    <2>2. QED
      BY <2>1, BoundsAssumption DEF Typed
  <1>2. fChanges' \in Seq((1..contents') \X (1..contents'))
    <2>1. (1..contents) \X (1..contents) \subseteq (1..contents') \X (1..contents')
      <3>1. 1..contents \subseteq 1..contents'
        BY <1>1
      <3>2. QED
        BY <3>1
    <2>2. QED
      BY <2>1, SeqMonotonic
  <1>3. fLastDiagnostics' \in Garbled..contents' /\ NotOpen \in Garbled..contents'
    BY <1>1 DEF Garbled, NotOpen
  <1>4. Typed'
    BY <1>1, <1>2, <1>3 DEF Typed
  <1>5. Counted' /\ OpenWhenUp'
    BY <1>1 DEF Counted, OpenWhenUp
  <1>6. Following'
    BY DEF Following, LeadToText
  <1>7. ASSUME NEW m \in inFlight
        PROVE  Answers(m)'
    <2>1. Answers(m)
      BY DEF CInv
    <2>2. m.base \in Garbled..contents /\ m.server \in Servers
      BY <2>1 DEF Answers
    <2>3. m.base \in Garbled..contents'
      BY <1>1, <2>2 DEF Garbled
    <2>4. m.server # NoServer
      BY <2>2, ServersAssumption
    <2>5. QED
      BY <2>1, <2>3, <2>4 DEF Answers
  <1>8. QED
    BY <1>4, <1>5, <1>6, <1>7 DEF CInv, State

(* UnloadFile, LoadFromFile and _PostFileLoad.                             *)
LEMMA ReloadingContents ==
    ASSUME IInv, CInv, NEW content \in 1..MaxContents, content <= Fresh,
           NEW point \in {text, saved}, NEW target \in Servers \cup {NoServer},
           ReloadFileInEditor(content, point, target),
           fChanges' \in {fChanges, <<>>}, UNCHANGED crashed
    PROVE  CInv'
  <1> DEFINE w == fLSPProjectWrapper'
  <1>1. /\ session < MaxSessions
        /\ \/ text' = content /\ saved' = content
           \/ text' \in {text, Fresh} /\ text' <= MaxContents /\ saved' = point
        /\ contents' = (IF text' > contents THEN text' ELSE contents)
        /\ fVersion' \in {0, fVersion} /\ fLastDiagnostics' \in {0, fLastDiagnostics}
        /\ w \in Servers \cup {NoServer} /\ leftover' = (leftover \/ fChanges' # <<>>)
        /\ selected' = selected /\ inFlight' = inFlight
    BY DEF ReloadFileInEditor
  <1>2. /\ contents' \in 1..MaxContents /\ contents <= contents'
        /\ text' \in 1..contents' /\ saved' \in 1..contents'
        /\ fVersion' \in Nat /\ fLastDiagnostics' \in Garbled..contents
        /\ fChanges' \in Seq((1..contents) \X (1..contents)) /\ crashed' \in BOOLEAN
    <2>1. /\ contents \in 1..MaxContents /\ contents \in Nat /\ content \in Nat
          /\ text \in 1..contents /\ saved \in 1..contents /\ point \in 1..contents
          /\ Fresh = contents + 1 /\ MaxContents \in Nat
      BY BoundsAssumption DEF CInv, State, Typed, Fresh
    <2>2. /\ contents' \in 1..MaxContents /\ contents <= contents'
          /\ text' \in 1..contents' /\ saved' \in 1..contents'
      <3>1. CASE text' = content /\ saved' = content
        BY <1>1, <2>1, <3>1
      <3>2. CASE text' \in {text, Fresh} /\ text' <= MaxContents /\ saved' = point
        BY <1>1, <2>1, <3>2
      <3>3. QED
        BY <1>1, <3>1, <3>2
    <2>3. fVersion' \in Nat /\ fChanges' \in Seq((1..contents) \X (1..contents))
          /\ crashed' \in BOOLEAN
      <3>1. fVersion \in Nat /\ fChanges \in Seq((1..contents) \X (1..contents))
            /\ crashed \in BOOLEAN
        BY DEF CInv, State, Typed
      <3>2. <<>> \in Seq((1..contents) \X (1..contents))
        OBVIOUS
      <3>3. fChanges' \in Seq((1..contents) \X (1..contents))
        <4>1. CASE fChanges' = fChanges
          BY <3>1, <4>1
        <4>2. CASE fChanges' = <<>>
          BY <3>2, <4>2
        <4>3. QED
          BY <4>1, <4>2
      <3>4. QED
        BY <1>1, <3>1, <3>3
    <2>4. fLastDiagnostics' \in Garbled..contents
      BY <1>1, <2>1 DEF CInv, State, Typed, Garbled
    <2>5. QED
      BY <2>2, <2>3, <2>4
  <1>3. CopiesAfterClose = [s \in Servers |-> NotOpen]
    BY AllClosed
  <1>4. ~leftover' => fChanges' = <<>>
    BY <1>1
  <1>5. CASE selected
    <2>1. RegisterDocument(w, CopiesAfterClose)
      BY <1>5 DEF ReloadFileInEditor, IInv, Linked
    <2>2. registered' = w
      BY <2>1 DEF RegisterDocument
    <2>3. State' /\ \A m \in inFlight : Answers(m)'
      BY <1>1, <1>2, <1>3, <1>4, <1>5, <2>1, <2>2, Opening
    <2>4. QED
      BY <1>1, <2>3 DEF CInv
  <1>6. CASE ~selected
    <2>1. /\ registered' = NoServer /\ copy' = CopiesAfterClose
          /\ UNCHANGED <<wrapper, copyVersion, session>>
      BY <1>6 DEF ReloadFileInEditor
    <2>2. QED
      BY <1>1, <1>2, <1>3, <1>4, <2>1, Leaving
  <1>7. QED
    BY <1>5, <1>6 DEF IInv, Linked

(* The tab is shown, and the file registered, for the first time.          *)
LEMMA ShowingContents ==
    ASSUME IInv, CInv, Selected, UNCHANGED crashed
    PROVE  CInv'
  <1>1. copy = [s \in Servers |-> NotOpen] /\ fChanges = <<>>
    BY DEF Selected, IInv, Linked, Closable
  <1>2. /\ ~selected /\ selected' = TRUE
        /\ UNCHANGED <<text, saved, contents, fVersion, fChanges, fLSPProjectWrapper,
                       leftover, fLastDiagnostics, inFlight>>
        /\ RegisterDocument(fLSPProjectWrapper, copy)
    BY DEF Selected
  <1>3. registered' = fLSPProjectWrapper /\ fLSPProjectWrapper \in Servers \cup {NoServer}
    BY <1>2 DEF RegisterDocument, IInv, Linked
  <1>4. /\ session < MaxSessions /\ contents \in 1..MaxContents /\ contents \in Nat
        /\ text \in 1..contents /\ saved \in 1..contents /\ fVersion \in Nat
        /\ fChanges \in Seq((1..contents) \X (1..contents))
        /\ fLastDiagnostics \in Garbled..contents /\ crashed \in BOOLEAN
    BY <1>2 DEF CInv, State, Typed, Counted
  <1>5. State' /\ \A m \in inFlight : Answers(m)'
    <2>1. contents <= contents'
      BY <1>2, <1>4
    <2>2. QED
      BY <1>1, <1>2, <1>3, <1>4, <2>1, Opening
  <1>6. QED
    BY <1>2, <1>5 DEF CInv

(* An open editor is taken by a project: no server knew the file before.   *)
LEMMA JoiningContents ==
    ASSUME IInv, CInv, NEW s \in Servers, ProjectOpened(s), UNCHANGED crashed
    PROVE  CInv'
  <1>1. /\ fLSPProjectWrapper = NoServer /\ session < MaxSessions
        /\ UNCHANGED <<text, saved, contents, selected, fVersion, fChanges, leftover,
                       fLastDiagnostics, inFlight>>
    BY DEF ProjectOpened, editor
  <1>2. /\ contents \in 1..MaxContents /\ contents \in Nat
        /\ text \in 1..contents /\ saved \in 1..contents /\ fVersion \in Nat
        /\ fChanges \in Seq((1..contents) \X (1..contents))
        /\ fLastDiagnostics \in Garbled..contents /\ crashed \in BOOLEAN
    BY DEF CInv, State, Typed
  <1>3. CASE selected
    <2>1. RegisterDocument(s, copy)
      BY <1>3 DEF ProjectOpened, IInv, Linked
    <2>2. copy = [r \in Servers |-> NotOpen]
      BY <1>1, ServersAssumption DEF IInv, Closable
    <2>3. registered' = s /\ (~leftover' => fChanges' = <<>>) /\ contents <= contents'
      BY <1>1, <1>2, <2>1 DEF RegisterDocument, IInv, LeftByReload
    <2>4. State' /\ \A m \in inFlight : Answers(m)'
      BY <1>1, <1>2, <1>3, <2>1, <2>2, <2>3, Opening
    <2>5. QED
      BY <1>1, <2>4 DEF CInv
  <1>4. CASE ~selected
    <2>1. UNCHANGED <<registered, wrapper, copy, copyVersion, session>>
      BY <1>4 DEF ProjectOpened, sent, IInv, Linked
    <2>2. Typed' /\ Counted' /\ OpenWhenUp'
      <3>1. OpenWhenUp'
        <4>1. registered = NoServer /\ \A r \in Servers : copy[r] = NotOpen
          BY <1>1, <1>4, ServersAssumption DEF IInv, Linked, Closable
        <4>2. QED
          BY <2>1, <4>1 DEF OpenWhenUp, NotOpen
      <3>2. QED
        BY <1>1, <2>1, <3>1 DEF CInv, State, Typed, Counted
    <2>3. Following'
      BY <1>1, <2>1 DEF CInv, State, Following, LeadToText, StartFromCopy, NotOpen
    <2>4. \A m \in inFlight : Answers(m)'
      BY <1>1, <2>1 DEF CInv, Answers
    <2>5. QED
      BY <1>1, <2>2, <2>3, <2>4 DEF CInv, State
  <1>5. QED
    BY <1>3, <1>4

(* A server comes up: it opens the file with the text of that moment.      *)
LEMMA ComingUpContents ==
    ASSUME IInv, CInv, NEW s \in Servers, Initialized(s), UNCHANGED crashed
    PROVE  CInv'
  <1>1. /\ wrapper[s] = "starting" /\ wrapper' = [wrapper EXCEPT ![s] = "up"]
        /\ UNCHANGED <<editor, fVersion, fLSPProjectWrapper, registered, fChanges,
                       fLastDiagnostics, inFlight>>
    BY DEF Initialized
  <1>2. /\ wrapper \in [Servers -> {"none", "starting", "up"}]
        /\ copy \in [Servers -> Garbled..contents] /\ copyVersion \in [Servers -> Nat]
        /\ session \in 0..MaxSessions /\ text \in 1..contents /\ contents \in Nat
        /\ fVersion \in Nat
    BY DEF CInv, State, Typed
  <1>3. CASE registered = s
    <2>1. /\ fInitialized' = TRUE /\ copy' = [copy EXCEPT ![s] = text]
          /\ copyVersion' = [copyVersion EXCEPT ![s] = fVersion]
          /\ session' = session + 1 /\ leftover' = (leftover \/ fChanges # <<>>)
      BY <1>1, <1>3 DEF Initialized, OnInitialize, editor
    <2>2. session < MaxSessions
      BY <1>1, <1>3, ServersAssumption DEF CInv, State, Counted
    <2>3. text \in Garbled..contents /\ text # NotOpen
      BY <1>2 DEF Garbled, NotOpen
    <2>4. Typed'
      <3>1. session' \in 0..MaxSessions
        BY <1>2, <2>1, <2>2, BoundsAssumption
      <3>2. QED
        BY <1>1, <2>1, <2>3, <3>1 DEF CInv, State, Typed, editor
    <2>5. \A r \in Servers : copy[r] # NotOpen => r = s
      BY <1>3, ServersAssumption DEF IInv, Closable, Linked
    <2>6. \A r \in Servers : copy'[r] # NotOpen => r = s
      BY <1>2, <2>1, <2>5
    <2>7. selected /\ selected' = selected
      BY <1>1, <1>3, ServersAssumption DEF IInv, Linked, editor
    <2>8. wrapper'[s] = "up" /\ copy'[s] = text /\ copyVersion'[s] = fVersion
      BY <1>1, <1>2, <2>1
    <2>9. Counted' /\ OpenWhenUp'
      BY <1>1, <1>3, <2>1, <2>3, <2>6, <2>7, <2>8 DEF Counted, OpenWhenUp
    <2>10. Following'
      <3> SUFFICES ASSUME ~leftover'
                   PROVE  LeadToText' /\ \A r \in Servers : copy'[r] # NotOpen => StartFromCopy(r)'
        BY DEF Following
      <3>1. fChanges' = <<>>
        BY <1>1, <2>1
      <3>2. StartFromCopy(s)'
        BY <1>1, <1>2, <2>8, <3>1 DEF StartFromCopy, editor
      <3>3. QED
        BY <2>6, <3>1, <3>2 DEF LeadToText
    <2>11. ASSUME NEW m \in inFlight
           PROVE  Answers(m)'
      <3>1. Answers(m) /\ contents' = contents
        BY <1>1 DEF CInv, editor
      <3>2. m.session \in 0..session' /\ m.session # session'
        BY <1>2, <2>1, <3>1 DEF Answers
      <3>3. wrapper'[m.server] = "up"
        BY <1>1, <1>2, <3>1 DEF Answers
      <3>4. QED
        BY <3>1, <3>2, <3>3 DEF Answers
    <2>12. QED
      BY <1>1, <2>4, <2>9, <2>10, <2>11 DEF CInv, State
  <1>4. CASE registered # s
    <2>1. UNCHANGED <<fInitialized, copy, copyVersion, session, leftover>>
      BY <1>4 DEF Initialized, sent
    <2>2. Typed'
      BY <1>1, <2>1 DEF CInv, State, Typed, editor
    <2>3. /\ \A r \in Servers : wrapper[r] = "up" => wrapper'[r] = "up"
          /\ registered # NoServer => registered \in Servers /\ wrapper'[registered] = wrapper[registered]
      BY <1>1, <1>2, <1>4 DEF IInv, Linked
    <2>4. Counted' /\ OpenWhenUp'
      BY <1>1, <2>1, <2>3 DEF CInv, State, Counted, OpenWhenUp, editor, NotOpen
    <2>5. Following'
      BY <1>1, <2>1 DEF CInv, State, Following, LeadToText, StartFromCopy, editor, NotOpen
    <2>6. \A m \in inFlight : Answers(m)'
      BY <1>1, <2>1, <2>3 DEF CInv, Answers, editor
    <2>7. QED
      BY <1>1, <2>2, <2>4, <2>5, <2>6 DEF CInv, State
  <1>5. QED
    BY <1>3, <1>4

(* A new Editor under the old URI.                                         *)
LEMMA Reopening ==
    ASSUME IInv, CInv, Reopen, UNCHANGED crashed
    PROVE  CInv'
  <1>1. /\ session < MaxSessions /\ text' \in {text, saved} /\ saved' = text'
        /\ fVersion' = 0 /\ fChanges' = <<>> /\ fLastDiagnostics' = 0
        /\ registered' = NoServer /\ copy' = CopiesAfterClose
        /\ UNCHANGED <<contents, wrapper, copyVersion, session, inFlight>>
    BY DEF Reopen
  <1>2. /\ contents \in 1..MaxContents /\ contents \in Nat /\ text \in 1..contents
        /\ saved \in 1..contents /\ crashed \in BOOLEAN
    BY DEF CInv, State, Typed
  <1>3. contents' \in 1..MaxContents /\ contents <= contents' /\ text' \in 1..contents'
        /\ saved' \in 1..contents'
    BY <1>1, <1>2
  <1>4. fChanges' \in Seq((1..contents) \X (1..contents)) /\ 0 \in Garbled..contents /\ 0 \in Nat
    BY <1>1, <1>2 DEF Garbled
  <1>5. QED
    BY <1>1, <1>2, <1>3, <1>4, AllClosed, Leaving

(* One message more on its way to the window, as a server sends it.        *)
LEMMA Receiving ==
    ASSUME State', \A m \in inFlight : Answers(m)', NEW m,
           inFlight' \subseteq inFlight \cup {m}, Answers(m)'
    PROVE  CInv'
  BY DEF CInv

(* A request is sent behind the flush, so it is about the editor's text.   *)
LEMMA Asking ==
    ASSUME IInv, CInv, Format, UNCHANGED crashed
    PROVE  CInv'
  <1> DEFINE w == fLSPProjectWrapper
  <1>0. PICK m : m = Message("edits", w, fVersion)
    OBVIOUS
  <1>1. /\ w # NoServer /\ flushChanges /\ UNCHANGED <<editor, link, fVersion, fLastDiagnostics>>
        /\ inFlight' = IF wrapper[w] = "up" THEN inFlight \cup {m} ELSE inFlight
    BY <1>0 DEF Format, IsInitialized
  <1>2. /\ saved' \in 1..contents /\ crashed' \in BOOLEAN
        /\ UNCHANGED <<text, contents, selected, fLSPProjectWrapper, registered, wrapper, session, leftover>>
    BY <1>1 DEF CInv, State, Typed, editor, link
  <1>3. State' /\ fChanges' = <<>> /\ \A k \in inFlight : Answers(k)'
    BY <1>1, <1>2, Sending
  <1>4. CASE wrapper[w] = "up"
    <2>1. w \in Servers /\ selected
      BY <1>1 DEF Format, IsInitialized, IInv, Linked
    <2>2. registered' = w
      BY <1>2, <2>1 DEF IInv, Linked
    <2>3. copy'[w] # NotOpen /\ copy'[w] \in Garbled..contents' /\ copyVersion'[w] \in Nat
      BY <1>1, <1>2, <1>3, <1>4, <2>1, <2>2 DEF State, OpenWhenUp, Typed, NotOpen
    <2>4. ~leftover' => copy'[w] = text'
      BY <1>3, <2>1, <2>3 DEF State, Following, StartFromCopy
    <2>5. fVersion' = fVersion /\ fVersion \in Nat /\ session \in 0..session' /\ session' = session
      BY <1>1, <1>2 DEF CInv, State, Typed
    <2>6. Answers(m)'
      <3>1. m = [what |-> "edits", server |-> w, version |-> fVersion, base |-> copy'[w],
                 session |-> session]
        BY <1>0 DEF Message
      <3>2. m.what = "edits" /\ m.server = w /\ m.version = fVersion /\ m.base = copy'[w]
            /\ m.session = session
        BY <3>1
      <3>3. QED
        BY <1>2, <1>4, <2>1, <2>3, <2>4, <2>5, <3>2 DEF Answers
    <2>7. QED
      BY <1>1, <1>3, <1>4, <2>6, Receiving
  <1>5. CASE wrapper[w] # "up"
    BY <1>1, <1>3, <1>5 DEF CInv
  <1>6. QED
    BY <1>4, <1>5

(* Diagnostics carry the version of the copy, or none: if nothing is       *)
(* pending, that copy is the text.                                         *)
LEMMA Publishing ==
    ASSUME IInv, CInv, NEW s \in Servers, Publish(s), UNCHANGED crashed
    PROVE  CInv'
  <1>0. PICK version \in {copyVersion[s], NoVersion} :
            inFlight' = inFlight \cup {Message("diagnostics", s, version)}
    BY DEF Publish
  <1>m. PICK m : m = Message("diagnostics", s, version)
    OBVIOUS
  <1>1. /\ copy[s] # NotOpen /\ inFlight' = inFlight \cup {m}
        /\ UNCHANGED <<text, saved, contents, selected, fLSPProjectWrapper, fInitialized,
                       registered, wrapper, session, leftover, copy, copyVersion,
                       fVersion, fChanges, fLastDiagnostics>>
    BY <1>0, <1>m DEF Publish, editor, link, sent
  <1>2. State'
    BY <1>1 DEF CInv, State, Typed, Counted, OpenWhenUp, Following, LeadToText, StartFromCopy, NotOpen
  <1>3. \A k \in inFlight : Answers(k)'
    BY <1>1 DEF CInv, Answers
  <1>4. Answers(m)'
    <2>1. m = [what |-> "diagnostics", server |-> s, version |-> version,
               base |-> copy[s], session |-> session]
      BY <1>1, <1>m DEF Message
    <2>2. copy[s] \in Garbled..contents /\ copyVersion[s] \in Nat /\ session \in Nat
          /\ fVersion \in Nat /\ wrapper[s] = "up"
      BY <1>1 DEF CInv, State, Typed, OpenWhenUp
    <2>3. ~leftover => copyVersion[s] <= fVersion /\ (copyVersion[s] = fVersion => copy[s] = text)
      <3>1. ~leftover => StartFromCopy(s)
        BY <1>1 DEF CInv, State, Following
      <3>2. Len(fChanges) \in Nat /\ (Len(fChanges) = 0 => fChanges = <<>>)
        BY DEF CInv, State, Typed
      <3>3. QED
        BY <2>2, <3>1, <3>2 DEF StartFromCopy
    <2>4. m.what = "diagnostics" /\ m.server = s /\ m.version = version /\ m.base = copy[s]
          /\ m.session = session
      BY <2>1
    <2>5. m.version \in {copyVersion[s], NoVersion}
      BY <1>0, <2>4
    <2>6. m.version \in Nat \cup {NoVersion}
          /\ (~leftover => m.version <= fVersion /\ (m.version = fVersion => m.base = text))
      <3>1. CASE m.version = copyVersion[s]
        BY <2>2, <2>3, <2>4, <3>1
      <3>2. CASE m.version = NoVersion
        <4>1. m.version <= fVersion /\ m.version # fVersion
          BY <2>2, <3>2 DEF NoVersion
        <4>2. QED
          BY <3>2, <4>1
      <3>3. QED
        BY <2>5, <3>1, <3>2
    <2>7. QED
      BY <1>1, <2>2, <2>4, <2>6 DEF Answers
  <1>5. QED
    BY <1>1, <1>2, <1>3, <1>4, Receiving

LEMMA ContentsInitially == Init => CInv
  <1> SUFFICES ASSUME Init
               PROVE  CInv
    OBVIOUS
  <1>1. Typed
    <2>1. /\ contents \in 1..MaxContents /\ text \in 1..contents /\ saved \in 1..contents
          /\ fVersion \in Nat /\ fLastDiagnostics \in Garbled..contents
          /\ session \in 0..MaxSessions /\ crashed \in BOOLEAN
      <3>1. contents = 1 /\ text = 1 /\ saved = 1 /\ fVersion = 0 /\ fLastDiagnostics = 0
            /\ session = 0 /\ crashed = FALSE
        BY DEF Init
      <3>2. contents \in 1..MaxContents /\ session \in 0..MaxSessions
        BY <3>1, BoundsAssumption
      <3>3. text \in 1..contents /\ saved \in 1..contents /\ fVersion \in Nat
            /\ fLastDiagnostics \in Garbled..contents
        BY <3>1 DEF Garbled
      <3>4. QED
        BY <3>1, <3>2, <3>3
    <2>2. fChanges \in Seq((1..contents) \X (1..contents))
      BY DEF Init
    <2>3. /\ wrapper \in [Servers -> {"none", "starting", "up"}]
          /\ copy \in [Servers -> Garbled..contents] /\ copyVersion \in [Servers -> Nat]
      BY DEF Init, Garbled, NotOpen
    <2>4. QED
      BY <2>1, <2>2, <2>3 DEF Typed
  <1>2. Counted /\ OpenWhenUp /\ Following
    BY BoundsAssumption DEF Init, Counted, OpenWhenUp, Following, LeadToText, NotOpen
  <1>3. QED
    BY <1>1, <1>2 DEF Init, CInv, State

LEMMA ContentsInductive ==
    ASSUME IInv, CInv, [Next]_vars
    PROVE  CInv'
  <1>1. CASE UNCHANGED vars
    BY <1>1 DEF vars, editor, link, sent, CInv, State, Typed, Counted, OpenWhenUp, Following,
                LeadToText, StartFromCopy, Answers, NotOpen
  <1>2. CASE Idle
    <2>1. /\ UNCHANGED <<text, saved, contents, selected, link, fVersion, fLastDiagnostics, inFlight>>
      BY <1>2 DEF Idle, editor
    <2>2. CASE fLSPProjectWrapper # NoServer
      <3>1. flushChanges /\ crashed' = crashed
        BY <1>2, <2>2 DEF Idle
      <3>2. saved' \in 1..contents /\ crashed' \in BOOLEAN
        BY <2>1, <3>1 DEF CInv, State, Typed
      <3>3. QED
        BY <2>1, <2>2, <3>1, <3>2, Sending DEF CInv
    <2>3. CASE fLSPProjectWrapper = NoServer
      <3>1. UNCHANGED <<fChanges, sent>> /\ crashed' = TRUE
        BY <1>2, <2>3 DEF Idle
      <3>2. QED
        BY <2>1, <3>1 DEF link, sent, CInv, State, Typed, Counted, OpenWhenUp, Following,
                          LeadToText, StartFromCopy, Answers, NotOpen
    <2>4. QED
      BY <2>2, <2>3
  <1>3. ASSUME Step, ~crashed, UNCHANGED crashed
        PROVE  CInv'
    <2>1. /\ contents \in 1..MaxContents /\ contents \in Nat /\ saved \in 1..contents
          /\ text \in 1..contents /\ crashed' \in BOOLEAN /\ Fresh = contents + 1
      BY <1>3 DEF CInv, State, Typed, Fresh
    <2>2. contents < MaxContents => Fresh \in 1..MaxContents /\ Fresh <= Fresh
      BY <2>1, BoundsAssumption
    <2>3. /\ saved \in 1..MaxContents /\ saved <= Fresh
          /\ text \in 1..MaxContents /\ text <= Fresh
      BY <2>1, BoundsAssumption
    <2>4. CASE Edit
      BY <1>3, <2>1, <2>2, <2>4, Editing DEF Edit
    <2>5. CASE Undo
      BY <1>3, <2>1, <2>3, <2>5, Editing DEF Undo
    <2>6. CASE Reload
      BY <1>3, <2>1, <2>2, <2>6, Editing DEF Reload
    <2>7. CASE ApplyFix
      BY <1>3, <2>1, <2>2, <2>7, Editing DEF ApplyFix
    <2>8. CASE Save
      <3>1. saved' = text /\ saved' \in 1..contents /\ inFlight' = inFlight
            /\ UNCHANGED <<text, contents, selected, link, fVersion, fLastDiagnostics>>
        BY <2>1, <2>8 DEF Save
      <3>2. CASE IsInitialized
        <4>1. flushChanges
          BY <2>8, <3>2 DEF Save
        <4>2. QED
          BY <2>1, <3>1, <3>2, <4>1, Sending DEF CInv, IsInitialized
      <3>3. CASE ~IsInitialized
        <4>1. UNCHANGED <<fChanges, sent>>
          BY <2>8, <3>3 DEF Save
        <4>2. QED
          BY <1>3, <3>1, <4>1 DEF link, sent, CInv, State, Typed, Counted, OpenWhenUp, Following,
                            LeadToText, StartFromCopy, Answers, NotOpen
      <3>4. QED
        BY <3>2, <3>3
    <2>9. CASE Selected
      BY <1>3, <2>9, ShowingContents
    <2>10. CASE ReloadPatched
      BY <1>3, <2>2, <2>10, ReloadingContents DEF ReloadPatched, IInv, Linked
    <2>11. CASE Reopen
      BY <1>3, <2>11, Reopening
    <2>12. ASSUME NEW target \in Servers \cup {NoServer}, ReloadMoved(target) \/ SaveAs(target)
           PROVE  CInv'
      <3>1. CASE ReloadMoved(target)
        BY <1>3, <2>3, <3>1, ReloadingContents DEF ReloadMoved
      <3>2. ASSUME fChanges' = (IF IsInitialized THEN <<>> ELSE fChanges),
                   ReloadFileInEditor(text, text, target)
            PROVE  CInv'
        BY <1>3, <2>3, <3>2, ReloadingContents
      <3>3. ASSUME contents < MaxContents, UNCHANGED fChanges,
                   ReloadFileInEditor(Fresh, saved, target)
            PROVE  CInv'
        BY <1>3, <2>2, <3>3, ReloadingContents
      <3>4. QED
        BY <2>12, <3>1, <3>2, <3>3 DEF SaveAs
    <2>13. ASSUME NEW s \in Servers, ProjectOpened(s) \/ Initialized(s)
           PROVE  CInv'
      BY <1>3, <2>13, JoiningContents, ComingUpContents
    <2>14. ASSUME NEW s \in Servers, Publish(s)
           PROVE  CInv'
      BY <1>3, <2>14, Publishing
    <2>15. CASE Format
      BY <1>3, <2>15, Asking
    <2>16. ASSUME NEW m \in inFlight, OnEdits(m)
           PROVE  CInv'
      <3>1. inFlight' \subseteq inFlight /\ UNCHANGED <<link, sent>>
        BY <2>16 DEF OnEdits
      <3>2. CASE UNCHANGED <<editor, fVersion, fChanges, fLastDiagnostics>>
        BY <1>3, <3>1, <3>2
           DEF editor, link, sent, CInv, State, Typed, Counted, OpenWhenUp, Following,
               LeadToText, StartFromCopy, Answers, NotOpen
      <3>3. CASE /\ contents < MaxContents /\ Change(Fresh) /\ fLastDiagnostics' = 0
                 /\ UNCHANGED <<saved, selected>>
        BY <2>1, <2>2, <3>1, <3>3, Editing
      <3>4. QED
        BY <2>16, <3>2, <3>3 DEF OnEdits
    <2>17. ASSUME NEW m \in inFlight, OnDiagnostics(m)
           PROVE  CInv'
      <3>1. /\ inFlight' \subseteq inFlight
            /\ UNCHANGED <<text, saved, contents, selected, link, fVersion, fChanges, sent>>
            /\ fLastDiagnostics' \in {m.base, fLastDiagnostics}
        BY <2>17 DEF OnDiagnostics, editor
      <3>2. fLastDiagnostics' \in Garbled..contents
        BY <3>1 DEF CInv, State, Typed, Answers
      <3>3. QED
        BY <1>3, <3>1, <3>2
           DEF link, sent, CInv, State, Typed, Counted, OpenWhenUp, Following,
               LeadToText, StartFromCopy, Answers, NotOpen
    <2>18. QED
      BY <1>3, <2>4, <2>5, <2>6, <2>7, <2>8, <2>9, <2>10, <2>11, <2>12, <2>13, <2>14, <2>15,
         <2>16, <2>17 DEF Step
  <1>4. QED
    BY <1>1, <1>2, <1>3 DEF Next

LEMMA ContentsInvariance == Spec => [](IInv /\ CInv)
  <1>1. Init => IInv /\ CInv
    BY Initially, ContentsInitially
  <1>2. IInv /\ CInv /\ [Next]_vars => (IInv /\ CInv)'
    BY Inductive, ContentsInductive
  <1>3. QED
    BY <1>1, <1>2, PTL DEF Spec

(* The values the variables take, messages on their way included.          *)
THEOREM TypeCorrect == Spec => []TypeOK
  <1>1. IInv /\ CInv => TypeOK
    BY DEF IInv, Linked, LeftByReload, CInv, State, Typed, Answers, TypeOK
  <1>2. QED
    BY <1>1, ContentsInvariance, PTL

(* A server that has the file open holds the text the editor had when its  *)
(* pending changes began, and these lead from there to the editor's text:  *)
(* through saves, requests, moves, late servers and reopened tabs, for any *)
(* number of edits and servers, unless a reload left changes of before     *)
(* pending (LSPEditorWrapper::didChange, flushChanges, OnInitialize).      *)
THEOREM CopyIsText == Spec => []ServerFollowsText
  <1>1. IInv /\ CInv => ServerFollowsText
    BY AfterChain DEF IInv, LeftByReload, CInv, ServerFollowsText
  <1>2. QED
    BY <1>1, ContentsInvariance, PTL

(* No answer or diagnostics of the running session is used for a text it   *)
(* was not computed for: the comparison of versions is enough as long as   *)
(* there is a version to compare and the document is not opened anew       *)
(* (IsStaleResponse, OnDiagnostics).                                       *)
THEOREM AnswersFit == Spec => AnswersFitSession
  <1>1. ASSUME IInv, CInv, [Next]_vars, NEW m \in inFlight \ inFlight',
               m.session = session, ~leftover,
               \/ m.what = "edits" /\ text' # text
               \/ /\ m.what = "diagnostics" /\ m.version # NoVersion
                  /\ fLastDiagnostics' # fLastDiagnostics
        PROVE  m.base = text
    <2>1. Answers(m)
      BY <1>1 DEF CInv
    <2>2. Step
      BY <1>1 DEF Next, Idle, vars
    <2>3. \E k \in inFlight : OnEdits(k) \/ OnDiagnostics(k)
      BY <1>1, <2>2
         DEF Step, Edit, Undo, Reload, Save, Selected, ReloadPatched, Reopen, ReloadMoved,
             SaveAs, ReloadFileInEditor, ProjectOpened, Initialized, Publish, Format, ApplyFix
    <2>4. PICK k \in inFlight : OnEdits(k) \/ OnDiagnostics(k)
      BY <2>3
    <2>5. k = m
      BY <1>1, <2>4 DEF OnEdits, OnDiagnostics
    <2>6. fVersion \in Nat
      BY <1>1 DEF CInv, State, Typed
    <2>7. CASE OnEdits(m)
      <3>1. m.what = "edits" /\ registered = m.server /\ m.version = fVersion
        BY <1>1, <2>7 DEF OnEdits, editor, IsStaleResponse
      <3>2. QED
        BY <1>1, <2>1, <3>1 DEF Answers
    <2>8. CASE OnDiagnostics(m)
      <3>1. m.what = "diagnostics" /\ m.version # NoVersion /\ text' = text
        BY <1>1, <2>8 DEF OnDiagnostics, editor
      <3>2. registered = m.server /\ ~(m.version < fVersion)
        BY <1>1, <2>8, <3>1 DEF OnDiagnostics, StaleDiagnostics
      <3>3. QED
        BY <1>1, <2>1, <2>6, <3>1, <3>2 DEF Answers
    <2>9. QED
      BY <2>4, <2>5, <2>7, <2>8
  <1>2. IInv /\ CInv /\ [Next]_vars =>
          [\A m \in inFlight \ inFlight' :
              /\ m.session = session
              /\ ~leftover
              /\ \/ m.what = "edits" /\ text' # text
                 \/ /\ m.what = "diagnostics" /\ m.version # NoVersion
                    /\ fLastDiagnostics' # fLastDiagnostics
              => m.base = text]_vars
    BY <1>1
  <1>3. QED
    BY <1>2, ContentsInvariance, PTL DEF Spec, AnswersFitSession
=============================================================================
