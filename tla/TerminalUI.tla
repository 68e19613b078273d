----------------------------- MODULE TerminalUI -----------------------------
(* The terminal interface (internal/tui).  Its model is changed by Update     *)
(* alone, one message at a time, but everything that takes time - and every   *)
(* message a view sends to the root - runs as a command of its own, whose     *)
(* message comes back whenever it is done.  The user goes on pressing keys    *)
(* meanwhile, and results of what was left long ago still arrive.             *)
(*                                                                            *)
(* `bus` holds the commands under way and the messages on their way.          *)
EXTENDS Naturals, FiniteSets

CONSTANTS
    Items,             \* wanted items
    Slots,             \* bound: messages under way at a time
    Nil,
    MaxKeys            \* bound: keys pressed

Screens == {"browse", "detail", "me", "settings"}
UIModes == {"pr", "wild-west"}
Shown == Items \cup {Nil}

AskingKinds ==
    {"request", "confirmed", "delta request", "delta confirmed", "submit", "done", "accept"}

\* A prompt of the detail view: what was shown when the key was pressed.
Prompt == [asked : Shown, crossed : BOOLEAN]

\* Commands under way and messages on their way.
Message ==
    [kind : {"board", "me", "diff", "create", "delta"}]
    \cup [kind : {"load", "result"}, of : Shown]
    \cup [kind : {"navigate"}, view : Screens, to : Shown]
    \cup [kind : {"save"}, mode : UIModes] \cup [kind : {"saved"}, mode : UIModes, ok : BOOLEAN]
    \cup [kind : AskingKinds, asked : Shown, crossed : BOOLEAN]
    \cup [kind : {"mutate"}, on : Shown, asked : Shown, crossed : BOOLEAN,
          confirmed : BOOLEAN, saving : BOOLEAN]

ASSUME KeyAssumption ==
    MaxKeys \in Nat /\ Nil \notin Items /\ Nil \notin Prompt /\ Nil \notin Message

VARIABLES
    active,            \* the view
    rows,              \* the items of the browse view
    loading,           \* views that say they are loading: subset of {"browse", "me"}
    item,              \* detail.item, or Nil
    prompts,           \* detail's confirming, deltaConfirm, submit, doneForm, acceptForm:
                       \* Nil or [asked, crossed], what was shown when the key was pressed
    executing,         \* detail.executing: no keys
    cfgMode, toggle,   \* cfg.Mode, and the mode that the settings view shows
    clientMode,        \* the mode of the SDK's client
    bus,
    keysPressed,
    last,              \* ghost: the last mutation that ran
    overlapped         \* ghost: two saves of settings were under way at a time

uiVars == <<active, rows, loading, item, prompts, executing, cfgMode, toggle, clientMode,
            bus, keysPressed, last, overlapped>>

PromptKinds == {"action", "delta", "submit", "done", "accept"}
NoPrompts == [k \in PromptKinds |-> Nil]
Pending(kinds) == {s \in Slots : bus[s] # Nil /\ bus[s].kind \in kinds}

\* The views are new, and the board is being fetched.
UIInit ==
    /\ active = "browse" /\ rows = {} /\ loading = {"browse", "me"}
    /\ item = Nil /\ prompts = NoPrompts /\ executing = FALSE
    /\ cfgMode \in UIModes /\ toggle = cfgMode /\ clientMode = cfgMode
    /\ \E first \in Slots : bus = [s \in Slots |-> IF s = first THEN [kind |-> "board"] ELSE Nil]
    /\ keysPressed = 0 /\ last = Nil /\ overlapped = FALSE

\* A command of its own.
Send(m) == \E s \in Slots : bus[s] = Nil /\ bus' = [bus EXCEPT ![s] = m]

-----------------------------------------------------------------------------
(* Keys, which the active view handles. *)

Pressed == /\ keysPressed < MaxKeys
           /\ keysPressed' = keysPressed + 1
           /\ UNCHANGED <<active, rows, item, executing, cfgMode, clientMode, last>>

Unprompted == prompts = NoPrompts

Navigate(view, to) == Send([kind |-> "navigate", view |-> view, to |-> to])

BrowseKey ==
    /\ active = "browse" /\ Pressed
    /\ \/ \E i \in rows : Navigate("detail", i) /\ UNCHANGED loading
       \/ Navigate("settings", Nil) /\ UNCHANGED loading
       \/ Navigate("me", Nil) /\ UNCHANGED loading
       \/ Send([kind |-> "board"]) /\ loading' = loading \cup {"browse"}
    /\ UNCHANGED <<prompts, toggle, overlapped>>

\* The dashboard's rows are not kept here: any item may be on it.
MeKey ==
    /\ active = "me" /\ Pressed
    /\ \/ \E i \in Items : Navigate("detail", i)
       \/ Navigate("browse", Nil) \/ Navigate("settings", Nil)
    /\ UNCHANGED <<loading, prompts, toggle, overlapped>>

\* Either toggle saves both settings: that of signing keeps the mode shown.
SettingsKey ==
    /\ active = "settings" /\ Pressed
    /\ \/ Navigate("browse", Nil) /\ UNCHANGED <<toggle, overlapped>>
       \/ /\ \/ toggle' = IF toggle = "pr" THEN "wild-west" ELSE "pr"
             \/ UNCHANGED toggle
          /\ Send([kind |-> "save", mode |-> toggle'])
          /\ overlapped' = (overlapped \/ Pending({"save", "saved"}) # {})
    /\ UNCHANGED <<loading, prompts>>

Here == [asked |-> item, crossed |-> FALSE]

\* What is asked about the item that is shown, with the prompt it is given.
SendFor(k, p) == Send([kind |-> k, asked |-> p.asked, crossed |-> p.crossed])

\* tryAction, tryDelta, tryDoneForm, tryAcceptForm, trySubmit: an item that may
\* be acted on in this way.
DetailKey ==
    /\ active = "detail" /\ ~executing /\ Unprompted /\ Pressed
    /\ \/ Navigate("browse", Nil) /\ UNCHANGED prompts
       \/ /\ item # Nil
          /\ \/ SendFor("request", Here) /\ UNCHANGED prompts
             \/ SendFor("delta request", Here) /\ UNCHANGED prompts
             \/ /\ \E k \in {"done", "accept"} : prompts' = [prompts EXCEPT ![k] = Here]
                /\ UNCHANGED bus
             \/ /\ cfgMode = "pr"
                /\ prompts' = [prompts EXCEPT !["submit"] = Here]
                /\ Send([kind |-> "diff"])
    /\ UNCHANGED <<loading, toggle, overlapped>>

\* The prompt that keys go to when there are several.
Foremost(k) ==
    LET order == <<"action", "delta", "submit", "done", "accept">>
    IN  \E n \in 1..5 : order[n] = k /\ \A m \in 1..n : (prompts[order[m]] # Nil) = (m = n)

\* No, or esc.
CancelKey(k) ==
    /\ active = "detail" /\ ~executing /\ Foremost(k) /\ Pressed
    /\ prompts' = [prompts EXCEPT ![k] = Nil]
    /\ UNCHANGED <<loading, toggle, bus, overlapped>>

\* Yes, or enter: a form and the submit view stay until the root has the message.
ConfirmKey(k) ==
    /\ active = "detail" /\ ~executing /\ Foremost(k) /\ Pressed
    /\ SendFor(CASE k = "action" -> "confirmed" [] k = "delta" -> "delta confirmed"
                 [] OTHER -> k,
               prompts[k])
    /\ prompts' = IF k \in {"action", "delta"} THEN [prompts EXCEPT ![k] = Nil] ELSE prompts
    /\ UNCHANGED <<loading, toggle, overlapped>>

-----------------------------------------------------------------------------
(* Messages, which Update handles for the root. *)

UpdateUnchanged == UNCHANGED <<clientMode, keysPressed, last, overlapped>>

Replace(s, m) == [bus EXCEPT ![s] = m]

\* Another item is shown: requests about the old one have been crossed.
Crossing(msgs, i) ==
    [s \in Slots |-> IF msgs[s] # Nil /\ msgs[s].kind \in AskingKinds /\ msgs[s].asked # i
                     THEN [msgs[s] EXCEPT !.crossed = TRUE] ELSE msgs[s]]

\* Faulty: forms survive.
SetDataUnderForms(i, msgs) ==
    /\ item' = i /\ executing' = FALSE
    /\ prompts' = [prompts EXCEPT !["action"] = Nil, !["delta"] = Nil]
    /\ bus' = Crossing(msgs, i)

\* detailModel.setData
SetData(i, msgs) ==
    /\ item' = i /\ executing' = FALSE
    /\ prompts' = NoPrompts
    /\ bus' = Crossing(msgs, i)

NavigateMsg(s) ==
    LET view == bus[s].view
    IN  /\ s \in Pending({"navigate"})
        /\ active' = view
        /\ bus' = Replace(s, CASE view = "detail" -> [kind |-> "load", of |-> bus[s].to]
                               [] view = "browse" -> [kind |-> "board"]
                               [] view = "me" -> [kind |-> "me"]
                               [] view = "settings" -> Nil)
        /\ loading' = IF view = "me" THEN loading \cup {"me"} ELSE loading
        /\ toggle' = IF view = "settings" THEN cfgMode ELSE toggle
        /\ UNCHANGED <<rows, item, prompts, executing, cfgMode>> /\ UpdateUnchanged

\* The board, whatever filter it was fetched for, or an error.
BrowseDataMsg(s) ==
    /\ s \in Pending({"board"})
    /\ rows' \in {Items, {}}
    /\ loading' = loading \ {"browse"}
    /\ bus' = Replace(s, Nil)
    /\ UNCHANGED <<active, item, prompts, executing, cfgMode, toggle>> /\ UpdateUnchanged

MeDataMsg(s) ==
    /\ s \in Pending({"me"})
    /\ loading' = loading \ {"me"}
    /\ bus' = Replace(s, Nil)
    /\ UNCHANGED <<active, rows, item, prompts, executing, cfgMode, toggle>> /\ UpdateUnchanged

DetailDataMsg(s) ==
    /\ s \in Pending({"load"})
    /\ \E i \in {bus[s].of, Nil} : SetData(i, Replace(s, Nil))
    /\ UNCHANGED <<active, rows, loading, cfgMode, toggle>> /\ UpdateUnchanged

Mutation(r, confirmed) ==
    [kind |-> "mutate", on |-> item, asked |-> r.asked, crossed |-> r.crossed,
     confirmed |-> confirmed,
     saving |-> overlapped \/ Pending({"save", "saved"}) # {}]

\* In pull-request mode at once, else a prompt.
ActionRequestMsg(s) ==
    /\ s \in Pending({"request"})
    /\ IF item # Nil /\ cfgMode = "pr"
       THEN executing' = TRUE /\ bus' = Replace(s, Mutation(bus[s], FALSE)) /\ UNCHANGED prompts
       ELSE /\ prompts' = IF item = Nil THEN prompts ELSE
                 [prompts EXCEPT !["action"] = [asked |-> bus[s].asked, crossed |-> bus[s].crossed]]
            /\ bus' = Replace(s, Nil) /\ UNCHANGED executing
    /\ UNCHANGED <<active, rows, loading, item, cfgMode, toggle>> /\ UpdateUnchanged

\* actionConfirmedMsg, doneSubmitMsg, acceptSubmitMsg
MutateMsg(s) ==
    LET k == bus[s].kind
    IN  /\ s \in Pending({"confirmed", "done", "accept"})
        /\ IF item = Nil THEN bus' = Replace(s, Nil) /\ UNCHANGED <<prompts, executing>>
           ELSE /\ executing' = TRUE
                /\ prompts' = [prompts EXCEPT ![IF k = "confirmed" THEN "action" ELSE k] = Nil]
                /\ bus' = Replace(s, Mutation(bus[s], TRUE))
        /\ UNCHANGED <<active, rows, loading, item, cfgMode, toggle>> /\ UpdateUnchanged

\* The mutation runs in the client, with the client's mode.
RunMutation(s) ==
    /\ s \in Pending({"mutate"})
    /\ last' = [on |-> bus[s].on, asked |-> bus[s].asked, crossed |-> bus[s].crossed,
                confirmed |-> bus[s].confirmed, saving |-> bus[s].saving, mode |-> clientMode]
    /\ bus' = Replace(s, [kind |-> "result", of |-> bus[s].on])
    /\ UNCHANGED <<active, rows, loading, item, prompts, executing, cfgMode, toggle, clientMode,
                   keysPressed, overlapped>>

\* Shows the item it was about, whatever is shown now; an error only says so.
ActionResultMsg(s) ==
    /\ s \in Pending({"result"})
    /\ \/ SetData(bus[s].of, Replace(s, Nil))
       \/ executing' = FALSE /\ bus' = Replace(s, Nil) /\ UNCHANGED <<item, prompts>>
    /\ UNCHANGED <<active, rows, loading, cfgMode, toggle>> /\ UpdateUnchanged

DeltaRequestMsg(s) ==
    /\ s \in Pending({"delta request"})
    /\ prompts' = [prompts EXCEPT !["delta"] = [asked |-> bus[s].asked, crossed |-> bus[s].crossed]]
    /\ bus' = Replace(s, Nil)
    /\ UNCHANGED <<active, rows, loading, item, executing, cfgMode, toggle>> /\ UpdateUnchanged

\* executeDelta acts on the branch of what is shown.
DeltaConfirmedMsg(s) ==
    /\ s \in Pending({"delta confirmed"})
    /\ prompts' = [prompts EXCEPT !["delta"] = Nil]
    /\ executing' = TRUE
    /\ last' = [on |-> item, asked |-> bus[s].asked, crossed |-> bus[s].crossed,
                confirmed |-> TRUE, saving |-> FALSE, mode |-> clientMode]
    /\ bus' = Replace(s, [kind |-> "delta"])
    /\ UNCHANGED <<active, rows, loading, item, cfgMode, toggle, clientMode, keysPressed, overlapped>>

\* Faulty: an error leaves the spinner on.
DeltaFailedSpinning(s) == bus' = Replace(s, Nil) /\ UNCHANGED <<executing, active>>

DeltaFailed(s) == executing' = FALSE /\ bus' = Replace(s, Nil) /\ UNCHANGED active

\* Discarded: back to the board. Applied: the item again, from main.
DeltaResultMsg(s) ==
    /\ s \in Pending({"delta"})
    /\ \/ DeltaFailed(s)
       \/ executing' = FALSE /\ active' = "browse" /\ bus' = Replace(s, [kind |-> "board"])
       \/ /\ executing' = FALSE /\ UNCHANGED active
          /\ bus' = Replace(s, IF item = Nil THEN Nil ELSE [kind |-> "load", of |-> item])
    /\ UNCHANGED <<rows, loading, item, prompts, cfgMode, toggle>> /\ UpdateUnchanged

\* submitOpenedMsg and submitDiffMsg: only text.
SubmitDiffMsg(s) ==
    /\ s \in Pending({"diff"})
    /\ bus' = Replace(s, Nil)
    /\ UNCHANGED <<active, rows, loading, item, prompts, executing, cfgMode, toggle>> /\ UpdateUnchanged

SubmitConfirmMsg(s) ==
    /\ s \in Pending({"submit"})
    /\ IF prompts["submit"] = Nil THEN bus' = Replace(s, Nil) /\ UNCHANGED <<prompts, executing>>
       ELSE /\ executing' = TRUE /\ prompts' = [prompts EXCEPT !["submit"] = Nil]
            /\ bus' = Replace(s, [kind |-> "create"])
    /\ UNCHANGED <<active, rows, loading, item, cfgMode, toggle>> /\ UpdateUnchanged

SubmitResultMsg(s) ==
    /\ s \in Pending({"create"})
    /\ executing' = FALSE /\ prompts' = [prompts EXCEPT !["submit"] = Nil]
    /\ bus' = Replace(s, Nil)
    /\ UNCHANGED <<active, rows, loading, item, cfgMode, toggle>> /\ UpdateUnchanged

\* Client.SaveSettings
RunSave(s) ==
    /\ s \in Pending({"save"})
    /\ \E ok \in BOOLEAN :
          /\ clientMode' = IF ok THEN bus[s].mode ELSE clientMode
          /\ bus' = [t \in Slots |->
                       CASE t = s -> [kind |-> "saved", mode |-> bus[s].mode, ok |-> ok]
                         [] t \in Pending({"mutate"}) -> [bus[t] EXCEPT !.saving = TRUE]
                         [] OTHER -> bus[t]]
    /\ UNCHANGED <<active, rows, loading, item, prompts, executing, cfgMode, toggle, keysPressed,
                   last, overlapped>>

\* Faulty: believes in a save that failed.
SavedRegardless(m) == cfgMode' = m.mode /\ toggle' = m.mode

\* An error leaves the toggle where it is.
Saved(m) == IF m.ok THEN cfgMode' = m.mode /\ toggle' = m.mode ELSE UNCHANGED <<cfgMode, toggle>>

SettingsSavedMsg(s) ==
    /\ s \in Pending({"saved"})
    /\ Saved(bus[s])
    /\ bus' = Replace(s, Nil)
    /\ UNCHANGED <<active, rows, loading, item, prompts, executing>> /\ UpdateUnchanged

Update(s) ==
    \/ NavigateMsg(s) \/ BrowseDataMsg(s) \/ MeDataMsg(s) \/ DetailDataMsg(s)
    \/ ActionRequestMsg(s) \/ MutateMsg(s) \/ ActionResultMsg(s)
    \/ DeltaRequestMsg(s) \/ DeltaConfirmedMsg(s) \/ DeltaResultMsg(s)
    \/ SubmitDiffMsg(s) \/ SubmitConfirmMsg(s) \/ SubmitResultMsg(s) \/ SettingsSavedMsg(s)

UINext ==
    \/ BrowseKey \/ MeKey \/ SettingsKey \/ DetailKey
    \/ \E k \in PromptKinds : CancelKey(k) \/ ConfirmKey(k)
    \/ \E s \in Slots : Update(s) \/ RunMutation(s) \/ RunSave(s)

UISpec == UIInit /\ [][UINext]_uiVars

-----------------------------------------------------------------------------
(* What is claimed. *)

\* A mutation is made of the item the user saw when the key was pressed that
\* led to it, through prompts and forms, whatever late results put another item
\* on the screen meanwhile ("Clear mutation state so stale results don't mask
\* action hints", detail.go:90) - except when the other item came while the
\* request itself was on its way to the root, which takes whatever is shown.
ActsOnWhatWasShown ==
    last # Nil => last.crossed \/ last.on = last.asked

\* The spinner takes the keys away, so it may only turn while something is
\* under way whose result stops it; "Loading..." likewise.
NeverStuck ==
    /\ executing => Pending({"mutate", "result", "delta", "create"}) # {}
    /\ "browse" \in loading => Pending({"board"}) # {}
    /\ active = "me" /\ "me" \in loading => Pending({"me"}) # {}

\* "PR mode: skip confirmation, execute immediately" (tui.go:111), for there a
\* mutation only pushes a branch: none runs unconfirmed in wild-west mode, where
\* it pushes to upstream - except while the settings are being saved, or after
\* two saves at a time, whose results may come in another order.
UnconfirmedOnlyInPRMode ==
    last # Nil /\ ~last.confirmed /\ last.mode = "wild-west" => last.saving
=============================================================================
