-------------------------- MODULE CommandLineProofs --------------------------
(***************************************************************************)
(* Proofs about the `wl` program: its terminal interface, for every number *)
(* of items, of keys pressed and of messages under way at a time, and its  *)
(* chains of commands, `wl join`, `wl create` and `wl leave`, with the     *)
(* hosted registrar's, for any organizations, any commands, and however    *)
(* many of their steps fail; and its clone's main and the mutations it     *)
(* acknowledged, for any requests of any number of processes.              *)
(***************************************************************************)
EXTENDS TerminalUI, FederationJoin, LocalClone, TLAPS

-----------------------------------------------------------------------------
(* Typing, and kinds of messages. *)

UITypes ==
    /\ active \in Screens /\ rows \in SUBSET Items /\ item \in Shown
    /\ prompts \in [PromptKinds -> Prompt \cup {Nil}]
    /\ bus \in [Slots -> Message \cup {Nil}]
    /\ cfgMode \in UIModes /\ toggle \in UIModes /\ clientMode \in UIModes

On(s, kinds) == bus[s] # Nil /\ bus[s].kind \in kinds

SaveKinds == {"save", "saved"}
BusyKinds == {"mutate", "result", "delta", "create"}

(* A request is about what is shown, or was crossed; so is a prompt.          *)
AboutShown ==
    /\ \A s \in Slots : On(s, AskingKinds) => bus[s].crossed \/ bus[s].asked = item
    /\ \A k \in PromptKinds : prompts[k] # Nil => prompts[k].crossed \/ prompts[k].asked = item
    /\ \A s \in Slots : On(s, {"mutate"}) => bus[s].crossed \/ bus[s].on = bus[s].asked

(* Saves one at a time leave the configuration and the client with one mode.  *)
OneSave == \A s, t \in Slots : On(s, SaveKinds) /\ On(t, SaveKinds) => s = t

ModesAgree ==
    ~overlapped =>
        /\ OneSave
        /\ \A s \in Slots : On(s, {"saved"}) => IF bus[s].ok THEN clientMode = bus[s].mode
                                                 ELSE cfgMode = clientMode
        /\ (\A s \in Slots : ~On(s, {"saved"})) => cfgMode = clientMode

(* A mutation that nobody was asked to confirm.                               *)
OnlyInPRMode ==
    \A s \in Slots : On(s, {"mutate"}) =>
        bus[s].confirmed \/ bus[s].saving \/ clientMode = "pr"

UIInv ==
    /\ UITypes /\ AboutShown /\ ModesAgree /\ OnlyInPRMode
    /\ ActsOnWhatWasShown /\ NeverStuck /\ UnconfirmedOnlyInPRMode

-----------------------------------------------------------------------------
(* Messages. *)

Some(S) == S \cup {Nil}

(* What a message must not be when it is put on its way.                      *)
Sound(m) ==
    m # Nil =>
        /\ m.kind \in AskingKinds => m.crossed \/ m.asked = item
        /\ m.kind = "mutate" => /\ m.crossed \/ m.on = m.asked
                                /\ m.confirmed \/ m.saving \/ clientMode = "pr"

LEMMA MessageFields ==
    ASSUME NEW m \in Message
    PROVE  /\ m.kind \in {"load", "result"} => m.of \in Shown
           /\ m.kind = "navigate" => m.view \in Screens /\ m.to \in Shown
           /\ m.kind \in SaveKinds => m.mode \in UIModes
           /\ m.kind = "saved" => m.ok \in BOOLEAN
           /\ m.kind \in AskingKinds => m.asked \in Shown /\ m.crossed \in BOOLEAN
           /\ m.kind = "mutate" => /\ m.on \in Shown /\ m.asked \in Shown
                                   /\ m.crossed \in BOOLEAN /\ m.confirmed \in BOOLEAN
                                   /\ m.saving \in BOOLEAN
BY DEF Message, SaveKinds, AskingKinds

LEMMA PutMessage ==
    ASSUME UITypes, NEW s \in Slots, NEW x \in Some(Message), bus' = [bus EXCEPT ![s] = x]
    PROVE  /\ bus' \in [Slots -> Some(Message)] /\ bus'[s] = x
           /\ \A t \in Slots : t # s => bus'[t] = bus[t]
           /\ \A K : x # Nil /\ x.kind \in K => Pending(K)' # {}
           /\ \A K : ~On(s, K) /\ Pending(K) # {} => Pending(K)' # {}
<1>1. bus' \in [Slots -> Some(Message)] /\ bus'[s] = x /\ \A t \in Slots : t # s => bus'[t] = bus[t]
  BY DEF UITypes, Some
<1>2. ASSUME NEW K, x # Nil, x.kind \in K PROVE Pending(K)' # {}
  BY <1>1, <1>2 DEF Pending
<1>3. ASSUME NEW K, ~On(s, K), Pending(K) # {} PROVE Pending(K)' # {}
  <2>1. PICK t \in Slots : bus[t] # Nil /\ bus[t].kind \in K
    BY <1>3 DEF Pending
  <2>2. bus'[t] = bus[t]
    BY <1>1, <1>3, <2>1 DEF On
  <2> QED
    BY <2>1, <2>2 DEF Pending
<1> QED
  BY <1>1, <1>2, <1>3

(* What a step must show that leaves the item and the client's mode alone.    *)
LEMMA Keeps ==
    ASSUME UIInv, UITypes', UNCHANGED <<item, clientMode>>,
           \A t \in Slots : bus'[t] = bus[t] \/ Sound(bus'[t]),
           \A k \in PromptKinds :
              \/ prompts'[k] = prompts[k] \/ prompts'[k] = Nil
              \/ prompts'[k].crossed \/ prompts'[k].asked = item,
           \/ last' = last
           \/ /\ last'.crossed \/ last'.on = last'.asked
              /\ last'.confirmed \/ last'.saving \/ last'.mode = "pr",
           ModesAgree', NeverStuck'
    PROVE  UIInv'
<1>1. AboutShown'
  <2>1. ASSUME NEW s \in Slots
        PROVE  /\ On(s, AskingKinds)' => bus'[s].crossed \/ bus'[s].asked = item
               /\ On(s, {"mutate"})' => bus'[s].crossed \/ bus'[s].on = bus'[s].asked
    BY DEF UIInv, AboutShown, On, Sound
  <2>2. ASSUME NEW k \in PromptKinds, prompts'[k] # Nil
        PROVE  prompts'[k].crossed \/ prompts'[k].asked = item
    BY <2>2 DEF UIInv, AboutShown
  <2> QED
    BY <2>1, <2>2 DEF AboutShown
<1>2. OnlyInPRMode'
  <2>1. ASSUME NEW s \in Slots, On(s, {"mutate"})'
        PROVE  bus'[s].confirmed \/ bus'[s].saving \/ clientMode = "pr"
    BY <2>1 DEF UIInv, OnlyInPRMode, On, Sound
  <2> QED
    BY <2>1 DEF OnlyInPRMode
<1>3. ActsOnWhatWasShown' /\ UnconfirmedOnlyInPRMode'
  BY DEF UIInv, ActsOnWhatWasShown, UnconfirmedOnlyInPRMode
<1> QED
  BY <1>1, <1>2, <1>3 DEF UIInv

LEMMA NoSaves ==
    ASSUME UIInv, UNCHANGED <<cfgMode, clientMode, overlapped>>,
           \A t \in Slots : \/ bus'[t] = bus[t]
                            \/ ~On(t, SaveKinds) /\ (bus'[t] # Nil => bus'[t].kind \notin SaveKinds)
    PROVE  ModesAgree'
<1> SUFFICES ASSUME ~overlapped PROVE ModesAgree'
  BY DEF ModesAgree
<1>1. ModesAgree
  BY DEF UIInv
<1>2. ASSUME NEW t \in Slots, On(t, SaveKinds) \/ On(t, SaveKinds)' PROVE bus'[t] = bus[t]
  BY <1>2 DEF On
<1>3. ASSUME NEW t \in Slots PROVE On(t, {"saved"}) => On(t, SaveKinds)
  BY DEF On, SaveKinds
<1>4. ASSUME NEW t \in Slots PROVE On(t, {"saved"})' => On(t, SaveKinds)'
  BY DEF On, SaveKinds
<1>5. ASSUME NEW t \in Slots
      PROVE  /\ On(t, {"saved"})' <=> On(t, {"saved"})
             /\ On(t, SaveKinds)' <=> On(t, SaveKinds)
  BY <1>2, <1>3, <1>4 DEF On
<1>6. OneSave'
  BY <1>1, <1>5 DEF ModesAgree, OneSave
<1>7. \A s \in Slots : On(s, {"saved"})' => IF bus'[s].ok THEN clientMode = bus'[s].mode
                                            ELSE cfgMode = clientMode
  BY <1>1, <1>2, <1>3, <1>5 DEF ModesAgree
<1>8. (\A s \in Slots : ~On(s, {"saved"})') => cfgMode = clientMode
  BY <1>1, <1>5 DEF ModesAgree
<1> QED
  BY <1>6, <1>7, <1>8 DEF ModesAgree

(* A step that puts one message, or none, in the place of one message.        *)
LEMMA OneMessage ==
    ASSUME KeyAssumption, UIInv, NEW s \in Slots, NEW x \in Some(Message),
           bus' = [bus EXCEPT ![s] = x],
           ~On(s, SaveKinds), x # Nil => x.kind \notin SaveKinds, Sound(x),
           UNCHANGED <<item, cfgMode, clientMode, overlapped>>,
           active' \in Screens, rows' \in SUBSET Items, toggle' \in UIModes,
           prompts' \in [PromptKinds -> Some(Prompt)],
           \A k \in PromptKinds :
              \/ prompts'[k] = prompts[k] \/ prompts'[k] = Nil
              \/ prompts'[k].crossed \/ prompts'[k].asked = item,
           \/ last' = last
           \/ /\ last'.crossed \/ last'.on = last'.asked
              /\ last'.confirmed \/ last'.saving \/ last'.mode = "pr",
           executing' => \/ x # Nil /\ x.kind \in BusyKinds
                         \/ executing /\ ~On(s, BusyKinds),
           "browse" \in loading' => \/ x # Nil /\ x.kind = "board"
                                    \/ "browse" \in loading /\ ~On(s, {"board"}),
           active' = "me" /\ "me" \in loading' =>
              \/ x # Nil /\ x.kind = "me"
              \/ active = "me" /\ "me" \in loading /\ ~On(s, {"me"})
    PROVE  UIInv'
<1>1. /\ bus' \in [Slots -> Some(Message)] /\ bus'[s] = x
      /\ \A t \in Slots : t # s => bus'[t] = bus[t]
      /\ \A K : x # Nil /\ x.kind \in K => Pending(K)' # {}
      /\ \A K : ~On(s, K) /\ Pending(K) # {} => Pending(K)' # {}
  BY PutMessage DEF UIInv
<1>2. UITypes'
  BY <1>1 DEF UIInv, UITypes, Some
<1>3. ModesAgree'
  BY <1>1, NoSaves
<1>4. NeverStuck'
  <2>1. executing => Pending(BusyKinds) # {}
    BY DEF UIInv, NeverStuck, BusyKinds
  <2>2. /\ "browse" \in loading => Pending({"board"}) # {}
        /\ active = "me" /\ "me" \in loading => Pending({"me"}) # {}
    BY DEF UIInv, NeverStuck
  <2>3. executing' => Pending(BusyKinds)' # {}
    BY <1>1, <2>1
  <2>4. "browse" \in loading' => Pending({"board"})' # {}
    BY <1>1, <2>2
  <2>5. active' = "me" /\ "me" \in loading' => Pending({"me"})' # {}
    BY <1>1, <2>2
  <2> QED
    BY <2>3, <2>4, <2>5 DEF NeverStuck, BusyKinds
<1>5. \A t \in Slots : bus'[t] = bus[t] \/ Sound(bus'[t])
  BY <1>1
<1> QED
  BY <1>2, <1>3, <1>4, <1>5, Keeps

(* Steps that leave the messages alone.                                       *)
LEMMA OnlyPrompts ==
    ASSUME KeyAssumption, UIInv,
           UNCHANGED <<active, rows, loading, item, executing, cfgMode, toggle, clientMode, bus,
                       last, overlapped>>,
           prompts' \in [PromptKinds -> Some(Prompt)],
           \A k \in PromptKinds :
              \/ prompts'[k] = prompts[k] \/ prompts'[k] = Nil
              \/ prompts'[k].crossed \/ prompts'[k].asked = item
    PROVE  UIInv'
<1>1. UITypes'
  BY DEF UIInv, UITypes, Some
<1>2. ModesAgree'
  BY NoSaves
<1>3. NeverStuck'
  BY DEF UIInv, NeverStuck, Pending
<1> QED
  BY <1>1, <1>2, <1>3, Keeps

LEMMA Built ==
    /\ \A k \in {"board", "me", "diff", "create", "delta"} : [kind |-> k] \in Message
    /\ \A k \in {"load", "result"}, i \in Shown : [kind |-> k, of |-> i] \in Message
    /\ \A v \in Screens, i \in Shown : [kind |-> "navigate", view |-> v, to |-> i] \in Message
    /\ \A m \in UIModes : [kind |-> "save", mode |-> m] \in Message
    /\ \A m \in UIModes, b \in BOOLEAN : [kind |-> "saved", mode |-> m, ok |-> b] \in Message
    /\ \A k \in AskingKinds, i \in Shown, b \in BOOLEAN :
          [kind |-> k, asked |-> i, crossed |-> b] \in Message
<1>1. ASSUME NEW k \in {"board", "me", "diff", "create", "delta"} PROVE [kind |-> k] \in Message
  BY DEF Message
<1>2. ASSUME NEW k \in {"load", "result"}, NEW i \in Shown PROVE [kind |-> k, of |-> i] \in Message
  BY DEF Message
<1>3. ASSUME NEW v \in Screens, NEW i \in Shown
      PROVE  [kind |-> "navigate", view |-> v, to |-> i] \in Message
  BY DEF Message
<1>4. ASSUME NEW m \in UIModes PROVE [kind |-> "save", mode |-> m] \in Message
  BY DEF Message
<1>5. ASSUME NEW m \in UIModes, NEW b \in BOOLEAN
      PROVE  [kind |-> "saved", mode |-> m, ok |-> b] \in Message
  BY DEF Message
<1>6. ASSUME NEW k \in AskingKinds, NEW i \in Shown, NEW b \in BOOLEAN
      PROVE  [kind |-> k, asked |-> i, crossed |-> b] \in Message
  BY DEF Message
<1> QED
  BY <1>1, <1>2, <1>3, <1>4, <1>5, <1>6

-----------------------------------------------------------------------------
(* Keys. *)

(* A key that sends a message that asks for no mutation.                      *)
LEMMA KeySends ==
    ASSUME KeyAssumption, UIInv, Pressed, NEW m \in Message, Send(m),
           m.kind \notin SaveKinds \cup AskingKinds \cup {"mutate"},
           UNCHANGED <<prompts, toggle, overlapped>>,
           loading' = loading \/ (m.kind = "board" /\ loading' = loading \cup {"browse"})
    PROVE  UIInv'
<1>1. PICK s \in Slots : bus[s] = Nil /\ bus' = [bus EXCEPT ![s] = m]
  BY DEF Send
<1>2. /\ UNCHANGED <<active, rows, item, executing, cfgMode, clientMode, last>>
      /\ UITypes
  BY DEF Pressed, UIInv
<1>3. m \in Some(Message) /\ \A K : ~On(s, K)
  BY <1>1 DEF Some, On
<1>4. Sound(m) /\ m # Nil /\ m.kind \notin SaveKinds
  BY DEF Sound, KeyAssumption
<1>5. /\ active' \in Screens /\ rows' \in SUBSET Items /\ toggle' \in UIModes
      /\ prompts' \in [PromptKinds -> Some(Prompt)]
  BY <1>2 DEF UITypes, Some
<1>6. /\ executing' => executing /\ ~On(s, BusyKinds)
      /\ "browse" \in loading' => m.kind = "board" \/ ("browse" \in loading /\ ~On(s, {"board"}))
      /\ active' = "me" /\ "me" \in loading' => active = "me" /\ "me" \in loading /\ ~On(s, {"me"})
  BY <1>2, <1>3
<1> HIDE DEF KeyAssumption
<1> QED
  BY <1>1, <1>2, <1>3, <1>4, <1>5, <1>6, OneMessage

LEMMA BrowseOrMeKeyStep ==
    ASSUME KeyAssumption, UIInv, BrowseKey \/ MeKey PROVE UIInv'
<1>1. UITypes /\ Pressed /\ UNCHANGED <<prompts, toggle, overlapped>>
  BY DEF BrowseKey, MeKey, UIInv
<1>2. ASSUME NEW v \in Screens, NEW i \in Shown, Navigate(v, i), UNCHANGED loading PROVE UIInv'
  <2> DEFINE m == [kind |-> "navigate", view |-> v, to |-> i]
  <2>1. m \in Message /\ m.kind = "navigate"
    BY Built
  <2>2. Send(m)
    BY <1>2 DEF Navigate
  <2> HIDE DEF m
  <2>3. m.kind \notin SaveKinds \cup AskingKinds \cup {"mutate"}
    BY <2>1 DEF SaveKinds, AskingKinds
  <2>4. /\ UNCHANGED <<prompts, toggle, overlapped>>
        /\ loading' = loading \/ (m.kind = "board" /\ loading' = loading \cup {"browse"})
    BY <1>1, <1>2
  <2> HIDE DEF KeyAssumption
  <2> QED
    BY <1>1, <2>1, <2>2, <2>3, <2>4, KeySends
<1>3. CASE Send([kind |-> "board"]) /\ loading' = loading \cup {"browse"}
  <2> DEFINE m == [kind |-> "board"]
  <2>1. m \in Message /\ m.kind = "board" /\ Send(m)
    BY <1>3, Built
  <2> HIDE DEF m
  <2>2. m.kind \notin SaveKinds \cup AskingKinds \cup {"mutate"}
    BY <2>1 DEF SaveKinds, AskingKinds
  <2> HIDE DEF KeyAssumption
  <2> QED
    BY <1>1, <1>3, <2>1, <2>2, KeySends
<1>4. \/ \E v \in Screens, i \in Shown : Navigate(v, i) /\ UNCHANGED loading
      \/ Send([kind |-> "board"]) /\ loading' = loading \cup {"browse"}
  BY <1>1 DEF BrowseKey, MeKey, Screens, Shown, UITypes
<1> QED
  BY <1>2, <1>3, <1>4

LEMMA SettingsKeyStep ==
    ASSUME KeyAssumption, UIInv, SettingsKey PROVE UIInv'
<1>1. /\ UITypes /\ Pressed /\ UNCHANGED <<loading, prompts>>
      /\ UNCHANGED <<active, rows, item, executing, cfgMode, clientMode, last>>
  BY DEF SettingsKey, UIInv, Pressed
<1>2. CASE Navigate("browse", Nil) /\ UNCHANGED <<toggle, overlapped>>
  <2> DEFINE m == [kind |-> "navigate", view |-> "browse", to |-> Nil]
  <2>1. m \in Message /\ m.kind = "navigate"
    BY Built DEF Screens, Shown
  <2>2. Send(m)
    BY <1>2 DEF Navigate
  <2> HIDE DEF m
  <2>3. m.kind \notin SaveKinds \cup AskingKinds \cup {"mutate"}
    BY <2>1 DEF SaveKinds, AskingKinds
  <2>4. /\ UNCHANGED <<prompts, toggle, overlapped>>
        /\ loading' = loading \/ (m.kind = "board" /\ loading' = loading \cup {"browse"})
    BY <1>1, <1>2
  <2> HIDE DEF KeyAssumption
  <2> QED
    BY <1>1, <2>1, <2>2, <2>3, <2>4, KeySends
<1>3. CASE /\ toggle' \in UIModes /\ Send([kind |-> "save", mode |-> toggle'])
           /\ overlapped' = (overlapped \/ Pending({"save", "saved"}) # {})
  <2> DEFINE m == [kind |-> "save", mode |-> toggle']
  <2>1. m \in Message /\ m.kind = "save"
    BY <1>3, Built
  <2>2. PICK s \in Slots : bus[s] = Nil /\ bus' = [bus EXCEPT ![s] = m]
    BY <1>3 DEF Send
  <2> HIDE DEF m
  <2>3. m \in Some(Message) /\ m # Nil /\ \A K : ~On(s, K)
    BY <2>1, <2>2 DEF Some, On, KeyAssumption
  <2>4. /\ bus' \in [Slots -> Some(Message)] /\ bus'[s] = m
        /\ \A t \in Slots : t # s => bus'[t] = bus[t]
        /\ \A K : ~On(s, K) /\ Pending(K) # {} => Pending(K)' # {}
    BY <1>1, <2>2, <2>3, PutMessage
  <2>5. UITypes'
    BY <1>1, <1>3, <2>4 DEF UITypes, Some
  <2>6. NeverStuck'
    BY <1>1, <2>3, <2>4 DEF UIInv, NeverStuck
  <2>7. ModesAgree'
    <3> SUFFICES ASSUME ~overlapped' PROVE ModesAgree'
      BY DEF ModesAgree
    <3>1. ~overlapped /\ \A t \in Slots : ~On(t, SaveKinds)
      BY <1>3 DEF Pending, On, SaveKinds
    <3>2. \A t \in Slots : ~On(t, {"saved"})
      BY <3>1 DEF On, SaveKinds
    <3>3. cfgMode = clientMode
      BY <3>1, <3>2 DEF UIInv, ModesAgree
    <3>4. \A t \in Slots : t # s => ~On(t, SaveKinds)'
      BY <2>4, <3>1 DEF On
    <3>5. \A t \in Slots : ~On(t, {"saved"})'
      BY <2>1, <2>4, <3>2 DEF On
    <3>6. OneSave'
      BY <3>4 DEF OneSave
    <3> QED
      BY <1>1, <3>3, <3>5, <3>6 DEF ModesAgree
  <2>8. Sound(m)
    BY <2>1 DEF Sound, AskingKinds
  <2>9. \A t \in Slots : bus'[t] = bus[t] \/ Sound(bus'[t])
    BY <2>4, <2>8
  <2> QED
    BY <1>1, <2>5, <2>6, <2>7, <2>9, Keeps
<1> QED
  BY <1>1, <1>2, <1>3 DEF SettingsKey, UIModes, UITypes

(* A key of the detail view that sends a message, and may open or close a     *)
(* prompt.                                                                    *)
LEMMA DetailSends ==
    ASSUME KeyAssumption, UIInv, Pressed, NEW m \in Message, Send(m), Sound(m),
           m.kind \notin SaveKinds, UNCHANGED <<loading, toggle, overlapped>>,
           prompts' \in [PromptKinds -> Some(Prompt)],
           \A k \in PromptKinds :
              \/ prompts'[k] = prompts[k] \/ prompts'[k] = Nil
              \/ prompts'[k].crossed \/ prompts'[k].asked = item
    PROVE  UIInv'
<1>1. PICK s \in Slots : bus[s] = Nil /\ bus' = [bus EXCEPT ![s] = m]
  BY DEF Send
<1>2. /\ UNCHANGED <<active, rows, item, executing, cfgMode, clientMode, last>>
      /\ UITypes
  BY DEF Pressed, UIInv
<1>3. m \in Some(Message) /\ \A K : ~On(s, K)
  BY <1>1 DEF Some, On
<1>4. active' \in Screens /\ rows' \in SUBSET Items /\ toggle' \in UIModes
  BY <1>2 DEF UITypes
<1>5. /\ executing' => executing /\ ~On(s, BusyKinds)
      /\ "browse" \in loading' => "browse" \in loading /\ ~On(s, {"board"})
      /\ active' = "me" /\ "me" \in loading' => active = "me" /\ "me" \in loading /\ ~On(s, {"me"})
  BY <1>2, <1>3
<1> HIDE DEF KeyAssumption
<1> QED
  BY <1>1, <1>2, <1>3, <1>4, <1>5, OneMessage

(* Asking in the name of a prompt, or of what is shown.                       *)
LEMMA AskSound ==
    ASSUME NEW k \in AskingKinds, NEW p \in Prompt, p.crossed \/ p.asked = item
    PROVE  LET m == [kind |-> k, asked |-> p.asked, crossed |-> p.crossed] IN
           m \in Message /\ Sound(m) /\ m.kind \notin SaveKinds
<1>1. p.asked \in Shown /\ p.crossed \in BOOLEAN
  BY DEF Prompt
<1> DEFINE m == [kind |-> k, asked |-> p.asked, crossed |-> p.crossed]
<1>2. m \in Message
  BY <1>1, Built
<1>3. m.kind = k /\ m.asked = p.asked /\ m.crossed = p.crossed
  OBVIOUS
<1> HIDE DEF m
<1>4. Sound(m) /\ m.kind \notin SaveKinds
  BY <1>3 DEF Sound, AskingKinds, SaveKinds
<1> QED
  BY <1>2, <1>4 DEF m

LEMMA PromptSet ==
    ASSUME UITypes, NEW k \in PromptKinds, NEW p \in Some(Prompt),
           p # Nil => p.crossed \/ p.asked = item, prompts' = [prompts EXCEPT ![k] = p]
    PROVE  /\ prompts' \in [PromptKinds -> Some(Prompt)]
           /\ \A h \in PromptKinds :
                 \/ prompts'[h] = prompts[h] \/ prompts'[h] = Nil
                 \/ prompts'[h].crossed \/ prompts'[h].asked = item
<1>1. prompts' \in [PromptKinds -> Some(Prompt)]
  BY DEF UITypes, Some
<1>2. \A h \in PromptKinds : prompts'[h] = IF h = k THEN p ELSE prompts[h]
  BY DEF UITypes
<1> QED
  BY <1>1, <1>2

LEMMA PromptsStay ==
    ASSUME UITypes, prompts' = prompts
    PROVE  /\ prompts' \in [PromptKinds -> Some(Prompt)]
           /\ \A h \in PromptKinds :
                 \/ prompts'[h] = prompts[h] \/ prompts'[h] = Nil
                 \/ prompts'[h].crossed \/ prompts'[h].asked = item
BY DEF UITypes, Some

LEMMA DetailKeyStep ==
    ASSUME KeyAssumption, UIInv, DetailKey PROVE UIInv'
<1>1. /\ UITypes /\ Pressed /\ UNCHANGED <<loading, toggle, overlapped>>
      /\ UNCHANGED <<active, rows, item, executing, cfgMode, clientMode, last>>
  BY DEF DetailKey, Pressed, UIInv
<1>2. Here \in Prompt /\ (Here.crossed \/ Here.asked = item) /\ Here \in Some(Prompt) /\ Here # Nil
  <2>1. Here \in Prompt
    BY <1>1 DEF Here, Prompt, UITypes
  <2>2. Here.asked = item
    BY DEF Here
  <2> QED
    BY <2>1, <2>2 DEF Some, KeyAssumption
<1>3. CASE Navigate("browse", Nil) /\ UNCHANGED prompts
  <2> DEFINE m == [kind |-> "navigate", view |-> "browse", to |-> Nil]
  <2>1. m \in Message /\ m.kind = "navigate"
    BY Built DEF Screens, Shown
  <2>2. Send(m)
    BY <1>3 DEF Navigate
  <2> HIDE DEF m
  <2>3. Sound(m) /\ m.kind \notin SaveKinds
    BY <2>1 DEF SaveKinds, AskingKinds, Sound
  <2> HIDE DEF KeyAssumption
  <2> QED
    BY <1>1, <1>3, <2>1, <2>2, <2>3, PromptsStay, DetailSends
<1>4. ASSUME NEW k \in {"request", "delta request"}, SendFor(k, Here), UNCHANGED prompts
      PROVE  UIInv'
  <2> DEFINE m == [kind |-> k, asked |-> Here.asked, crossed |-> Here.crossed]
  <2>1. k \in AskingKinds
    BY DEF AskingKinds
  <2>2. m \in Message /\ Sound(m) /\ m.kind \notin SaveKinds
    BY <1>2, <2>1, AskSound
  <2>3. Send(m)
    BY <1>4 DEF SendFor
  <2> HIDE DEF m, KeyAssumption
  <2> QED
    BY <1>1, <1>4, <2>2, <2>3, PromptsStay, DetailSends
<1>5. ASSUME NEW k \in PromptKinds, prompts' = [prompts EXCEPT ![k] = Here]
      PROVE  /\ prompts' \in [PromptKinds -> Some(Prompt)]
             /\ \A h \in PromptKinds :
                   \/ prompts'[h] = prompts[h] \/ prompts'[h] = Nil
                   \/ prompts'[h].crossed \/ prompts'[h].asked = item
  BY <1>1, <1>2, <1>5, PromptSet
<1>6. ASSUME NEW k \in PromptKinds, prompts' = [prompts EXCEPT ![k] = Here], UNCHANGED bus
      PROVE  UIInv'
  <2> HIDE DEF KeyAssumption
  <2> QED
    BY <1>1, <1>5, <1>6, OnlyPrompts
<1>7. CASE prompts' = [prompts EXCEPT !["submit"] = Here] /\ Send([kind |-> "diff"])
  <2> DEFINE m == [kind |-> "diff"]
  <2>1. m \in Message /\ m.kind = "diff" /\ Send(m)
    BY <1>7, Built
  <2> HIDE DEF m
  <2>2. Sound(m) /\ m.kind \notin SaveKinds
    BY <2>1 DEF SaveKinds, AskingKinds, Sound
  <2>3. /\ prompts' \in [PromptKinds -> Some(Prompt)]
        /\ \A h \in PromptKinds :
              \/ prompts'[h] = prompts[h] \/ prompts'[h] = Nil
              \/ prompts'[h].crossed \/ prompts'[h].asked = item
    BY <1>5, <1>7 DEF PromptKinds
  <2> HIDE DEF KeyAssumption
  <2> QED
    BY <1>1, <2>1, <2>2, <2>3, DetailSends
<1> QED
  BY <1>3, <1>4, <1>6, <1>7 DEF DetailKey, PromptKinds

LEMMA ConfirmOrCancelStep ==
    ASSUME KeyAssumption, UIInv, NEW k \in PromptKinds, CancelKey(k) \/ ConfirmKey(k)
    PROVE  UIInv'
<1>1. /\ UITypes /\ Pressed /\ UNCHANGED <<loading, toggle, overlapped>>
      /\ UNCHANGED <<active, rows, item, executing, cfgMode, clientMode, last>> /\ Foremost(k)
  BY DEF CancelKey, ConfirmKey, Pressed, UIInv
<1>2. Nil \in Some(Prompt)
  BY DEF Some
<1>3. prompts' = [prompts EXCEPT ![k] = Nil] \/ prompts' = prompts
  BY DEF CancelKey, ConfirmKey
<1>4. /\ prompts' \in [PromptKinds -> Some(Prompt)]
      /\ \A h \in PromptKinds :
            \/ prompts'[h] = prompts[h] \/ prompts'[h] = Nil
            \/ prompts'[h].crossed \/ prompts'[h].asked = item
  BY <1>1, <1>2, <1>3, PromptSet, PromptsStay
<1>5. CASE CancelKey(k)
  <2>1. UNCHANGED bus
    BY <1>5 DEF CancelKey
  <2> HIDE DEF KeyAssumption
  <2> QED
    BY <1>1, <1>4, <2>1, OnlyPrompts
<1>6. CASE ConfirmKey(k)
  <2> DEFINE p == prompts[k]
             h == CASE k = "action" -> "confirmed" [] k = "delta" -> "delta confirmed" [] OTHER -> k
             m == [kind |-> h, asked |-> p.asked, crossed |-> p.crossed]
  <2>1. p # Nil
    BY <1>1 DEF Foremost
  <2>2. p \in Prompt /\ (p.crossed \/ p.asked = item)
    BY <1>1, <2>1 DEF UITypes, UIInv, AboutShown
  <2>3. h \in AskingKinds
    BY DEF PromptKinds, AskingKinds
  <2>4. Send(m)
    BY <1>6 DEF ConfirmKey, SendFor
  <2> HIDE DEF p, h
  <2>5. m \in Message /\ Sound(m) /\ m.kind \notin SaveKinds
    BY <2>2, <2>3, AskSound
  <2> HIDE DEF m, KeyAssumption
  <2> QED
    BY <1>1, <1>4, <2>4, <2>5, DetailSends
<1> QED
  BY <1>5, <1>6

-----------------------------------------------------------------------------
(* Messages that Update handles. *)

LEMMA Taken ==
    ASSUME UITypes, NEW K, NEW s \in Pending(K)
    PROVE  /\ s \in Slots /\ bus[s] \in Message /\ bus[s] # Nil /\ bus[s].kind \in K
           /\ \A L : K \cap L = {} => ~On(s, L)
BY DEF Pending, UITypes, On

(* A message about what is loaded, or only text.                              *)
LEMMA LoadedStep ==
    ASSUME KeyAssumption, UIInv, NEW s,
           NavigateMsg(s) \/ BrowseDataMsg(s) \/ MeDataMsg(s) \/ SubmitDiffMsg(s)
    PROVE  UIInv'
<1>1. /\ UITypes /\ Nil \in Some(Message) /\ Sound(Nil)
      /\ UNCHANGED <<item, prompts, executing, cfgMode, clientMode, last, overlapped>>
  BY DEF NavigateMsg, BrowseDataMsg, MeDataMsg, SubmitDiffMsg, UpdateUnchanged, UIInv, Some, Sound
<1>2. /\ prompts' \in [PromptKinds -> Some(Prompt)]
      /\ \A h \in PromptKinds :
            \/ prompts'[h] = prompts[h] \/ prompts'[h] = Nil
            \/ prompts'[h].crossed \/ prompts'[h].asked = item
  BY <1>1, PromptsStay
<1>3. CASE NavigateMsg(s)
  <2> DEFINE view == bus[s].view
             x == CASE view = "detail" -> [kind |-> "load", of |-> bus[s].to]
                    [] view = "browse" -> [kind |-> "board"]
                    [] view = "me" -> [kind |-> "me"]
                    [] view = "settings" -> Nil
  <2>1. s \in Pending({"navigate"})
    BY <1>3 DEF NavigateMsg
  <2>2. /\ s \in Slots /\ bus[s] \in Message /\ bus[s].kind = "navigate"
        /\ \A L : "navigate" \notin L => ~On(s, L)
    BY <1>1, <2>1, Taken
  <2>3. view \in Screens /\ bus[s].to \in Shown
    BY <2>2, MessageFields
  <2>4. /\ active' = view /\ bus' = [bus EXCEPT ![s] = x]
        /\ loading' = IF view = "me" THEN loading \cup {"me"} ELSE loading
        /\ toggle' = IF view = "settings" THEN cfgMode ELSE toggle
        /\ UNCHANGED rows
    BY <1>3 DEF NavigateMsg, Replace
  <2>5. /\ x \in Some(Message) /\ Sound(x)
        /\ x # Nil => x.kind \notin SaveKinds
        /\ view = "me" => x # Nil /\ x.kind = "me"
    <3>1. [kind |-> "load", of |-> bus[s].to] \in Message
      BY <2>3, Built
    <3>2. [kind |-> "board"] \in Message /\ [kind |-> "me"] \in Message
      BY Built
    <3>3. CASE view = "detail"
      <4>1. x = [kind |-> "load", of |-> bus[s].to]
        BY <3>3
      <4> HIDE DEF x
      <4>2. x \in Message /\ x.kind = "load"
        BY <3>1, <4>1
      <4> QED
        BY <3>3, <4>2 DEF Some, Sound, AskingKinds, SaveKinds
    <3>4. CASE view = "browse"
      <4>1. x = [kind |-> "board"]
        BY <3>4
      <4> HIDE DEF x
      <4>2. x \in Message /\ x.kind = "board"
        BY <3>2, <4>1
      <4> QED
        BY <3>4, <4>2 DEF Some, Sound, AskingKinds, SaveKinds
    <3>5. CASE view = "me"
      <4>1. x = [kind |-> "me"]
        BY <3>5
      <4> HIDE DEF x
      <4>2. x \in Message /\ x.kind = "me"
        BY <3>2, <4>1
      <4> QED
        BY <4>2 DEF Some, Sound, AskingKinds, SaveKinds, KeyAssumption
    <3>6. CASE view = "settings"
      <4>1. x = Nil
        BY <3>6
      <4> HIDE DEF x
      <4> QED
        BY <1>1, <3>6, <4>1
    <3> QED
      BY <2>3, <3>3, <3>4, <3>5, <3>6 DEF Screens
  <2> HIDE DEF x, view
  <2>6. ~On(s, SaveKinds) /\ ~On(s, BusyKinds) /\ ~On(s, {"board"}) /\ ~On(s, {"me"})
    BY <2>2 DEF SaveKinds, BusyKinds
  <2>7. active' \in Screens /\ rows' \in SUBSET Items /\ toggle' \in UIModes
    BY <1>1, <2>3, <2>4 DEF UITypes
  <2>8. /\ executing' => executing /\ ~On(s, BusyKinds)
        /\ "browse" \in loading' => "browse" \in loading /\ ~On(s, {"board"})
        /\ active' = "me" /\ "me" \in loading' => x # Nil /\ x.kind = "me"
    BY <1>1, <2>4, <2>5, <2>6
  <2> HIDE DEF KeyAssumption
  <2> QED
    BY <1>1, <1>2, <2>2, <2>4, <2>5, <2>6, <2>7, <2>8, OneMessage
<1>4. ASSUME NEW k \in {"board", "me", "diff"}, s \in Pending({k}), bus' = [bus EXCEPT ![s] = Nil],
             rows' \in SUBSET Items, UNCHANGED <<active, toggle>>, loading' \subseteq loading,
             k = "board" => "browse" \notin loading', k = "me" => "me" \notin loading'
      PROVE  UIInv'
  <2>1. s \in Slots /\ \A L : k \notin L => ~On(s, L)
    BY <1>1, <1>4, Taken
  <2>2. /\ ~On(s, SaveKinds) /\ ~On(s, BusyKinds)
        /\ k # "board" => ~On(s, {"board"})
        /\ k # "me" => ~On(s, {"me"})
    BY <2>1 DEF SaveKinds, BusyKinds
  <2>3. active' \in Screens /\ rows' \in SUBSET Items /\ toggle' \in UIModes
    BY <1>1, <1>4 DEF UITypes
  <2>4. /\ executing' => executing /\ ~On(s, BusyKinds)
        /\ "browse" \in loading' => "browse" \in loading /\ ~On(s, {"board"})
        /\ active' = "me" /\ "me" \in loading' => active = "me" /\ "me" \in loading /\ ~On(s, {"me"})
    BY <1>1, <1>4, <2>2
  <2> HIDE DEF KeyAssumption
  <2> QED
    BY <1>1, <1>2, <1>4, <2>1, <2>2, <2>3, <2>4, OneMessage
<1>5. CASE BrowseDataMsg(s)
  <2>1. /\ s \in Pending({"board"}) /\ bus' = [bus EXCEPT ![s] = Nil] /\ rows' \in SUBSET Items
        /\ UNCHANGED <<active, toggle>> /\ loading' = loading \ {"browse"}
    BY <1>5 DEF BrowseDataMsg, Replace
  <2> QED
    BY <1>4, <2>1
<1>6. CASE MeDataMsg(s)
  <2>1. /\ s \in Pending({"me"}) /\ bus' = [bus EXCEPT ![s] = Nil] /\ rows' \in SUBSET Items
        /\ UNCHANGED <<active, toggle>> /\ loading' = loading \ {"me"}
    BY <1>1, <1>6 DEF MeDataMsg, Replace, UITypes
  <2> QED
    BY <1>4, <2>1
<1>7. CASE SubmitDiffMsg(s)
  <2>1. /\ s \in Pending({"diff"}) /\ bus' = [bus EXCEPT ![s] = Nil] /\ rows' \in SUBSET Items
        /\ UNCHANGED <<active, toggle, loading>>
    BY <1>1, <1>7 DEF SubmitDiffMsg, Replace, UITypes
  <2> QED
    BY <1>4, <2>1
<1> QED
  BY <1>3, <1>5, <1>6, <1>7

LEMMA Mutating ==
    ASSUME NEW i \in Shown, NEW a \in Shown, NEW c \in BOOLEAN, NEW b \in BOOLEAN,
           NEW v \in BOOLEAN
    PROVE  LET m == [kind |-> "mutate", on |-> i, asked |-> a, crossed |-> c,
                     confirmed |-> b, saving |-> v]
           IN  /\ m \in Message /\ m.kind = "mutate" /\ m.on = i /\ m.asked = a
               /\ m.crossed = c /\ m.confirmed = b /\ m.saving = v
BY DEF Message

LEMMA MutationSound ==
    ASSUME UIInv, NEW r \in Message, r.kind \in AskingKinds, Sound(r), r # Nil,
           NEW b \in BOOLEAN, b \/ cfgMode = "pr"
    PROVE  /\ Mutation(r, b) \in Message /\ Sound(Mutation(r, b))
           /\ Mutation(r, b).kind = "mutate"
<1> DEFINE m == Mutation(r, b)
           v == overlapped \/ Pending({"save", "saved"}) # {}
<1>1. r.asked \in Shown /\ r.crossed \in BOOLEAN /\ (r.crossed \/ r.asked = item)
  BY MessageFields DEF Sound
<1>2. v \/ cfgMode = clientMode
  <2> SUFFICES ASSUME ~overlapped, Pending({"save", "saved"}) = {} PROVE cfgMode = clientMode
    OBVIOUS
  <2>1. \A s \in Slots : ~On(s, {"saved"})
    BY DEF Pending, On
  <2> QED
    BY <2>1 DEF UIInv, ModesAgree
<1>3. v \in BOOLEAN /\ item \in Shown
  BY DEF UIInv, UITypes
<1>4. m = [kind |-> "mutate", on |-> item, asked |-> r.asked, crossed |-> r.crossed,
           confirmed |-> b, saving |-> v]
  BY DEF Mutation
<1> HIDE DEF m, v
<1>5. /\ m \in Message /\ m.kind = "mutate" /\ m.on = item /\ m.asked = r.asked
      /\ m.crossed = r.crossed /\ m.confirmed = b /\ m.saving = v
  BY <1>1, <1>3, <1>4, Mutating
<1>6. Sound(m)
  BY <1>1, <1>2, <1>5 DEF Sound, AskingKinds
<1> QED
  BY <1>5, <1>6 DEF m

(* What is on its way is sound.                                               *)
LEMMA MessageUnderWay ==
    ASSUME UIInv, NEW s \in Slots PROVE Sound(bus[s])
BY DEF UIInv, AboutShown, OnlyInPRMode, Sound, On

(* Requests about what is shown, and results that change nothing of it.       *)
LEMMA HandledStep ==
    ASSUME KeyAssumption, UIInv, NEW K, NEW s \in Pending(K), NEW x \in Some(Message),
           bus' = [bus EXCEPT ![s] = x], Sound(x), K \cap {"save", "saved", "board", "me"} = {},
           x # Nil => x.kind \notin SaveKinds,
           UNCHANGED <<rows, loading, item, cfgMode, toggle, clientMode, overlapped>>,
           active' \in {active, "browse"},
           NEW k \in PromptKinds, NEW p \in Some(Prompt), p # Nil => p.crossed \/ p.asked = item,
           prompts' = prompts \/ prompts' = [prompts EXCEPT ![k] = p],
           \/ last' = last
           \/ /\ last'.crossed \/ last'.on = last'.asked
              /\ last'.confirmed \/ last'.saving \/ last'.mode = "pr",
           executing' => \/ x # Nil /\ x.kind \in BusyKinds
                         \/ executing /\ K \cap BusyKinds = {}
    PROVE  UIInv'
<1>1. /\ UITypes /\ s \in Slots /\ \A L : K \cap L = {} => ~On(s, L)
  BY Taken DEF UIInv
<1>2. /\ ~On(s, SaveKinds) /\ ~On(s, {"board"}) /\ ~On(s, {"me"})
      /\ K \cap BusyKinds = {} => ~On(s, BusyKinds)
  BY <1>1 DEF SaveKinds
<1>3. /\ prompts' \in [PromptKinds -> Some(Prompt)]
      /\ \A h \in PromptKinds :
            \/ prompts'[h] = prompts[h] \/ prompts'[h] = Nil
            \/ prompts'[h].crossed \/ prompts'[h].asked = item
  BY <1>1, PromptSet, PromptsStay
<1>4. active' \in Screens /\ rows' \in SUBSET Items /\ toggle' \in UIModes
  BY <1>1 DEF UITypes, Screens
<1>5. /\ executing' => \/ x # Nil /\ x.kind \in BusyKinds
                       \/ executing /\ ~On(s, BusyKinds)
      /\ "browse" \in loading' => "browse" \in loading /\ ~On(s, {"board"})
      /\ active' = "me" /\ "me" \in loading' => active = "me" /\ "me" \in loading /\ ~On(s, {"me"})
  BY <1>2
<1> HIDE DEF KeyAssumption
<1> QED
  BY <1>1, <1>2, <1>3, <1>4, <1>5, OneMessage

LEMMA NothingSent == Nil \in Some(Message) /\ Nil \in Some(Prompt) /\ Sound(Nil)
BY DEF Some, Sound

LEMMA ActionRequestStep ==
    ASSUME KeyAssumption, UIInv, NEW s, ActionRequestMsg(s) PROVE UIInv'
<1> DEFINE r == bus[s]
           K == {"request"}
           m == Mutation(r, FALSE)
           p == [asked |-> r.asked, crossed |-> r.crossed]
<1>1. /\ UITypes /\ s \in Pending(K)
      /\ UNCHANGED <<active, rows, loading, item, cfgMode, toggle, clientMode, last, overlapped>>
  BY DEF ActionRequestMsg, UpdateUnchanged, UIInv
<1>2. s \in Slots /\ r \in Message /\ r # Nil /\ r.kind = "request" /\ r.kind \in AskingKinds
  BY <1>1, Taken DEF AskingKinds
<1>3. Sound(r) /\ r.asked \in Shown /\ r.crossed \in BOOLEAN /\ (r.crossed \/ r.asked = item)
  BY <1>2, MessageUnderWay, MessageFields DEF Sound
<1>4. K \cap {"save", "saved", "board", "me"} = {} /\ K \cap BusyKinds = {} /\ "action" \in PromptKinds
  BY DEF BusyKinds, PromptKinds
<1>5. CASE /\ cfgMode = "pr" /\ executing' = TRUE /\ bus' = [bus EXCEPT ![s] = m] /\ UNCHANGED prompts
  <2> HIDE DEF r
  <2>1. m \in Message /\ Sound(m) /\ m.kind = "mutate"
    BY <1>2, <1>3, <1>5, MutationSound
  <2>2. /\ m \in Some(Message) /\ m # Nil
        /\ m.kind \in BusyKinds /\ m.kind \notin SaveKinds
    BY <2>1 DEF Some, BusyKinds, SaveKinds, KeyAssumption
  <2> HIDE DEF m, K, KeyAssumption
  <2> QED
    BY <1>1, <1>4, <1>5, <2>1, <2>2, NothingSent, HandledStep
<1>6. CASE /\ bus' = [bus EXCEPT ![s] = Nil] /\ UNCHANGED executing
           /\ prompts' = prompts \/ prompts' = [prompts EXCEPT !["action"] = p]
  <2>1. p \in Prompt /\ p.crossed = r.crossed /\ p.asked = r.asked
    BY <1>3 DEF Prompt
  <2>2. p \in Some(Prompt) /\ (p.crossed \/ p.asked = item)
    BY <1>3, <2>1 DEF Some
  <2> HIDE DEF p, r, K, KeyAssumption
  <2> QED
    BY <1>1, <1>4, <1>6, <2>2, NothingSent, HandledStep
<1> QED
  BY <1>5, <1>6 DEF ActionRequestMsg, Replace

LEMMA MutateStep ==
    ASSUME KeyAssumption, UIInv, NEW s, MutateMsg(s) PROVE UIInv'
<1> DEFINE r == bus[s]
           K == {"confirmed", "done", "accept"}
           m == Mutation(r, TRUE)
           k == IF r.kind = "confirmed" THEN "action" ELSE r.kind
<1>1. /\ UITypes /\ s \in Pending(K)
      /\ UNCHANGED <<active, rows, loading, item, cfgMode, toggle, clientMode, last, overlapped>>
  BY DEF MutateMsg, UpdateUnchanged, UIInv
<1>2. s \in Slots /\ r \in Message /\ r # Nil /\ r.kind \in K /\ r.kind \in AskingKinds
  BY <1>1, Taken DEF AskingKinds
<1>3. Sound(r)
  BY <1>2, MessageUnderWay
<1>4. K \cap {"save", "saved", "board", "me"} = {} /\ K \cap BusyKinds = {} /\ k \in PromptKinds
  BY <1>2 DEF BusyKinds, PromptKinds
<1>5. CASE bus' = [bus EXCEPT ![s] = Nil] /\ UNCHANGED <<prompts, executing>>
  <2> HIDE DEF r, K, k, KeyAssumption
  <2> QED
    BY <1>1, <1>4, <1>5, NothingSent, HandledStep
<1>6. CASE /\ executing' = TRUE /\ bus' = [bus EXCEPT ![s] = m]
           /\ prompts' = [prompts EXCEPT ![k] = Nil]
  <2> HIDE DEF r, k
  <2>1. m \in Message /\ Sound(m) /\ m.kind = "mutate"
    BY <1>2, <1>3, MutationSound
  <2>2. m \in Some(Message) /\ m # Nil /\ m.kind \in BusyKinds /\ m.kind \notin SaveKinds
    BY <2>1 DEF Some, BusyKinds, SaveKinds, KeyAssumption
  <2> HIDE DEF m, K, KeyAssumption
  <2> QED
    BY <1>1, <1>4, <1>6, <2>1, <2>2, NothingSent, HandledStep
<1> QED
  BY <1>5, <1>6 DEF MutateMsg, Replace

(* The mutation runs, and is what `last` tells of it.                         *)
LEMMA RunMutationStep ==
    ASSUME KeyAssumption, UIInv, NEW s, RunMutation(s) PROVE UIInv'
<1> DEFINE r == bus[s]
           K == {"mutate"}
           x == [kind |-> "result", of |-> r.on]
<1>1. /\ UITypes /\ s \in Pending(K) /\ bus' = [bus EXCEPT ![s] = x]
      /\ UNCHANGED <<active, rows, loading, item, prompts, executing, cfgMode, toggle, clientMode,
                     overlapped>>
  BY DEF RunMutation, Replace, UIInv
<1>2. /\ last'.on = r.on /\ last'.asked = r.asked /\ last'.crossed = r.crossed
      /\ last'.confirmed = r.confirmed /\ last'.saving = r.saving /\ last'.mode = clientMode
  BY DEF RunMutation
<1>3. s \in Slots /\ r \in Message /\ r # Nil /\ r.kind = "mutate"
  BY <1>1, Taken
<1>4. Sound(r) /\ r.on \in Shown
  BY <1>3, MessageUnderWay, MessageFields
<1>5. x \in Message /\ x.kind = "result"
  BY <1>4, Built
<1> HIDE DEF x, r
<1>6. x \in Some(Message) /\ x # Nil /\ x.kind \in BusyKinds /\ x.kind \notin SaveKinds /\ Sound(x)
  BY <1>5 DEF Some, BusyKinds, SaveKinds, KeyAssumption, Sound, AskingKinds
<1>7. /\ last'.crossed \/ last'.on = last'.asked
      /\ last'.confirmed \/ last'.saving \/ last'.mode = "pr"
  BY <1>2, <1>3, <1>4 DEF Sound
<1>8. K \cap {"save", "saved", "board", "me"} = {} /\ "action" \in PromptKinds
  BY DEF PromptKinds
<1> HIDE DEF K, KeyAssumption
<1> QED
  BY <1>1, <1>6, <1>7, <1>8, NothingSent, HandledStep

LEMMA DeltaRequestStep ==
    ASSUME KeyAssumption, UIInv, NEW s, DeltaRequestMsg(s) PROVE UIInv'
<1> DEFINE r == bus[s]
           K == {"delta request"}
           p == [asked |-> r.asked, crossed |-> r.crossed]
<1>1. /\ UITypes /\ s \in Pending(K) /\ bus' = [bus EXCEPT ![s] = Nil]
      /\ prompts' = [prompts EXCEPT !["delta"] = p]
      /\ UNCHANGED <<active, rows, loading, item, executing, cfgMode, toggle, clientMode, last,
                     overlapped>>
  BY DEF DeltaRequestMsg, UpdateUnchanged, UIInv, Replace
<1>2. s \in Slots /\ r \in Message /\ r # Nil /\ r.kind = "delta request" /\ r.kind \in AskingKinds
  BY <1>1, Taken DEF AskingKinds
<1>3. Sound(r) /\ r.asked \in Shown /\ r.crossed \in BOOLEAN /\ (r.crossed \/ r.asked = item)
  BY <1>2, MessageUnderWay, MessageFields DEF Sound
<1>4. K \cap {"save", "saved", "board", "me"} = {} /\ K \cap BusyKinds = {} /\ "delta" \in PromptKinds
  BY DEF BusyKinds, PromptKinds
<1>5. p \in Prompt /\ p.crossed = r.crossed /\ p.asked = r.asked
  BY <1>3 DEF Prompt
<1>6. p \in Some(Prompt) /\ (p.crossed \/ p.asked = item)
  BY <1>3, <1>5 DEF Some
<1> HIDE DEF p, r, K, KeyAssumption
<1> QED
  BY <1>1, <1>4, <1>6, NothingSent, HandledStep

LEMMA DeltaConfirmedStep ==
    ASSUME KeyAssumption, UIInv, NEW s, DeltaConfirmedMsg(s) PROVE UIInv'
<1> DEFINE r == bus[s]
           K == {"delta confirmed"}
           x == [kind |-> "delta"]
<1>1. /\ UITypes /\ s \in Pending(K) /\ bus' = [bus EXCEPT ![s] = x]
      /\ prompts' = [prompts EXCEPT !["delta"] = Nil] /\ executing' = TRUE
      /\ UNCHANGED <<active, rows, loading, item, cfgMode, toggle, clientMode, overlapped>>
  BY DEF DeltaConfirmedMsg, UIInv, Replace
<1>2. /\ last'.on = item /\ last'.asked = r.asked /\ last'.crossed = r.crossed
      /\ last'.confirmed = TRUE
  BY DEF DeltaConfirmedMsg
<1>3. s \in Slots /\ r \in Message /\ r # Nil /\ r.kind = "delta confirmed" /\ r.kind \in AskingKinds
  BY <1>1, Taken DEF AskingKinds
<1>4. r.crossed \/ r.asked = item
  BY <1>3, MessageUnderWay DEF Sound
<1>5. x \in Message /\ x.kind = "delta"
  BY Built
<1> HIDE DEF x, r
<1>6. x \in Some(Message) /\ x # Nil /\ x.kind \in BusyKinds /\ x.kind \notin SaveKinds /\ Sound(x)
  BY <1>5 DEF Some, BusyKinds, SaveKinds, KeyAssumption, Sound, AskingKinds
<1>7. K \cap {"save", "saved", "board", "me"} = {} /\ "delta" \in PromptKinds
  BY DEF PromptKinds
<1>8. /\ last'.crossed \/ last'.on = last'.asked
      /\ last'.confirmed \/ last'.saving \/ last'.mode = "pr"
  BY <1>2, <1>4
<1> HIDE DEF K, KeyAssumption
<1> QED
  BY <1>1, <1>6, <1>7, <1>8, NothingSent, HandledStep

LEMMA DeltaResultStep ==
    ASSUME KeyAssumption, UIInv, NEW s, DeltaResultMsg(s) PROVE UIInv'
<1> DEFINE K == {"delta"}
<1>1. /\ UITypes /\ s \in Pending(K) /\ executing' = FALSE
      /\ UNCHANGED <<rows, loading, item, prompts, cfgMode, toggle, clientMode, last, overlapped>>
  BY DEF DeltaResultMsg, DeltaFailed, UpdateUnchanged, UIInv
<1>2. PICK x : /\ bus' = [bus EXCEPT ![s] = x]
               /\ x = Nil \/ (x \in Message /\ x.kind \in {"board", "load"})
  <2>1. [kind |-> "board"] \in Message /\ [kind |-> "load", of |-> item] \in Message
    BY <1>1, Built DEF UITypes
  <2> QED
    BY <2>1 DEF DeltaResultMsg, DeltaFailed, Replace
<1>3. active' \in {active, "browse"}
  BY DEF DeltaResultMsg, DeltaFailed
<1>4. x \in Some(Message) /\ (x # Nil => x.kind \notin SaveKinds) /\ Sound(x)
  BY <1>2 DEF Some, SaveKinds, Sound, AskingKinds
<1>5. K \cap {"save", "saved", "board", "me"} = {} /\ "delta" \in PromptKinds
  BY DEF PromptKinds
<1> HIDE DEF K, KeyAssumption
<1> QED
  BY <1>1, <1>2, <1>3, <1>4, <1>5, NothingSent, HandledStep

LEMMA SubmitStep ==
    ASSUME KeyAssumption, UIInv, NEW s, SubmitConfirmMsg(s) \/ SubmitResultMsg(s) PROVE UIInv'
<1>1. /\ UITypes
      /\ UNCHANGED <<active, rows, loading, item, cfgMode, toggle, clientMode, last, overlapped>>
  BY DEF SubmitConfirmMsg, SubmitResultMsg, UpdateUnchanged, UIInv
<1> DEFINE Handles(k, x) ==
             /\ s \in Pending({k}) /\ bus' = [bus EXCEPT ![s] = x]
             /\ prompts' = prompts \/ prompts' = [prompts EXCEPT !["submit"] = Nil]
             /\ \/ x = Nil /\ (executing' => executing /\ k = "submit")
                \/ x = [kind |-> "create"]
<1>2. PICK k \in {"submit", "create"} : \E x : Handles(k, x)
  <2>1. \E k \in {"submit", "create"} : \E x : Handles(k, x)
    BY DEF SubmitConfirmMsg, SubmitResultMsg, Replace
  <2> QED
    BY <2>1
<1>3. PICK x : Handles(k, x)
  BY <1>2
<1>4. x = Nil \/ (x \in Message /\ x.kind = "create")
  BY <1>3, Built
<1> DEFINE K == {k}
<1>5. /\ x \in Some(Message) /\ (x # Nil => x.kind \notin SaveKinds) /\ Sound(x)
      /\ x # Nil => x.kind \in BusyKinds
  BY <1>4 DEF Some, SaveKinds, BusyKinds, Sound, AskingKinds
<1>6. /\ K \cap {"save", "saved", "board", "me"} = {} /\ "submit" \in PromptKinds
      /\ k = "submit" => K \cap BusyKinds = {}
  BY DEF PromptKinds, BusyKinds
<1>7. executing' => \/ x # Nil /\ x.kind \in BusyKinds
                    \/ executing /\ K \cap BusyKinds = {}
  <2>1. x = [kind |-> "create"] => x # Nil
    BY Built DEF KeyAssumption
  <2> QED
    BY <1>3, <1>5, <1>6, <2>1
<1> HIDE DEF K, KeyAssumption
<1> QED
  BY <1>1, <1>3, <1>5, <1>6, <1>7, NothingSent, HandledStep DEF K

(* Another item is shown.                                                     *)
LEMMA CrossedFields ==
    ASSUME NEW m \in Message, m.kind \in AskingKinds
    PROVE  LET n == [m EXCEPT !.crossed = TRUE] IN
           n \in Message /\ n.kind = m.kind /\ n.crossed
<1> DEFINE A == [kind : AskingKinds, asked : Shown, crossed : BOOLEAN]
           n == [m EXCEPT !.crossed = TRUE]
<1>1. m \in A
  BY DEF Message, AskingKinds
<1>2. n \in A /\ n.kind = m.kind /\ n.crossed
  BY <1>1
<1>3. A \subseteq Message
  BY DEF Message
<1> QED
  BY <1>2, <1>3

LEMMA SetDataStep ==
    ASSUME KeyAssumption, UIInv, NEW K, NEW s \in Pending(K), K \in {{"load"}, {"result"}},
           NEW i \in Shown, SetData(i, [bus EXCEPT ![s] = Nil]),
           UNCHANGED <<active, rows, loading, cfgMode, toggle, clientMode, last, overlapped>>
    PROVE  UIInv'
<1>1. /\ UITypes /\ item' = i /\ executing' = FALSE /\ prompts' = NoPrompts
      /\ bus' = Crossing([bus EXCEPT ![s] = Nil], i)
  BY DEF SetData, UIInv
<1>2. s \in Slots /\ ~On(s, SaveKinds) /\ ~On(s, {"board"}) /\ ~On(s, {"me"})
  <2>1. s \in Slots /\ \A L : K \cap L = {} => ~On(s, L)
    BY <1>1, Taken
  <2>2. K \cap SaveKinds = {} /\ K \cap {"board"} = {} /\ K \cap {"me"} = {}
    BY DEF SaveKinds
  <2> QED
    BY <2>1, <2>2
<1>3. ASSUME NEW t \in Slots
      PROVE  /\ bus'[t] \in Some(Message)
             /\ t = s => bus'[t] = Nil
             /\ t # s => /\ bus'[t] = Nil <=> bus[t] = Nil
                         /\ bus[t] # Nil => bus'[t].kind = bus[t].kind
             /\ t # s /\ bus[t] # Nil /\ bus[t].kind \notin AskingKinds => bus'[t] = bus[t]
             /\ bus'[t] # Nil /\ bus'[t].kind \in AskingKinds => bus'[t].crossed \/ bus'[t].asked = i
  <2> DEFINE msgs == [bus EXCEPT ![s] = Nil]
             n == [bus[t] EXCEPT !.crossed = TRUE]
             asks == msgs[t] # Nil /\ msgs[t].kind \in AskingKinds /\ msgs[t].asked # i
  <2>1. bus'[t] = IF asks THEN [msgs[t] EXCEPT !.crossed = TRUE] ELSE msgs[t]
    BY <1>1 DEF Crossing
  <2>2. msgs[t] = IF t = s THEN Nil ELSE bus[t]
    BY <1>1, <1>2 DEF UITypes
  <2>3. bus[t] \in Some(Message)
    BY <1>1 DEF UITypes, Some
  <2>4. CASE t # s /\ asks
    <3>1. bus[t] \in Message /\ bus[t].kind \in AskingKinds /\ bus'[t] = n
      BY <2>1, <2>2, <2>3, <2>4 DEF Some
    <3>2. n \in Message /\ n.kind = bus[t].kind /\ n.crossed
      BY <3>1, CrossedFields
    <3>3. n # Nil
      BY <3>2 DEF KeyAssumption
    <3> HIDE DEF n, msgs
    <3> QED
      BY <2>4, <3>1, <3>2, <3>3 DEF Some, KeyAssumption
  <2>5. CASE t # s /\ ~asks
    BY <2>1, <2>2, <2>3, <2>5
  <2>6. CASE t = s
    BY <2>1, <2>2, <2>6 DEF Some
  <2> QED
    BY <2>4, <2>5, <2>6
<1>4. ASSUME NEW t \in Slots, NEW L PROVE On(t, L)' <=> t # s /\ On(t, L)
  BY <1>3 DEF On
<1>5. UITypes'
  <2>1. bus' \in [Slots -> Message \cup {Nil}]
    <3>1. bus' = [t \in Slots |-> bus'[t]]
      BY <1>1 DEF Crossing
    <3> QED
      BY <1>3, <3>1 DEF Some
  <2>2. prompts' \in [PromptKinds -> Prompt \cup {Nil}]
    BY <1>1 DEF NoPrompts
  <2> QED
    BY <1>1, <2>1, <2>2 DEF UITypes
<1>6. ASSUME NEW t \in Slots, bus[t] # Nil, bus[t].kind \in SaveKinds \cup {"mutate"}
      PROVE  bus'[t] = bus[t] \/ t = s
  BY <1>3, <1>6 DEF SaveKinds, AskingKinds
<1>7. AboutShown'
  <2>1. ASSUME NEW t \in Slots, On(t, {"mutate"})' PROVE bus'[t].crossed \/ bus'[t].on = bus'[t].asked
    <3>1. t # s /\ On(t, {"mutate"})
      BY <1>4, <2>1
    <3>2. bus'[t] = bus[t]
      BY <1>6, <3>1 DEF On
    <3> QED
      BY <3>1, <3>2 DEF UIInv, AboutShown
  <2>2. \A k \in PromptKinds : prompts'[k] = Nil
    BY <1>1 DEF NoPrompts
  <2>3. \A t \in Slots : On(t, AskingKinds)' => bus'[t].crossed \/ bus'[t].asked = item'
    BY <1>1, <1>3 DEF On
  <2> QED
    BY <2>1, <2>2, <2>3 DEF AboutShown
<1>8. OnlyInPRMode'
  <2>1. ASSUME NEW t \in Slots, On(t, {"mutate"})'
        PROVE  bus'[t].confirmed \/ bus'[t].saving \/ clientMode = "pr"
    <3>1. t # s /\ On(t, {"mutate"})
      BY <1>4, <2>1
    <3>2. bus'[t] = bus[t]
      BY <1>6, <3>1 DEF On
    <3> QED
      BY <3>1, <3>2 DEF UIInv, OnlyInPRMode
  <2> QED
    BY <2>1 DEF OnlyInPRMode
<1>9. ModesAgree'
  <2>1. \A t \in Slots : \/ bus'[t] = bus[t]
                         \/ ~On(t, SaveKinds) /\ (bus'[t] # Nil => bus'[t].kind \notin SaveKinds)
    <3> SUFFICES ASSUME NEW t \in Slots, bus'[t] # bus[t]
                 PROVE  ~On(t, SaveKinds) /\ (bus'[t] # Nil => bus'[t].kind \notin SaveKinds)
      OBVIOUS
    <3>1. ~On(t, SaveKinds)
      BY <1>2, <1>6 DEF On
    <3>2. ~On(t, SaveKinds)'
      BY <1>4, <3>1
    <3> QED
      BY <3>1, <3>2 DEF On
  <2> QED
    BY <2>1, NoSaves
<1>10. NeverStuck'
  <2>1. ASSUME NEW L, ~On(s, L), Pending(L) # {} PROVE Pending(L)' # {}
    <3>1. PICK t \in Slots : On(t, L)
      BY <2>1 DEF Pending, On
    <3>2. On(t, L)'
      BY <1>4, <2>1, <3>1
    <3> QED
      BY <3>2 DEF On, Pending
  <2> QED
    BY <1>1, <1>2, <2>1 DEF UIInv, NeverStuck
<1> QED
  BY <1>5, <1>7, <1>8, <1>9, <1>10
     DEF UIInv, ActsOnWhatWasShown, UnconfirmedOnlyInPRMode

LEMMA DataStep ==
    ASSUME KeyAssumption, UIInv, NEW s, DetailDataMsg(s) \/ ActionResultMsg(s) PROVE UIInv'
<1>1. /\ UITypes
      /\ UNCHANGED <<active, rows, loading, cfgMode, toggle, clientMode, last, overlapped>>
  BY DEF DetailDataMsg, ActionResultMsg, UpdateUnchanged, UIInv
<1>2. ASSUME NEW K \in {{"load"}, {"result"}}, s \in Pending(K)
      PROVE  bus[s].of \in Shown /\ Nil \in Shown
  <2>1. bus[s] \in Message /\ bus[s].kind \in {"load", "result"}
    BY <1>1, <1>2, Taken
  <2> QED
    BY <2>1, MessageFields DEF Shown
<1>3. ASSUME NEW K \in {{"load"}, {"result"}}, s \in Pending(K), NEW i \in Shown,
             SetData(i, [bus EXCEPT ![s] = Nil])
      PROVE  UIInv'
  <2> HIDE DEF KeyAssumption
  <2> QED
    BY <1>1, <1>3, SetDataStep
<1>4. CASE /\ s \in Pending({"result"}) /\ executing' = FALSE /\ bus' = [bus EXCEPT ![s] = Nil]
           /\ UNCHANGED <<item, prompts>>
  <2> DEFINE K == {"result"}
  <2>1. K \cap {"save", "saved", "board", "me"} = {} /\ "action" \in PromptKinds /\ s \in Pending(K)
    BY <1>4 DEF PromptKinds
  <2> HIDE DEF K, KeyAssumption
  <2> QED
    BY <1>1, <1>4, <2>1, NothingSent, HandledStep
<1>5. CASE DetailDataMsg(s)
  <2>1. PICK i \in {bus[s].of, Nil} : SetData(i, [bus EXCEPT ![s] = Nil])
    BY <1>5 DEF DetailDataMsg, Replace
  <2>2. s \in Pending({"load"})
    BY <1>5 DEF DetailDataMsg
  <2> QED
    BY <1>2, <1>3, <2>1, <2>2
<1>6. CASE ActionResultMsg(s)
  <2>1. \/ s \in Pending({"result"}) /\ SetData(bus[s].of, [bus EXCEPT ![s] = Nil])
        \/ /\ s \in Pending({"result"}) /\ executing' = FALSE /\ bus' = [bus EXCEPT ![s] = Nil]
           /\ UNCHANGED <<item, prompts>>
    BY <1>6 DEF ActionResultMsg, Replace
  <2> QED
    BY <1>2, <1>3, <1>4, <2>1
<1> QED
  BY <1>5, <1>6

-----------------------------------------------------------------------------
(* Saving the settings. *)

LEMMA SavingFields ==
    ASSUME NEW m \in Message, m.kind = "mutate"
    PROVE  LET n == [m EXCEPT !.saving = TRUE] IN
           /\ n \in Message /\ n.kind = "mutate" /\ n.saving /\ n.on = m.on /\ n.asked = m.asked
           /\ n.crossed = m.crossed
<1> DEFINE A == [kind : {"mutate"}, on : Shown, asked : Shown, crossed : BOOLEAN,
                 confirmed : BOOLEAN, saving : BOOLEAN]
           n == [m EXCEPT !.saving = TRUE]
<1>1. m \in A
  BY DEF Message, AskingKinds
<1>2. /\ n \in A /\ n.kind = "mutate" /\ n.saving /\ n.on = m.on /\ n.asked = m.asked
      /\ n.crossed = m.crossed
  BY <1>1
<1>3. A \subseteq Message
  BY DEF Message
<1> QED
  BY <1>2, <1>3

LEMMA RunSaveStep ==
    ASSUME KeyAssumption, UIInv, NEW s, RunSave(s) PROVE UIInv'
<1>1. /\ UITypes /\ s \in Pending({"save"})
      /\ UNCHANGED <<active, rows, loading, item, prompts, executing, cfgMode, toggle, last,
                     overlapped>>
  BY DEF RunSave, UIInv
<1>2. PICK ok \in BOOLEAN :
        /\ clientMode' = IF ok THEN bus[s].mode ELSE clientMode
        /\ bus' = [t \in Slots |->
                     CASE t = s -> [kind |-> "saved", mode |-> bus[s].mode, ok |-> ok]
                       [] t \in Pending({"mutate"}) -> [bus[t] EXCEPT !.saving = TRUE]
                       [] OTHER -> bus[t]]
  BY DEF RunSave
<1>3. /\ s \in Slots /\ bus[s] \in Message /\ bus[s] # Nil /\ bus[s].kind = "save"
      /\ \A L : "save" \notin L => ~On(s, L)
  BY <1>1, Taken
<1>4. bus[s].mode \in UIModes
  BY <1>3, MessageFields DEF SaveKinds
<1> DEFINE x == [kind |-> "saved", mode |-> bus[s].mode, ok |-> ok]
<1>5. x \in Message /\ x.kind = "saved" /\ x.mode = bus[s].mode /\ x.ok = ok
  BY <1>4, Built
<1>6. bus'[s] = x
  <2> DEFINE c(t) == CASE t = s -> x
                       [] t \in Pending({"mutate"}) -> [bus[t] EXCEPT !.saving = TRUE]
                       [] OTHER -> bus[t]
  <2>1. bus' = [t \in Slots |-> c(t)]
    BY <1>2
  <2>2. s \notin Pending({"mutate"})
    BY <1>3 DEF Pending
  <2>3. c(s) = x
    <3> HIDE DEF x
    <3> QED
      BY <2>2
  <2> HIDE DEF c, x
  <2> QED
    BY <1>3, <2>1, <2>3
<1> HIDE DEF x
<1>7. x # Nil
  BY <1>5 DEF KeyAssumption
<1>8. ASSUME NEW t \in Slots, t # s, On(t, {"mutate"})
      PROVE  /\ bus'[t] \in Message /\ bus'[t] # Nil /\ bus'[t].kind = "mutate" /\ bus'[t].saving
             /\ bus'[t].on = bus[t].on /\ bus'[t].asked = bus[t].asked
             /\ bus'[t].crossed = bus[t].crossed
  <2>1. bus[t] \in Message /\ bus[t].kind = "mutate" /\ t \in Pending({"mutate"})
    BY <1>1, <1>8 DEF On, UITypes, Pending
  <2>2. bus'[t] = [bus[t] EXCEPT !.saving = TRUE]
    BY <1>2, <1>3, <1>8, <2>1
  <2>3. LET n == [bus[t] EXCEPT !.saving = TRUE] IN
        /\ n \in Message /\ n.kind = "mutate" /\ n.saving /\ n.on = bus[t].on
        /\ n.asked = bus[t].asked /\ n.crossed = bus[t].crossed
    BY <2>1, SavingFields
  <2> QED
    BY <2>2, <2>3 DEF KeyAssumption
<1>9. ASSUME NEW t \in Slots, t # s, ~On(t, {"mutate"}) PROVE bus'[t] = bus[t]
  BY <1>2, <1>9 DEF On, Pending
<1>10. ASSUME NEW t \in Slots, t # s, NEW L PROVE On(t, L)' <=> On(t, L)
  <2>1. CASE On(t, {"mutate"})
    BY <1>8, <1>10, <2>1 DEF On
  <2>2. CASE ~On(t, {"mutate"})
    BY <1>9, <1>10, <2>2 DEF On
  <2> QED
    BY <2>1, <2>2
<1>11. \A L : On(s, L)' <=> "saved" \in L
  BY <1>5, <1>6, <1>7 DEF On
<1>12. UITypes'
  <2>1. ASSUME NEW t \in Slots PROVE bus'[t] \in Message \cup {Nil}
    <3>1. CASE t = s
      BY <1>5, <1>6, <3>1
    <3>2. CASE t # s /\ On(t, {"mutate"})
      BY <1>8, <3>2
    <3>3. CASE t # s /\ ~On(t, {"mutate"})
      BY <1>1, <1>9, <3>3 DEF UITypes
    <3> QED
      BY <3>1, <3>2, <3>3
  <2>2. bus' = [t \in Slots |-> bus'[t]]
    BY <1>2
  <2> QED
    BY <1>1, <1>2, <1>4, <2>1, <2>2 DEF UITypes
<1>13. AboutShown'
  <2>1. ASSUME NEW t \in Slots
        PROVE  /\ On(t, AskingKinds)' => bus'[t].crossed \/ bus'[t].asked = item
               /\ On(t, {"mutate"})' => bus'[t].crossed \/ bus'[t].on = bus'[t].asked
    <3>1. CASE t = s
      BY <1>11, <3>1 DEF AskingKinds
    <3>2. CASE t # s /\ On(t, {"mutate"})
      <4>1. bus'[t].crossed \/ bus'[t].on = bus'[t].asked
        BY <1>8, <3>2 DEF UIInv, AboutShown
      <4>2. ~On(t, AskingKinds)
        BY <3>2 DEF On, AskingKinds
      <4> QED
        BY <1>10, <3>2, <4>1, <4>2
    <3>3. CASE t # s /\ ~On(t, {"mutate"})
      BY <1>9, <1>10, <3>3 DEF UIInv, AboutShown
    <3> QED
      BY <3>1, <3>2, <3>3
  <2>2. \A k \in PromptKinds : prompts[k] # Nil => prompts[k].crossed \/ prompts[k].asked = item
    BY DEF UIInv, AboutShown
  <2> QED
    BY <1>1, <2>1, <2>2 DEF AboutShown
<1>14. OnlyInPRMode'
  <2>1. ASSUME NEW t \in Slots, On(t, {"mutate"})' PROVE bus'[t].saving
    BY <1>8, <1>10, <1>11, <2>1
  <2> QED
    BY <2>1 DEF OnlyInPRMode
<1>15. ModesAgree'
  <2> SUFFICES ASSUME ~overlapped PROVE ModesAgree'
    BY <1>1 DEF ModesAgree
  <2>1. OneSave /\ ((\A t \in Slots : ~On(t, {"saved"})) => cfgMode = clientMode)
    BY DEF UIInv, ModesAgree
  <2>2. \A t \in Slots : t # s => ~On(t, SaveKinds)
    BY <1>3, <2>1 DEF OneSave, On, SaveKinds
  <2>3. \A t \in Slots : t # s => ~On(t, {"saved"})
    BY <2>2 DEF On, SaveKinds
  <2>4. ~On(s, {"saved"})
    BY <1>3
  <2>5. cfgMode = clientMode
    BY <2>1, <2>3, <2>4
  <2>6. \A t \in Slots : t # s => ~On(t, SaveKinds)' /\ ~On(t, {"saved"})'
    BY <1>10, <2>2, <2>3
  <2>7. OneSave'
    BY <2>6 DEF OneSave
  <2>8. \A t \in Slots : On(t, {"saved"})' => IF bus'[t].ok THEN clientMode' = bus'[t].mode
                                              ELSE cfgMode' = clientMode'
    BY <1>1, <1>2, <1>5, <1>6, <2>5, <2>6
  <2>9. On(s, {"saved"})'
    BY <1>11
  <2> QED
    BY <1>3, <2>7, <2>8, <2>9 DEF ModesAgree
<1>16. NeverStuck'
  <2>1. ASSUME NEW L, "save" \notin L, Pending(L) # {} PROVE Pending(L)' # {}
    <3>1. PICK t \in Slots : On(t, L)
      BY <2>1 DEF Pending, On
    <3>2. On(t, L)'
      BY <1>3, <1>10, <2>1, <3>1
    <3> QED
      BY <3>2 DEF On, Pending
  <2> QED
    BY <1>1, <2>1 DEF UIInv, NeverStuck
<1> QED
  BY <1>1, <1>12, <1>13, <1>14, <1>15, <1>16
     DEF UIInv, ActsOnWhatWasShown, UnconfirmedOnlyInPRMode

LEMMA SettingsSavedStep ==
    ASSUME KeyAssumption, UIInv, NEW s, SettingsSavedMsg(s) PROVE UIInv'
<1>1. /\ UITypes /\ s \in Pending({"saved"}) /\ bus' = [bus EXCEPT ![s] = Nil] /\ Saved(bus[s])
      /\ UNCHANGED <<active, rows, loading, item, prompts, executing, clientMode, last, overlapped>>
  BY DEF SettingsSavedMsg, UpdateUnchanged, Replace, UIInv
<1>2. /\ s \in Slots /\ bus[s] \in Message /\ bus[s] # Nil /\ bus[s].kind = "saved"
      /\ \A L : "saved" \notin L => ~On(s, L)
  BY <1>1, Taken
<1>3. bus[s].mode \in UIModes /\ bus[s].ok \in BOOLEAN
  BY <1>2, MessageFields DEF SaveKinds
<1>4. /\ bus' \in [Slots -> Some(Message)] /\ bus'[s] = Nil
      /\ \A t \in Slots : t # s => bus'[t] = bus[t]
      /\ \A K : ~On(s, K) /\ Pending(K) # {} => Pending(K)' # {}
  BY <1>1, <1>2, NothingSent, PutMessage
<1>5. UITypes'
  BY <1>1, <1>3, <1>4 DEF UITypes, Saved, Some
<1>6. NeverStuck'
  <2>1. ~On(s, {"mutate", "result", "delta", "create"}) /\ ~On(s, {"board"}) /\ ~On(s, {"me"})
    BY <1>2
  <2> QED
    BY <1>1, <1>4, <2>1 DEF UIInv, NeverStuck
<1>7. ModesAgree'
  <2> SUFFICES ASSUME ~overlapped PROVE ModesAgree'
    BY <1>1 DEF ModesAgree
  <2>1. /\ OneSave
        /\ IF bus[s].ok THEN clientMode = bus[s].mode ELSE cfgMode = clientMode
    BY <1>2 DEF UIInv, ModesAgree, On
  <2>2. \A t \in Slots : t # s => ~On(t, SaveKinds)
    BY <1>2, <2>1 DEF OneSave, On, SaveKinds
  <2>3. \A t \in Slots : ~On(t, SaveKinds)' /\ ~On(t, {"saved"})'
    BY <1>4, <2>2 DEF On, SaveKinds
  <2>4. cfgMode' = clientMode'
    BY <1>1, <2>1 DEF Saved
  <2> QED
    BY <2>3, <2>4 DEF ModesAgree, OneSave
<1>8. \A t \in Slots : bus'[t] = bus[t] \/ Sound(bus'[t])
  BY <1>4, NothingSent
<1> QED
  BY <1>1, <1>5, <1>6, <1>7, <1>8, Keeps

-----------------------------------------------------------------------------
(* The theorems. *)

LEMMA UIInitially ==
    ASSUME KeyAssumption, UIInit PROVE UIInv
<1>1. PICK first \in Slots :
         bus = [s \in Slots |-> IF s = first THEN [kind |-> "board"] ELSE Nil]
  BY DEF UIInit
<1> DEFINE x == [kind |-> "board"]
<1>2. x \in Message /\ x.kind = "board"
  BY Built
<1>3. \A s \in Slots : bus[s] = IF s = first THEN x ELSE Nil
  BY <1>1
<1> HIDE DEF x
<1>4. x # Nil
  BY <1>2 DEF KeyAssumption
<1>5. bus \in [Slots -> Message \cup {Nil}]
  <2>1. bus = [s \in Slots |-> bus[s]]
    BY <1>1
  <2> QED
    BY <1>2, <1>3, <2>1
<1>6. prompts \in [PromptKinds -> Prompt \cup {Nil}] /\ \A k \in PromptKinds : prompts[k] = Nil
  BY DEF UIInit, NoPrompts
<1>7. UITypes
  BY <1>5, <1>6 DEF UIInit, UITypes, Screens, Shown
<1>8. \A s \in Slots : \A K : On(s, K) => "board" \in K
  BY <1>2, <1>3 DEF On
<1>9. AboutShown /\ OnlyInPRMode
  BY <1>6, <1>8 DEF AboutShown, OnlyInPRMode, AskingKinds
<1>10. ModesAgree
  <2>1. \A s \in Slots : ~On(s, SaveKinds) /\ ~On(s, {"saved"})
    BY <1>8 DEF SaveKinds
  <2>2. cfgMode = clientMode
    BY DEF UIInit
  <2> QED
    BY <2>1, <2>2 DEF ModesAgree, OneSave
<1>11. NeverStuck
  <2>1. first \in Pending({"board"})
    BY <1>2, <1>3, <1>4 DEF Pending
  <2> QED
    BY <2>1 DEF UIInit, NeverStuck
<1> QED
  BY <1>7, <1>9, <1>10, <1>11
     DEF UIInv, UIInit, ActsOnWhatWasShown, UnconfirmedOnlyInPRMode

LEMMA UIStep ==
    ASSUME KeyAssumption, UIInv, [UINext]_uiVars PROVE UIInv'
<1> HIDE DEF KeyAssumption
<1>1. CASE UNCHANGED uiVars
  BY <1>1 DEF uiVars, UIInv, UITypes, AboutShown, ModesAgree, OnlyInPRMode, OneSave, On,
              ActsOnWhatWasShown, NeverStuck, UnconfirmedOnlyInPRMode, Pending
<1>2. CASE BrowseKey \/ MeKey \/ SettingsKey \/ DetailKey
  BY <1>2, BrowseOrMeKeyStep, SettingsKeyStep, DetailKeyStep
<1>3. ASSUME NEW k \in PromptKinds, CancelKey(k) \/ ConfirmKey(k) PROVE UIInv'
  BY <1>3, ConfirmOrCancelStep
<1>4. ASSUME NEW s \in Slots, Update(s) PROVE UIInv'
  <2>1. CASE NavigateMsg(s) \/ BrowseDataMsg(s) \/ MeDataMsg(s) \/ SubmitDiffMsg(s)
    BY <2>1, LoadedStep
  <2>2. CASE DetailDataMsg(s) \/ ActionResultMsg(s)
    BY <2>2, DataStep
  <2>3. CASE ActionRequestMsg(s) \/ MutateMsg(s)
    BY <2>3, ActionRequestStep, MutateStep
  <2>4. CASE DeltaRequestMsg(s) \/ DeltaConfirmedMsg(s) \/ DeltaResultMsg(s)
    BY <2>4, DeltaRequestStep, DeltaConfirmedStep, DeltaResultStep
  <2>5. CASE SubmitConfirmMsg(s) \/ SubmitResultMsg(s)
    BY <2>5, SubmitStep
  <2>6. CASE SettingsSavedMsg(s)
    BY <2>6, SettingsSavedStep
  <2> QED
    BY <1>4, <2>1, <2>2, <2>3, <2>4, <2>5, <2>6 DEF Update
<1>5. ASSUME NEW s \in Slots, RunMutation(s) \/ RunSave(s) PROVE UIInv'
  BY <1>5, RunMutationStep, RunSaveStep
<1> QED
  BY <1>1, <1>2, <1>3, <1>4, <1>5 DEF UINext

LEMMA UIInvariant == UISpec => []UIInv
<1>1. UIInit => UIInv
  BY KeyAssumption, UIInitially
<1>2. UIInv /\ [UINext]_uiVars => UIInv'
  BY KeyAssumption, UIStep
<1> QED
  BY <1>1, <1>2, PTL DEF UISpec

(* A mutation is made of the item the user saw when the key was pressed that  *)
(* led to it, whatever late results put another item on the screen meanwhile, *)
(* unless the request itself was crossed on its way to the root.              *)
THEOREM MutatesWhatWasShown == UISpec => []ActsOnWhatWasShown
<1>1. UIInv => ActsOnWhatWasShown
  BY DEF UIInv
<1> QED
  BY <1>1, UIInvariant, PTL

(* The spinner and "Loading..." only turn while something is under way whose  *)
(* result stops them: executing and loading are never left behind by a        *)
(* failure, a stale result or a change of view.                               *)
THEOREM SpinnersEnd == UISpec => []NeverStuck
<1>1. UIInv => NeverStuck
  BY DEF UIInv
<1> QED
  BY <1>1, UIInvariant, PTL

(* No mutation runs unconfirmed in wild-west mode, except while the settings  *)
(* are being saved or after two saves at a time.                              *)
THEOREM WildWestIsConfirmed == UISpec => []UnconfirmedOnlyInPRMode
<1>1. UIInv => UnconfirmedOnlyInPRMode
  BY DEF UIInv
<1> QED
  BY <1>1, UIInvariant, PTL

-----------------------------------------------------------------------------
(* Joining: what holds between its steps. *)

Places == Orgs \cup {Up}
Database == [state : {"no", "empty", "yes"}, refs : Refs]

JoinSteps ==
    {"idle", "load", "fork", "clone", "add upstream", "branch", "register", "push", "main",
     "pull request", "push main", "exec", "save", "init", "schema", "add origin"}
Command == [kind : Ways, org : Orgs, step : JoinSteps, faulty : BOOLEAN]

JoinTypes ==
    /\ sites \in [Places -> Database] /\ sites[Up].state # "empty"
    /\ clone \in Directory \cup {Missing} /\ config \in Configuration \cup {Missing}
    /\ command \in Command

(* The branch of a rig, on its own fork, has the rig.                         *)
Offered(o) ==
    /\ RegisterBranch(o) \in DOMAIN sites[o].refs
    /\ o \in sites[o].refs[RegisterBranch(o)]

SitesOk ==
    /\ \A o \in Orgs : sites[o].state = "no" => RegisterBranch(o) \notin DOMAIN sites[o].refs
    /\ \A o \in pulls : o \in Orgs /\ RegisterBranch(o) \in DOMAIN sites[o].refs

(* A clone that only one command has used is as that command left it.         *)
CloneOk ==
    clone # Missing =>
        /\ clone.head \in DOMAIN clone.refs
        /\ clone.origin \in Orgs => sites[clone.origin].state = "yes"
        /\ \/ clone.mixed
           \/ /\ clone.by[1] = "fork" => clone.origin = clone.by[2]
              /\ clone.by[1] = "direct" => clone.origin = Up
        /\ clone.mixed \/ clone.by[1] = "fork" \/ clone.head = Trunk

Mine == clone # Missing /\ (clone.mixed \/ clone.by = <<command.kind, Me>>)

(* How far the command has come, and what it has done by then.                *)
ForkPath ==
    /\ Running({"fork"})
    /\ \/ Step("fork")
       \/ Step("clone") /\ sites[Me].state # "no"
       \/ /\ Mine
          /\ \/ command.step \in {"add upstream", "branch"}
             \/ Step("register") /\ clone.head = RegisterBranch(Me)
             \/ /\ Step("push") /\ RegisterBranch(Me) \in DOMAIN clone.refs
                /\ Me \in clone.refs[RegisterBranch(Me)]
             \/ /\ command.step \in {"main", "pull request", "save"}
                /\ clone.mixed \/ Offered(Me)

ApiPath ==
    /\ Running({"remote", "hosted"})
    /\ \/ Step("fork")
       \/ Step("exec") /\ sites[Me].state # "no"
       \/ Step("pull request") /\ Offered(Me)
       \/ Step("save") /\ Running({"remote"}) /\ Offered(Me)

TrunkPath ==
    /\ Running({"direct", "create"})
    /\ \/ Step("clone") /\ Running({"direct"})
       \/ Step("init") /\ Running({"create"})
       \/ /\ Mine
          /\ \/ Step("schema") /\ Running({"create"})
             \/ Step("register")
             \/ /\ Step("add origin") /\ Running({"create"})
                /\ clone.mixed \/ Me \in clone.refs[Trunk]
             \/ /\ Step("push main") /\ (Running({"create"}) => clone.origin = Up)
                /\ clone.mixed \/ Me \in clone.refs[Trunk]
             \/ Step("save") /\ (clone.mixed \/ Me \in sites[Up].refs[Trunk])

PathOk == command.step \in {"idle", "load"} \/ ForkPath \/ ApiPath \/ TrunkPath

JoinInv ==
    /\ JoinTypes /\ SitesOk /\ CloneOk /\ PathOk
    /\ outcome = "failed cleanly" => Step("idle")
    /\ ConfiguredIsRegistered /\ RetryHeals

-----------------------------------------------------------------------------
(* References, and the records that steps change. *)

LEMMA RefFacts ==
    ASSUME NEW r \in Refs
    PROVE  Trunk \in DOMAIN r /\ DOMAIN r \subseteq Tips /\ \A b \in DOMAIN r : r[b] \in SUBSET Orgs
  BY DEF Refs

LEMMA PutRefs ==
    ASSUME NEW r \in Refs, NEW b \in Tips, NEW rigs \in SUBSET Orgs
    PROVE  /\ Put(r, b, rigs) \in Refs /\ DOMAIN Put(r, b, rigs) = DOMAIN r \cup {b}
           /\ Put(r, b, rigs)[b] = rigs
           /\ \A x \in DOMAIN r : x # b => Put(r, b, rigs)[x] = r[x]
<1>1. /\ Trunk \in DOMAIN r /\ DOMAIN r \subseteq Tips /\ \A x \in DOMAIN r : r[x] \in SUBSET Orgs
  BY RefFacts
<1>2. Put(r, b, rigs) = [x \in DOMAIN r \cup {b} |-> IF x = b THEN rigs ELSE r[x]]
  BY DEF Put
<1>3. Put(r, b, rigs) \in [DOMAIN r \cup {b} -> SUBSET Orgs]
  BY <1>1, <1>2
<1>4. DOMAIN r \cup {b} \in {h \in SUBSET Tips : Trunk \in h}
  BY <1>1
<1>5. Put(r, b, rigs) \in Refs
  BY <1>3, <1>4 DEF Refs
<1> QED
  BY <1>2, <1>5

LEMMA OnlyRefs ==
    ASSUME NEW rigs \in SUBSET Orgs
    PROVE  /\ Only(rigs) \in Refs /\ DOMAIN Only(rigs) = {Trunk}
           /\ Only(rigs)[Trunk] = rigs
<1>1. Only(rigs) = [x \in {Trunk} |-> rigs]
  BY DEF Only
<1>2. Only(rigs) \in [{Trunk} -> SUBSET Orgs]
  BY <1>1
<1>3. {Trunk} \in {h \in SUBSET Tips : Trunk \in h}
  BY DEF Tips
<1> QED
  BY <1>1, <1>2, <1>3 DEF Refs

LEMMA Proceeding ==
    ASSUME JoinTypes, NEW s \in JoinSteps, Proceed(s)
    PROVE  /\ command' \in Command /\ command'.kind = command.kind /\ command'.org = command.org
           /\ command'.step = s /\ outcome' = outcome
  BY DEF JoinTypes, Proceed, Command

LEMMA Finishing ==
    ASSUME JoinTypes, NEW result, Finish(result)
    PROVE  /\ command' \in Command /\ command'.kind = command.kind /\ command'.org = command.org
           /\ command'.step = "idle" /\ outcome' = result
  BY DEF JoinTypes, Finish, Command, JoinSteps

LEMMA Faulting ==
    ASSUME JoinTypes, Fault
    PROVE  /\ command' \in Command /\ command'.kind = command.kind /\ command'.org = command.org
           /\ command'.step = "idle" /\ outcome' = "failed"
<1>1. command' = [[command EXCEPT !.step = "idle"] EXCEPT !.faulty = TRUE]
  BY DEF Fault
<1>2. PICK c : c = [command EXCEPT !.step = "idle"]
  OBVIOUS
<1>3. c \in Command /\ c.kind = command.kind /\ c.org = command.org /\ c.step = "idle"
  BY <1>2 DEF JoinTypes, Command, JoinSteps
<1> QED
  BY <1>1, <1>2, <1>3 DEF Command, Fault

-----------------------------------------------------------------------------
(* What a step must not undo. *)

\* Why a command may be refused.
Refusable ==
    \/ sites[Up].state = "no"
    \/ sites[Me].state = "empty"
    \/ clone # Missing /\ (~clone.whole \/ clone.mixed \/ Running({"create"}))
    \/ Running({"direct"}) /\ clone # Missing /\ ~(sites[Up].refs[Trunk] \subseteq clone.refs[Trunk])

SitesGrow ==
    /\ sites' \in [Places -> Database] /\ sites'[Up].state # "empty"
    /\ sites[Up].refs[Trunk] \subseteq sites'[Up].refs[Trunk]
    /\ \A o \in Orgs :
          /\ Offered(o) => Offered(o)'
          /\ RegisterBranch(o) \in DOMAIN sites[o].refs => RegisterBranch(o) \in DOMAIN sites'[o].refs
          /\ sites[o].state = "yes" => sites'[o].state = "yes"
          /\ sites[o].state # "no" => sites'[o].state # "no"
          /\ sites'[o].state = "no" => RegisterBranch(o) \notin DOMAIN sites'[o].refs

LEMMA SameSites ==
    ASSUME JoinInv, UNCHANGED sites PROVE SitesGrow
  BY DEF JoinInv, JoinTypes, SitesOk, SitesGrow, Offered

LEMMA SameClone ==
    ASSUME JoinInv, SitesGrow, UNCHANGED clone
    PROVE  clone' \in Directory \cup {Missing} /\ CloneOk'
  BY DEF JoinInv, JoinTypes, CloneOk, SitesGrow

LEMMA JoinKeeps ==
    ASSUME JoinInv, SitesGrow, CloneOk', PathOk', clone' \in Directory \cup {Missing},
           command' \in Command,
           \A o \in pulls' : o \in Orgs /\ RegisterBranch(o) \in DOMAIN sites'[o].refs,
           UNCHANGED config \/ config' = Missing,
           outcome' = "failed cleanly" => command'.step = "idle" /\ Refusable'
    PROVE  JoinInv'
<1>1. config' \in Configuration \cup {Missing}
  BY DEF JoinInv, JoinTypes
<1>2. JoinTypes'
  BY <1>1 DEF JoinInv, JoinTypes, SitesGrow, Command
<1>3. SitesOk'
  BY DEF SitesGrow, SitesOk
<1>4. ConfiguredIsRegistered'
  <2>1. SUFFICES ASSUME config' = config, config # Missing, ~config.mixed
                 PROVE  Registered(config)'
    BY DEF ConfiguredIsRegistered
  <2>2. PICK c \in Configuration : c = config
    BY <2>1 DEF JoinInv, JoinTypes
  <2>3. c.org \in Orgs /\ Registered(c)
    BY <2>1, <2>2 DEF JoinInv, ConfiguredIsRegistered, Configuration
  <2>4. CASE c.kind \in {"fork", "remote"}
    BY <2>1, <2>2, <2>3, <2>4 DEF Registered, SitesGrow, Offered
  <2>5. CASE c.kind \notin {"fork", "remote"}
    BY <2>1, <2>2, <2>3, <2>5 DEF Registered, SitesGrow
  <2> QED
    BY <2>4, <2>5
<1>5. RetryHeals'
  BY DEF RetryHeals, Refusable
<1> QED
  BY <1>2, <1>3, <1>4, <1>5 DEF JoinInv, Step

LEMMA Merely ==
    ASSUME JoinInv, SitesGrow, UNCHANGED pulls
    PROVE  \A o \in pulls' : o \in Orgs /\ RegisterBranch(o) \in DOMAIN sites'[o].refs
  BY DEF JoinInv, SitesOk, SitesGrow

(* A command ends.                                                            *)
LEMMA Halts ==
    ASSUME JoinInv, SitesGrow, CloneOk', clone' \in Directory \cup {Missing},
           UNCHANGED <<config, pulls>>,
           Fault \/ Finish("ok") \/ (TurnedAway /\ Refusable')
    PROVE  JoinInv'
<1>1. JoinTypes
  BY DEF JoinInv
<1>2. /\ command' \in Command /\ command'.step = "idle"
      /\ outcome' = "failed cleanly" => Refusable'
  <2>1. CASE Fault
    BY <1>1, <2>1, Faulting
  <2>2. CASE Finish("ok")
    <3>1. command' \in Command /\ command'.step = "idle" /\ outcome' = "ok"
      BY <1>1, <2>2, Finishing
    <3> QED
      BY <3>1
  <2>3. CASE TurnedAway /\ Refusable'
    BY <1>1, <2>3, Finishing DEF TurnedAway
  <2> QED
    BY <2>1, <2>2, <2>3
<1>3. PathOk'
  BY <1>2 DEF PathOk
<1> QED
  BY <1>2, <1>3, JoinKeeps, Merely

(* A command goes on.                                                         *)
LEMMA Goes ==
    ASSUME JoinInv, ~Step("idle"), SitesGrow, CloneOk', clone' \in Directory \cup {Missing},
           UNCHANGED <<config, pulls>>,
           NEW s \in JoinSteps, Proceed(s), PathOk'
    PROVE  JoinInv'
<1>1. command' \in Command /\ outcome' = outcome /\ outcome # "failed cleanly"
  BY Proceeding DEF JoinInv
<1> QED
  BY <1>1, JoinKeeps, Merely

-----------------------------------------------------------------------------
(* Starting, and the steps of a fork. *)

LEMMA StartStep ==
    ASSUME JoinAssumption, JoinInv, NEW c \in Commands, Start(c) PROVE JoinInv'
<1>1. SitesGrow
  BY SameSites DEF Start
<1>2. clone' \in Directory \cup {Missing} /\ CloneOk'
  BY <1>1, SameClone DEF Start
<1>3. command' \in Command /\ command'.step = "load" /\ outcome' = "none"
  BY DEF Start, JoinAssumption, Command, JoinSteps
<1>4. PathOk'
  BY <1>3 DEF PathOk
<1>5. \A o \in pulls' : o \in Orgs /\ RegisterBranch(o) \in DOMAIN sites'[o].refs
  BY <1>1, Merely DEF Start
<1> QED
  BY <1>1, <1>2, <1>3, <1>4, <1>5, JoinKeeps DEF Start

LEMMA LoadStep == ASSUME JoinAssumption, JoinInv, LoadConfig PROVE JoinInv'
<1>1. SitesGrow /\ JoinTypes /\ ~Step("idle") /\ UNCHANGED <<sites, clone, config, pulls>>
  BY SameSites DEF LoadConfig, JoinInv, Step
<1>2. clone' \in Directory \cup {Missing} /\ CloneOk'
  BY <1>1, SameClone
<1>3. CASE Running({"create"}) /\ clone # Missing
  <2>1. TurnedAway
    BY <1>3 DEF LoadConfig
  <2>2. command'.kind = command.kind
    BY <1>1, <2>1, Finishing DEF TurnedAway
  <2>3. Refusable'
    BY <1>1, <1>3, <2>2 DEF Refusable, Running
  <2> QED
    BY <1>1, <1>2, <2>1, <2>3, Halts
<1>4. CASE Finish("ok")
  BY <1>1, <1>2, <1>4, Halts
<1>5. CASE ~(Running({"create"}) /\ clone # Missing) /\ ~Finish("ok")
  <2>1. PICK s : /\ s = CASE Running({"fork", "remote", "hosted"}) -> "fork"
                          [] Running({"direct"}) -> "clone"
                          [] Running({"create"}) -> "init"
                 /\ Proceed(s)
    BY <1>5 DEF LoadConfig
  <2>2. command.kind \in Ways
    BY <1>1 DEF JoinTypes, Command
  <2>3. \/ Running({"fork", "remote", "hosted"}) /\ s = "fork"
        \/ Running({"direct"}) /\ s = "clone"
        \/ Running({"create"}) /\ s = "init"
    BY <2>1, <2>2 DEF Running, Ways
  <2>4. s \in JoinSteps
    BY <2>3 DEF JoinSteps
  <2>5. command'.kind = command.kind /\ command'.step = s
    BY <1>1, <2>1, <2>4, Proceeding
  <2>6. PathOk'
    BY <2>3, <2>5 DEF PathOk, ForkPath, ApiPath, TrunkPath, Running, Step
  <2> QED
    BY <1>1, <1>2, <2>1, <2>4, <2>6, Goes
<1> QED
  BY <1>3, <1>4, <1>5

\* Where a command is.
LEMMA OnItsWay ==
    ASSUME JoinInv
    PROVE  /\ Step("fork") => Running({"fork", "remote", "hosted"})
           /\ Step("clone") => /\ Running({"fork", "direct"})
                               /\ Running({"fork"}) => sites[Me].state # "no"
           /\ Step("add upstream") \/ Step("branch") => Running({"fork"}) /\ Mine
           /\ Step("register") => /\ Running({"fork", "direct", "create"}) /\ Mine
                                  /\ Running({"fork"}) => clone.head = RegisterBranch(Me)
           /\ Step("push") => /\ Running({"fork"}) /\ Mine
                              /\ RegisterBranch(Me) \in DOMAIN clone.refs
                              /\ Me \in clone.refs[RegisterBranch(Me)]
           /\ Step("main") => Running({"fork"}) /\ Mine /\ (clone.mixed \/ Offered(Me))
           /\ Step("exec") => Running({"remote", "hosted"}) /\ sites[Me].state # "no"
           /\ Step("pull request") =>
                 \/ Running({"fork"}) /\ Mine /\ (clone.mixed \/ Offered(Me))
                 \/ Running({"remote", "hosted"}) /\ Offered(Me)
           /\ Step("push main") => /\ Running({"direct", "create"}) /\ Mine
                                   /\ Running({"create"}) => clone.origin = Up
                                   /\ clone.mixed \/ Me \in clone.refs[Trunk]
           /\ Step("save") =>
                 \/ Running({"fork"}) /\ Mine /\ (clone.mixed \/ Offered(Me))
                 \/ Running({"remote"}) /\ Offered(Me)
                 \/ Running({"direct", "create"}) /\ Mine
                       /\ (clone.mixed \/ Me \in sites[Up].refs[Trunk])
           /\ Step("init") => Running({"create"})
           /\ Step("schema") => Running({"create"}) /\ Mine
           /\ Step("add origin") =>
                 Running({"create"}) /\ Mine /\ (clone.mixed \/ Me \in clone.refs[Trunk])
           /\ Me \in Orgs /\ command.kind \in Ways
<1>1. Me \in Orgs /\ command.kind \in Ways
  BY DEF JoinInv, JoinTypes, Command, Me
<1>2. PathOk
  BY DEF JoinInv
<1> QED
  BY <1>1, <1>2 DEF PathOk, ForkPath, ApiPath, TrunkPath, Running, Step

LEMMA ForkStep == ASSUME JoinAssumption, JoinInv, Fork PROVE JoinInv'
<1>1. /\ JoinTypes /\ Running({"fork", "remote", "hosted"}) /\ Me \in Orgs /\ ~Step("idle")
      /\ UNCHANGED <<clone, config, pulls>>
  BY OnItsWay DEF Fork, Step, JoinInv
<1>2. SitesGrow /\ (sites' = sites \/ sites'[Up] = sites[Up])
  <2>1. CASE UNCHANGED sites
    BY <2>1, SameSites
  <2>2. CASE sites' # sites
    <3>1. PICK d : /\ sites' = [sites EXCEPT ![Me] = d] /\ sites[Me].state = "no"
                   /\ \/ d = [state |-> "yes", refs |-> Only(sites[Up].refs[Trunk])]
                      \/ d = [sites[Me] EXCEPT !.state = "empty"]
      BY <2>2 DEF Fork, Copied, HalfCopied
    <3>2. sites[Up].refs \in Refs /\ sites[Me] \in Database
      BY <1>1 DEF JoinTypes, Database, Places
    <3>3. sites[Up].refs[Trunk] \in SUBSET Orgs
      BY <3>2, RefFacts
    <3>4. Only(sites[Up].refs[Trunk]) \in Refs
      BY <3>3, OnlyRefs
    <3>5. d \in Database /\ d.state # "no"
      BY <3>1, <3>2, <3>4 DEF Database
    <3>6. /\ sites' \in [Places -> Database] /\ sites'[Me] = d
          /\ \A p \in Places : p # Me => sites'[p] = sites[p]
      BY <1>1, <3>1, <3>5 DEF JoinTypes, Places
    <3>7. Up # Me /\ Up \in Places /\ Orgs \subseteq Places
      BY <1>1 DEF JoinAssumption, Places
    <3>8. sites'[Up] = sites[Up] /\ sites[Up].state # "empty"
      BY <1>1, <3>6, <3>7 DEF JoinTypes
    <3>9. RegisterBranch(Me) \notin DOMAIN sites[Me].refs
      BY <1>1, <3>1 DEF JoinInv, SitesOk
    <3>10. ASSUME NEW o \in Orgs
           PROVE  /\ Offered(o) => Offered(o)'
                  /\ RegisterBranch(o) \in DOMAIN sites[o].refs
                        => RegisterBranch(o) \in DOMAIN sites'[o].refs
                  /\ sites[o].state = "yes" => sites'[o].state = "yes"
                  /\ sites[o].state # "no" => sites'[o].state # "no"
                  /\ sites'[o].state = "no" => RegisterBranch(o) \notin DOMAIN sites'[o].refs
      <4>1. CASE o = Me
        BY <3>1, <3>5, <3>6, <3>9, <4>1 DEF Offered
      <4>2. CASE o # Me
        <5>1. sites'[o] = sites[o]
          BY <3>6, <3>7, <4>2
        <5> QED
          BY <5>1 DEF Offered, JoinInv, SitesOk
      <4> QED
        BY <4>1, <4>2
    <3> QED
      BY <3>6, <3>8, <3>10 DEF SitesGrow
  <2> QED
    BY <2>1, <2>2
<1>3. clone' \in Directory \cup {Missing} /\ CloneOk'
  BY <1>1, <1>2, SameClone
<1>4. CASE Fault
  BY <1>1, <1>2, <1>3, <1>4, Halts
<1>5. CASE ~Fault /\ TurnedAway /\ sites[Up].state = "no" /\ UNCHANGED sites
  <2>1. Refusable'
    BY <1>5 DEF Refusable
  <2> QED
    BY <1>1, <1>2, <1>3, <1>5, <2>1, Halts
<1>6. CASE ~Fault /\ ~(TurnedAway /\ sites[Up].state = "no" /\ UNCHANGED sites)
  <2>1. PICK s \in {"clone", "exec"} :
             /\ s = IF Running({"fork"}) THEN "clone" ELSE "exec"
             /\ Proceed(s)
    BY <1>6 DEF Fork
  <2>2. s \in JoinSteps
    BY DEF JoinSteps
  <2>3. command'.kind = command.kind /\ command'.org = command.org /\ command'.step = s
    BY <1>1, <2>1, <2>2, Proceeding
  <2>4. sites'[Me].state # "no"
    <3>1. sites[Me].state # "no" \/ sites' = [sites EXCEPT ![Me] =
                [state |-> "yes", refs |-> Only(sites[Up].refs[Trunk])]]
      BY <1>6 DEF Fork, Copied
    <3> QED
      BY <1>1, <1>2, <3>1 DEF SitesGrow, JoinTypes, Places
  <2>5. PathOk'
    BY <1>1, <2>1, <2>3, <2>4 DEF PathOk, ForkPath, ApiPath, Running, Step, Me
  <2> QED
    BY <1>1, <1>2, <1>3, <2>1, <2>2, <2>5, Goes
<1> QED
  BY <1>4, <1>5, <1>6

(* A clone of a database, whole or cut off.                                   *)
LEMMA ClonedFacts ==
    ASSUME JoinAssumption, JoinTypes, Running({"fork", "direct"}), NEW whole \in BOOLEAN,
           sites[Source].state = "yes"
    PROVE  /\ Cloned(whole) \in Directory /\ Cloned(whole).mixed = FALSE
           /\ Cloned(whole).by = <<command.kind, Me>> /\ Cloned(whole).head = Trunk
           /\ Cloned(whole).origin = Source /\ Source \in Places
           /\ Trunk \in DOMAIN Cloned(whole).refs
<1>1. Me \in Orgs /\ Source \in Places /\ command.kind \in {"fork", "direct"}
  BY DEF JoinTypes, Command, Me, Source, Places, Running
<1>2. sites[Source].refs \in Refs
  BY <1>1 DEF JoinTypes, Database
<1>3. sites[Source].refs[Trunk] \in SUBSET Orgs
  BY <1>2, RefFacts
<1>4. PICK r : r = IF whole THEN Only(sites[Source].refs[Trunk]) ELSE Only({})
  OBVIOUS
<1>5. r \in Refs /\ DOMAIN r = {Trunk}
  BY <1>3, <1>4, OnlyRefs
<1>6. Cloned(whole) = [origin |-> Source, upstream |-> FALSE, head |-> Trunk, refs |-> r,
                       whole |-> whole, by |-> <<command.kind, Me>>, mixed |-> FALSE]
  BY <1>4 DEF Cloned
<1>7. <<command.kind, Me>> \in {"fork", "direct", "create"} \X Orgs /\ Trunk \in Tips
  BY <1>1 DEF Tips
<1>8. Source \in Orgs \cup {Up, Missing}
  BY <1>1 DEF Places
<1> QED
  BY <1>1, <1>5, <1>6, <1>7, <1>8 DEF Directory

LEMMA CloneStep == ASSUME JoinAssumption, JoinInv, Clone PROVE JoinInv'
<1>1. /\ JoinTypes /\ Running({"fork", "direct"}) /\ Me \in Orgs /\ ~Step("idle")
      /\ Running({"fork"}) => sites[Me].state # "no"
      /\ UNCHANGED <<sites, config, pulls>>
  BY OnItsWay DEF Clone, Step, JoinInv
<1>2. SitesGrow
  BY <1>1, SameSites
<1>3. ASSUME NEW whole \in BOOLEAN, sites[Source].state = "yes", clone' = Cloned(whole)
      PROVE  clone' \in Directory \cup {Missing} /\ CloneOk'
  <2>1. /\ clone' \in Directory /\ clone'.mixed = FALSE
        /\ clone'.by = <<command.kind, Me>> /\ clone'.head = Trunk
        /\ clone'.origin = Source /\ Source \in Places
        /\ Trunk \in DOMAIN clone'.refs
    BY <1>1, <1>3, ClonedFacts
  <2> QED
    BY <1>1, <1>3, <2>1 DEF CloneOk, Source, Running, JoinAssumption
<1>4. ASSUME clone # Missing,
             clone' = [clone EXCEPT !.mixed = @ \/ clone.by # <<command.kind, Me>>]
      PROVE  /\ clone' \in Directory \cup {Missing} /\ CloneOk' /\ clone' # Missing
             /\ clone'.mixed \/ clone'.by = <<command.kind, Me>>
  <2>1. clone \in Directory /\ CloneOk
    BY <1>1, <1>4 DEF JoinTypes, JoinInv
  <2>2. PICK m \in BOOLEAN : m = (clone.mixed \/ clone.by # <<command.kind, Me>>)
    OBVIOUS
  <2>3. clone' = [clone EXCEPT !.mixed = m]
    BY <1>4, <2>2
  <2>4. /\ clone' \in Directory /\ clone'.mixed = m /\ clone'.by = clone.by
        /\ clone'.head = clone.head /\ clone'.refs = clone.refs /\ clone'.origin = clone.origin
    BY <2>1, <2>3 DEF Directory
  <2>5. clone' # Missing
    BY <2>4 DEF JoinAssumption
  <2>6. CloneOk'
    BY <1>1, <1>4, <2>1, <2>2, <2>4 DEF CloneOk
  <2> QED
    BY <2>2, <2>4, <2>5, <2>6
<1>5. CASE Fault
  <2>1. clone' \in Directory \cup {Missing} /\ CloneOk'
    <3>1. CASE clone' = clone
      BY <1>2, <3>1, SameClone
    <3>2. CASE clone' = Missing
      BY <3>2 DEF CloneOk
    <3>3. CASE sites[Source].state = "yes" /\ clone' = Cloned(FALSE)
      BY <1>3, <3>3
    <3>4. CASE sites[Source].state = "yes" /\ clone' = Cloned(TRUE)
      BY <1>3, <3>4
    <3>5. CASE clone # Missing /\ clone' = [clone EXCEPT !.mixed = @ \/ clone.by # <<command.kind, Me>>]
      BY <1>4, <3>5
    <3> QED
      BY <3>1, <3>2, <3>3, <3>4, <3>5 DEF Clone
  <2> QED
    BY <1>1, <1>2, <1>5, <2>1, Halts
<1>6. CASE ~Fault /\ TurnedAway /\ clone = Missing /\ sites[Source].state # "yes" /\ UNCHANGED clone
  <2>1. clone' \in Directory \cup {Missing} /\ CloneOk'
    BY <1>2, <1>6, SameClone
  <2>2. command'.kind = command.kind /\ command'.org = command.org
    BY <1>1, <1>6, Finishing DEF TurnedAway
  <2>3. \A p \in Places : sites[p].state \in {"no", "empty", "yes"}
    BY <1>1 DEF JoinTypes, Database
  <2>4. Refusable'
    BY <1>1, <1>6, <2>2, <2>3 DEF Refusable, Source, Running, JoinTypes, Places, Me
  <2> QED
    BY <1>1, <1>2, <1>6, <2>1, <2>4, Halts
<1>7. CASE ~Fault /\ ~(TurnedAway /\ clone = Missing /\ sites[Source].state # "yes" /\ UNCHANGED clone)
  <2>1. PICK s \in {"add upstream", "register"} :
             /\ s = IF Running({"fork"}) THEN "add upstream" ELSE "register"
             /\ Proceed(s)
    BY <1>7 DEF Clone
  <2>2. s \in JoinSteps
    BY DEF JoinSteps
  <2>3. command'.kind = command.kind /\ command'.org = command.org /\ command'.step = s
    BY <1>1, <2>1, <2>2, Proceeding
  <2>4. clone' \in Directory \cup {Missing} /\ CloneOk' /\ clone' # Missing
        /\ (clone'.mixed \/ clone'.by = <<command.kind, Me>>)
    <3>1. CASE clone # Missing
      BY <1>4, <1>7, <3>1 DEF Clone
    <3>2. CASE clone = Missing
      <4>1. sites[Source].state = "yes" /\ clone' = Cloned(TRUE)
        BY <1>7, <3>2 DEF Clone
      <4>2. clone' \in Directory /\ clone'.by = <<command.kind, Me>>
        BY <1>1, <4>1, ClonedFacts
      <4> QED
        BY <1>3, <4>1, <4>2 DEF JoinAssumption
    <3> QED
      BY <3>1, <3>2
  <2>5. PathOk'
    BY <1>1, <2>1, <2>3, <2>4 DEF PathOk, ForkPath, TrunkPath, Mine, Running, Step, Me
  <2> QED
    BY <1>1, <1>2, <2>1, <2>2, <2>4, <2>5, Goes
<1> QED
  BY <1>5, <1>6, <1>7

-----------------------------------------------------------------------------
(* What is done in the clone. *)

LEMMA HasClone ==
    ASSUME JoinInv, Mine
    PROVE  /\ clone \in Directory /\ CloneOk /\ clone # Missing
           /\ clone.refs \in Refs /\ clone.head \in DOMAIN clone.refs /\ clone.head \in Tips
           /\ Trunk \in DOMAIN clone.refs
           /\ clone.refs[clone.head] \in SUBSET Orgs /\ clone.refs[Trunk] \in SUBSET Orgs
<1>1. clone \in Directory /\ CloneOk /\ clone # Missing
  BY DEF JoinInv, JoinTypes, Mine
<1>2. clone.refs \in Refs /\ clone.head \in DOMAIN clone.refs /\ clone.head \in Tips
  BY <1>1 DEF Directory, CloneOk
<1> QED
  BY <1>1, <1>2, RefFacts

(* Nothing but the command's step and what is in the clone has changed.       *)
LEMMA ClonePart ==
    ASSUME JoinInv, Mine, NEW c \in Directory, clone' = c, UNCHANGED sites, JoinAssumption,
           c.by = clone.by, c.mixed = clone.mixed, c.origin = clone.origin,
           c.head \in DOMAIN c.refs, c.mixed \/ c.by[1] = "fork" \/ c.head = Trunk
    PROVE  /\ clone' \in Directory \cup {Missing} /\ CloneOk' /\ SitesGrow
           /\ command'.kind = command.kind /\ command'.org = command.org => Mine'
<1>1. clone' # Missing /\ CloneOk /\ clone # Missing
  BY HasClone DEF JoinAssumption
<1>2. CloneOk'
  BY <1>1 DEF CloneOk
<1>3. command'.kind = command.kind /\ command'.org = command.org => Mine'
  BY <1>1 DEF Mine, Me
<1> QED
  BY <1>2, <1>3, SameSites

LEMMA FailsStep ==
    ASSUME JoinInv, Fault, UNCHANGED <<sites, clone, config, pulls>> PROVE JoinInv'
<1>1. SitesGrow
  BY SameSites
<1> QED
  BY <1>1, SameClone, Halts

LEMMA UpstreamStep == ASSUME JoinAssumption, JoinInv, AddUpstreamRemote PROVE JoinInv'
<1>1. JoinTypes /\ Running({"fork"}) /\ Mine /\ ~Step("idle")
  BY OnItsWay DEF AddUpstreamRemote, Step, JoinInv
<1>2. CASE Fails
  BY <1>2, FailsStep DEF Fails
<1>3. CASE ~Fails
  <2>1. PICK c : c = [clone EXCEPT !.upstream = TRUE]
    OBVIOUS
  <2>2. clone' = c /\ Proceed("branch") /\ UNCHANGED <<sites, config, pulls>>
    BY <1>3, <2>1 DEF AddUpstreamRemote
  <2>3. clone \in Directory /\ CloneOk /\ clone # Missing
    BY <1>1, HasClone
  <2>4. /\ c \in Directory /\ c.by = clone.by /\ c.mixed = clone.mixed /\ c.origin = clone.origin
        /\ c.head = clone.head /\ c.refs = clone.refs
    BY <2>1, <2>3 DEF Directory
  <2>5. c.head \in DOMAIN c.refs /\ (c.mixed \/ c.by[1] = "fork" \/ c.head = Trunk)
    BY <2>3, <2>4 DEF CloneOk
  <2>6. /\ command'.kind = command.kind /\ command'.org = command.org /\ command'.step = "branch"
        /\ "branch" \in JoinSteps
    BY <1>1, <2>2, Proceeding DEF JoinSteps
  <2>7. clone' \in Directory \cup {Missing} /\ CloneOk' /\ SitesGrow /\ Mine'
    BY <1>1, <2>2, <2>4, <2>5, <2>6, ClonePart
  <2>8. PathOk'
    BY <1>1, <2>6, <2>7 DEF PathOk, ForkPath, Running
  <2> QED
    BY <1>1, <2>2, <2>6, <2>7, <2>8, Goes
<1> QED
  BY <1>2, <1>3

(* Refused for a clone that was cut off.                                      *)
LEMMA CutOffStep ==
    ASSUME JoinInv, Mine, TurnedAway, ~clone.whole \/ clone.mixed,
           UNCHANGED <<sites, clone, config, pulls>>
    PROVE  JoinInv'
<1>1. SitesGrow
  BY SameSites
<1>2. Refusable'
  BY HasClone DEF Refusable
<1> QED
  BY <1>1, <1>2, SameClone, Halts

LEMMA BranchStep == ASSUME JoinAssumption, JoinInv, CheckoutBranch PROVE JoinInv'
<1>1. /\ JoinTypes /\ Running({"fork"}) /\ Mine /\ ~Step("idle") /\ Me \in Orgs
      /\ UNCHANGED <<sites, config, pulls>>
  BY OnItsWay DEF CheckoutBranch, Step, JoinInv
<1>2. CASE Fault /\ UNCHANGED clone
  BY <1>1, <1>2, FailsStep
<1>3. CASE ~clone.whole /\ TurnedAway /\ UNCHANGED clone
  BY <1>1, <1>3, CutOffStep
<1>4. CASE ~(Fault /\ UNCHANGED clone) /\ ~(~clone.whole /\ TurnedAway /\ UNCHANGED clone)
  <2> DEFINE b == RegisterBranch(Me)
  <2>1. PICK r : r = IF b \in DOMAIN clone.refs THEN clone.refs
                     ELSE Put(clone.refs, b, clone.refs[clone.head])
    OBVIOUS
  <2>2. clone' = [clone EXCEPT !.refs = r, !.head = b] /\ Proceed("register")
    BY <1>4, <2>1 DEF CheckoutBranch
  <2>3. b \in Tips
    BY <1>1 DEF Tips
  <2>4. /\ clone \in Directory /\ CloneOk /\ clone # Missing /\ clone.refs \in Refs
        /\ clone.refs[clone.head] \in SUBSET Orgs
    BY <1>1, HasClone
  <2> HIDE DEF b
  <2>5. r \in Refs /\ b \in DOMAIN r
    <3>1. CASE b \in DOMAIN clone.refs
      BY <2>1, <2>4, <3>1
    <3>2. CASE b \notin DOMAIN clone.refs
      <4>1. r = Put(clone.refs, b, clone.refs[clone.head])
        BY <2>1, <3>2
      <4>2. Put(clone.refs, b, clone.refs[clone.head]) \in Refs
            /\ DOMAIN Put(clone.refs, b, clone.refs[clone.head]) = DOMAIN clone.refs \cup {b}
        BY <2>3, <2>4, PutRefs
      <4> QED
        BY <4>1, <4>2
    <3> QED
      BY <3>1, <3>2
  <2>6. PICK c : c = [clone EXCEPT !.refs = r]
    OBVIOUS
  <2>7. /\ c \in Directory /\ c.by = clone.by /\ c.mixed = clone.mixed /\ c.origin = clone.origin
        /\ c.refs = r
    BY <2>4, <2>5, <2>6 DEF Directory
  <2>8. PICK d : d = [c EXCEPT !.head = b]
    OBVIOUS
  <2>9. /\ d \in Directory /\ d.by = clone.by /\ d.mixed = clone.mixed /\ d.origin = clone.origin
        /\ d.refs = r /\ d.head = b
    BY <2>3, <2>7, <2>8 DEF Directory
  <2>10. clone' = d
    BY <2>2, <2>6, <2>8
  <2>11. d.mixed \/ d.by[1] = "fork"
    <3>1. d.mixed \/ d.by = <<command.kind, Me>>
      BY <1>1, <2>9 DEF Mine
    <3>2. command.kind = "fork"
      BY <1>1 DEF Running
    <3> QED
      BY <3>1, <3>2
  <2>12. /\ command'.kind = command.kind /\ command'.org = command.org /\ command'.step = "register"
         /\ "register" \in JoinSteps
    BY <1>1, <2>2, Proceeding DEF JoinSteps
  <2>13. clone' \in Directory \cup {Missing} /\ CloneOk' /\ SitesGrow /\ Mine'
    BY <1>1, <2>5, <2>9, <2>10, <2>11, <2>12, ClonePart
  <2>14. PathOk'
    BY <1>1, <2>9, <2>10, <2>12, <2>13 DEF PathOk, ForkPath, Running, Step, Me, b
  <2> QED
    BY <1>1, <2>2, <2>12, <2>13, <2>14, Goes
<1> QED
  BY <1>2, <1>3, <1>4

LEMMA RegisterStep == ASSUME JoinAssumption, JoinInv, RegisterRig PROVE JoinInv'
<1>1. /\ JoinTypes /\ Running({"fork", "direct", "create"}) /\ Mine /\ ~Step("idle")
      /\ Running({"fork"}) => clone.head = RegisterBranch(Me)
      /\ Me \in Orgs
      /\ UNCHANGED <<sites, config, pulls>>
  BY OnItsWay DEF RegisterRig, Step, JoinInv
<1>2. CASE Fault /\ UNCHANGED clone
  BY <1>1, <1>2, FailsStep
<1>3. CASE ~clone.whole /\ TurnedAway /\ UNCHANGED clone
  BY <1>1, <1>3, CutOffStep
<1>4. CASE ~(Fault /\ UNCHANGED clone) /\ ~(~clone.whole /\ TurnedAway /\ UNCHANGED clone)
  <2>1. PICK r : r = Put(clone.refs, clone.head, clone.refs[clone.head] \cup {Me})
    OBVIOUS
  <2>2. PICK s : /\ s = CASE Running({"fork"}) -> "push" [] Running({"direct"}) -> "push main"
                          [] Running({"create"}) -> "add origin"
                 /\ Proceed(s) /\ clone' = [clone EXCEPT !.refs = r]
    BY <1>4, <2>1 DEF RegisterRig
  <2>3. \/ Running({"fork"}) /\ s = "push"
        \/ Running({"direct"}) /\ s = "push main"
        \/ Running({"create"}) /\ s = "add origin"
    BY <1>1, <2>2 DEF Running
  <2>4. /\ clone \in Directory /\ CloneOk /\ clone # Missing /\ clone.refs \in Refs
        /\ clone.refs[clone.head] \in SUBSET Orgs
        /\ clone.head \in DOMAIN clone.refs /\ clone.head \in Tips
    BY <1>1, HasClone
  <2>5. r \in Refs /\ clone.head \in DOMAIN r /\ Me \in r[clone.head]
    BY <1>1, <2>1, <2>4, PutRefs
  <2>6. PICK c : c = [clone EXCEPT !.refs = r]
    OBVIOUS
  <2>7. /\ c \in Directory /\ c.by = clone.by /\ c.mixed = clone.mixed /\ c.origin = clone.origin
        /\ c.refs = r /\ c.head = clone.head
    BY <2>4, <2>5, <2>6 DEF Directory
  <2>8. clone' = c
    BY <2>2, <2>6
  <2>9. c.mixed \/ c.by[1] = "fork" \/ c.head = Trunk
    BY <2>4, <2>7 DEF CloneOk
  <2>10. s \in JoinSteps
    BY <2>3 DEF JoinSteps
  <2>11. command'.kind = command.kind /\ command'.org = command.org /\ command'.step = s
    BY <1>1, <2>2, <2>10, Proceeding
  <2>12. clone' \in Directory \cup {Missing} /\ CloneOk' /\ SitesGrow /\ Mine'
    BY <1>1, <2>5, <2>7, <2>8, <2>9, <2>11, ClonePart
  <2>13. Running({"direct", "create"}) => clone'.mixed \/ Me \in clone'.refs[Trunk]
    <3>1. clone.mixed \/ clone.by = <<command.kind, Me>>
      BY <1>1 DEF Mine
    <3>2. Running({"direct", "create"}) => clone.mixed \/ clone.head = Trunk
      BY <2>4, <3>1 DEF CloneOk, Running
    <3> QED
      BY <2>5, <2>7, <2>8, <3>2
  <2>14. PathOk'
    <3>1. CASE Running({"fork"})
      BY <1>1, <2>3, <2>5, <2>7, <2>8, <2>11, <2>12, <3>1 DEF PathOk, ForkPath, Running, Step, Me
    <3>2. CASE Running({"direct", "create"})
      BY <2>2, <2>3, <2>11, <2>12, <2>13, <3>2 DEF PathOk, TrunkPath, Running, Step, Me
    <3> QED
      BY <1>1, <3>1, <3>2 DEF Running
  <2> QED
    BY <1>1, <2>2, <2>10, <2>12, <2>14, Goes
<1> QED
  BY <1>2, <1>3, <1>4

LEMMA MainStep == ASSUME JoinAssumption, JoinInv, CheckoutMain PROVE JoinInv'
<1>1. JoinTypes /\ Running({"fork"}) /\ Mine /\ ~Step("idle") /\ (clone.mixed \/ Offered(Me))
  BY OnItsWay DEF CheckoutMain, Step, JoinInv
<1>2. CASE Fails
  BY <1>2, FailsStep DEF Fails
<1>3. CASE ~Fails
  <2>1. PICK c : c = [clone EXCEPT !.head = Trunk]
    OBVIOUS
  <2>2. clone' = c /\ Proceed("pull request") /\ UNCHANGED <<sites, config, pulls>>
    BY <1>3, <2>1 DEF CheckoutMain
  <2>3. clone \in Directory /\ CloneOk /\ clone # Missing /\ Trunk \in DOMAIN clone.refs
    BY <1>1, HasClone
  <2>4. /\ c \in Directory /\ c.by = clone.by /\ c.mixed = clone.mixed /\ c.origin = clone.origin
        /\ c.head = Trunk /\ c.refs = clone.refs
    BY <2>1, <2>3 DEF Directory, Tips
  <2>5. /\ command'.kind = command.kind /\ command'.org = command.org
        /\ command'.step = "pull request" /\ "pull request" \in JoinSteps
    BY <1>1, <2>2, Proceeding DEF JoinSteps
  <2>6. clone' \in Directory \cup {Missing} /\ CloneOk' /\ SitesGrow /\ Mine'
    BY <1>1, <2>2, <2>3, <2>4, <2>5, ClonePart
  <2>7. PathOk'
    BY <1>1, <2>2, <2>4, <2>5, <2>6 DEF PathOk, ForkPath, Running, Offered, Me
  <2> QED
    BY <1>1, <2>2, <2>5, <2>6, <2>7, Goes
<1> QED
  BY <1>2, <1>3

-----------------------------------------------------------------------------
(* What is sent to a database. *)

LEMMA Written ==
    ASSUME JoinAssumption, JoinInv, NEW p \in Places, NEW d \in Database,
           sites' = [sites EXCEPT ![p] = d], d.state \in {sites[p].state, "yes"},
           DOMAIN sites[p].refs \subseteq DOMAIN d.refs,
           p = Up => sites[Up].refs[Trunk] \subseteq d.refs[Trunk],
           p \in Orgs => /\ sites[p].state # "no"
                         /\ Offered(p) => p \in d.refs[RegisterBranch(p)]
    PROVE  SitesGrow /\ sites'[p] = d /\ \A q \in Places : q # p => sites'[q] = sites[q]
<1>1. JoinTypes
  BY DEF JoinInv
<1>2. /\ sites' \in [Places -> Database] /\ sites'[p] = d
      /\ \A q \in Places : q # p => sites'[q] = sites[q]
  BY <1>1 DEF JoinTypes
<1>3. Up \in Places /\ Orgs \subseteq Places
  BY DEF Places
<1>4. sites'[Up].state # "empty" /\ sites[Up].refs[Trunk] \subseteq sites'[Up].refs[Trunk]
  BY <1>1, <1>2, <1>3 DEF JoinTypes
<1>5. ASSUME NEW o \in Orgs
      PROVE  /\ Offered(o) => Offered(o)'
             /\ RegisterBranch(o) \in DOMAIN sites[o].refs
                   => RegisterBranch(o) \in DOMAIN sites'[o].refs
             /\ sites[o].state = "yes" => sites'[o].state = "yes"
             /\ sites[o].state # "no" => sites'[o].state # "no"
             /\ sites'[o].state = "no" => RegisterBranch(o) \notin DOMAIN sites'[o].refs
  <2>1. CASE o = p
    BY <1>2, <1>5, <2>1 DEF Offered
  <2>2. CASE o # p
    <3>1. sites'[o] = sites[o]
      BY <1>2, <1>3, <2>2
    <3> QED
      BY <3>1 DEF Offered, JoinInv, SitesOk
  <2> QED
    BY <2>1, <2>2
<1> QED
  BY <1>2, <1>4, <1>5 DEF SitesGrow

(* A database whose references are replaced.                                  *)
LEMMA NewRefs ==
    ASSUME JoinTypes, NEW p \in Places, NEW r \in Refs
    PROVE  \E d \in Database : /\ d = [sites[p] EXCEPT !.refs = r]
                               /\ d.state = sites[p].state /\ d.refs = r
<1>1. sites[p] \in Database
  BY DEF JoinTypes
<1>2. PICK d : d = [sites[p] EXCEPT !.refs = r]
  OBVIOUS
<1>3. d \in Database /\ d.state = sites[p].state /\ d.refs = r
  BY <1>1, <1>2 DEF Database
<1> QED
  BY <1>2, <1>3

LEMMA PushStep == ASSUME JoinAssumption, JoinInv, Push PROVE JoinInv'
<1> DEFINE b == RegisterBranch(Me)
<1>1. /\ JoinTypes /\ Running({"fork"}) /\ Mine /\ ~Step("idle") /\ Me \in Orgs
      /\ b \in DOMAIN clone.refs /\ Me \in clone.refs[b]
      /\ UNCHANGED <<clone, config, pulls>>
  BY OnItsWay DEF Push, Step, JoinInv
<1>2. /\ clone \in Directory /\ CloneOk /\ clone # Missing /\ clone.refs \in Refs
  BY <1>1, HasClone
<1>3. CASE Fault /\ UNCHANGED sites
  BY <1>1, <1>3, FailsStep
<1>4. clone.origin = Missing => clone.mixed
  BY <1>1, <1>2 DEF Mine, CloneOk, Running, JoinAssumption, Me
<1>5. CASE clone.origin = Missing /\ TurnedAway /\ UNCHANGED sites
  BY <1>1, <1>4, <1>5, CutOffStep
<1>6. CASE ~(Fault /\ UNCHANGED sites) /\ ~(clone.origin = Missing /\ TurnedAway /\ UNCHANGED sites)
  <2>1. PICK p : p = clone.origin
    OBVIOUS
  <2>2. PICK r : r = Put(sites[p].refs, b, clone.refs[b])
    OBVIOUS
  <2>3. sites' = [sites EXCEPT ![p].refs = r] /\ Proceed("main") /\ p # Missing
    BY <1>6, <2>1, <2>2 DEF Push
  <2>4. p \in Places
    BY <1>2, <2>1, <2>3 DEF Directory, Places
  <2>5. b \in Tips /\ clone.refs[b] \in SUBSET Orgs /\ sites[p].refs \in Refs
    BY <1>1, <1>2, <2>4, RefFacts DEF JoinTypes, Database
  <2>6. /\ r \in Refs /\ DOMAIN r = DOMAIN sites[p].refs \cup {b} /\ r[b] = clone.refs[b]
        /\ \A x \in DOMAIN sites[p].refs : x # b => r[x] = sites[p].refs[x]
    <3> HIDE DEF b
    <3>1. PICK t : t = clone.refs[b]
      OBVIOUS
    <3>2. PICK old : old = sites[p].refs
      OBVIOUS
    <3>3. r = Put(old, b, t) /\ old \in Refs /\ t \in SUBSET Orgs
      BY <2>2, <2>5, <3>1, <3>2
    <3>4. PICK branch : branch = b
      OBVIOUS
    <3>5. branch \in Tips /\ r = Put(old, branch, t)
      BY <2>5, <3>3, <3>4
    <3>6. /\ r \in Refs /\ DOMAIN r = DOMAIN old \cup {branch} /\ r[branch] = t
          /\ \A x \in DOMAIN old : x # branch => r[x] = old[x]
      BY <3>3, <3>5, PutRefs
    <3> QED
      BY <3>1, <3>2, <3>4, <3>6
  <2>7. PICK d \in Database : /\ d = [sites[p] EXCEPT !.refs = r]
                              /\ d.state = sites[p].state /\ d.refs = r
    BY <1>1, <2>4, <2>6, NewRefs
  <2>8. sites' = [sites EXCEPT ![p] = d]
    BY <2>3, <2>7
  <2>9. p = Up => sites[Up].refs[Trunk] \subseteq d.refs[Trunk]
    BY <1>1, <2>5, <2>6, <2>7, RefFacts DEF JoinAssumption, RegisterBranch
  <2>10. ASSUME p \in Orgs
         PROVE  sites[p].state # "no" /\ (Offered(p) => p \in d.refs[RegisterBranch(p)])
    <3>1. sites[p].state # "no"
      BY <1>2, <2>1, <2>10 DEF CloneOk
    <3>2. CASE p = Me
      BY <1>1, <2>6, <2>7, <3>1, <3>2
    <3>3. CASE p # Me
      <4>1. RegisterBranch(p) # b
        BY <3>3 DEF RegisterBranch
      <4> QED
        BY <2>6, <2>7, <3>1, <4>1 DEF Offered
    <3> QED
      BY <3>2, <3>3
  <2>11. /\ SitesGrow /\ sites'[p] = d
    BY <2>4, <2>6, <2>7, <2>8, <2>9, <2>10, Written
  <2>12. /\ command'.kind = command.kind /\ command'.org = command.org /\ command'.step = "main"
         /\ "main" \in JoinSteps
    BY <1>1, <2>3, Proceeding DEF JoinSteps
  <2>13. clone.mixed \/ Offered(Me)'
    <3>1. CASE ~clone.mixed
      <4>1. p = Me
        BY <1>1, <1>2, <2>1, <3>1 DEF Mine, CloneOk, Running
      <4> QED
        <5>1. sites'[p].refs = r /\ b \in DOMAIN r /\ p \in r[b]
          BY <1>1, <2>6, <2>7, <2>11, <4>1
        <5>2. p = command'.org /\ b = RegisterBranch(p)
          BY <2>12, <4>1 DEF Me
        <5> QED
          BY <5>1, <5>2, <2>12 DEF Offered, Me
    <3> QED
      BY <3>1
  <2>14. clone' \in Directory \cup {Missing} /\ CloneOk'
    BY <1>1, <2>11, SameClone
  <2>15. PathOk'
    BY <1>1, <2>12, <2>13 DEF PathOk, ForkPath, Running, Mine, Me, Offered
  <2> QED
    BY <1>1, <2>3, <2>11, <2>12, <2>14, <2>15, Goes
<1> QED
  BY <1>3, <1>5, <1>6

LEMMA ExecStep == ASSUME JoinAssumption, JoinInv, Exec PROVE JoinInv'
<1> DEFINE b == RegisterBranch(Me)
           from == IF b \in DOMAIN sites[Me].refs THEN b ELSE Trunk
           r == Put(sites[Me].refs, b, sites[Me].refs[from] \cup {Me})
           written == [sites EXCEPT ![Me].refs = r]
<1>1. /\ JoinTypes /\ Running({"remote", "hosted"}) /\ ~Step("idle") /\ Me \in Orgs
      /\ sites[Me].state # "no" /\ UNCHANGED <<clone, config, pulls>>
  BY OnItsWay DEF Exec, Step, JoinInv
<1>2. Me \in Places /\ sites[Me].refs \in Refs /\ sites[Me].state \in {"no", "empty", "yes"}
      /\ b \in Tips
  BY <1>1 DEF JoinTypes, Places, Database, Tips
<1>3. from \in DOMAIN sites[Me].refs /\ sites[Me].refs[from] \in SUBSET Orgs
  BY <1>2, RefFacts
<1>4. /\ r \in Refs /\ DOMAIN r = DOMAIN sites[Me].refs \cup {b}
      /\ r[b] = sites[Me].refs[from] \cup {Me}
  <2> HIDE DEF from
  <2>1. PICK t : t = sites[Me].refs[from] \cup {Me}
    OBVIOUS
  <2>2. PICK old : old = sites[Me].refs
    OBVIOUS
  <2>3. r = Put(old, b, t) /\ old \in Refs /\ t \in SUBSET Orgs
    BY <1>1, <1>2, <1>3, <2>1, <2>2
  <2> HIDE DEF b, r
  <2>4. r \in Refs /\ DOMAIN r = DOMAIN old \cup {b} /\ r[b] = t
    BY <1>2, <2>3, PutRefs, SMTT(30)
  <2> QED
    BY <2>1, <2>2, <2>4
<1>5. ASSUME sites' = written
      PROVE  SitesGrow /\ b \in DOMAIN sites'[Me].refs /\ Me \in sites'[Me].refs[b]
  <2> HIDE DEF from, r
  <2>1. PICK d \in Database : /\ d = [sites[Me] EXCEPT !.refs = r]
                              /\ d.state = sites[Me].state /\ d.refs = r
    BY <1>1, <1>2, <1>4, NewRefs
  <2>2. sites' = [sites EXCEPT ![Me] = d]
    BY <1>5, <2>1
  <2>3. Me # Up
    BY <1>1 DEF JoinAssumption
  <2>4. PICK o \in Orgs : o = Me
    BY <1>1
  <2>5. SitesGrow /\ sites'[o] = d
    BY <1>1, <1>2, <1>4, <2>1, <2>2, <2>3, <2>4, Written
  <2> QED
    BY <1>4, <2>1, <2>4, <2>5
<1>6. sites' = sites => SitesGrow
  BY SameSites
<1>7. SitesGrow => clone' \in Directory \cup {Missing} /\ CloneOk'
  BY <1>1, SameClone
<1> HIDE DEF written
<1>8. CASE Fault
  <2>1. sites' = sites \/ sites' = written
    BY <1>8 DEF Exec, written, r, from, b
  <2> QED
    BY <1>1, <1>5, <1>6, <1>7, <1>8, <2>1, Halts
<1>9. CASE sites[Me].state # "yes" /\ TurnedAway /\ UNCHANGED sites
  <2>1. command'.org = command.org
    BY <1>1, <1>9, Finishing DEF TurnedAway
  <2>2. Refusable'
    BY <1>1, <1>2, <1>9, <2>1 DEF Refusable, Me
  <2> QED
    BY <1>1, <1>6, <1>7, <1>9, <2>2, Halts
<1>10. CASE sites' = written /\ Proceed("pull request")
  <2>1. SitesGrow /\ b \in DOMAIN sites'[Me].refs /\ Me \in sites'[Me].refs[b]
    BY <1>5, <1>10
  <2>2. /\ command'.kind = command.kind /\ command'.org = command.org
        /\ command'.step = "pull request" /\ "pull request" \in JoinSteps
    BY <1>1, <1>10, Proceeding DEF JoinSteps
  <2>3. PathOk'
    BY <1>1, <2>1, <2>2 DEF PathOk, ApiPath, Running, Step, Offered, Me
  <2> QED
    BY <1>1, <1>7, <1>10, <2>1, <2>2, <2>3, Goes
<1> QED
  BY <1>8, <1>9, <1>10 DEF Exec, written, r, from, b

-----------------------------------------------------------------------------
(* The pull request, the push of a direct join, and the configuration. *)

LEMMA CreatePRStep == ASSUME JoinAssumption, JoinInv, CreatePR PROVE JoinInv'
<1>1. /\ JoinTypes /\ ~Step("idle") /\ Me \in Orgs /\ UNCHANGED <<sites, clone, config>>
      /\ \/ Running({"fork"}) /\ Mine /\ (clone.mixed \/ Offered(Me))
         \/ Running({"remote", "hosted"}) /\ Offered(Me)
  BY OnItsWay DEF CreatePR, Step, JoinInv
<1>2. SitesGrow /\ clone' \in Directory \cup {Missing} /\ CloneOk'
  BY <1>1, SameSites, SameClone
<1>3. \A o \in pulls' : o \in Orgs /\ RegisterBranch(o) \in DOMAIN sites'[o].refs
  <2>1. \A o \in pulls : o \in Orgs /\ RegisterBranch(o) \in DOMAIN sites'[o].refs
    BY <1>1 DEF JoinInv, SitesOk
  <2>2. \/ pulls' = pulls
        \/ pulls' = pulls \cup {Me} /\ RegisterBranch(Me) \in DOMAIN sites'[Me].refs
    BY <1>1 DEF CreatePR
  <2> QED
    BY <1>1, <2>1, <2>2
<1>4. outcome # "failed cleanly"
  BY <1>1 DEF JoinInv
<1>5. CASE Running({"hosted"})
  <2>1. Finish("ok")
    BY <1>5 DEF CreatePR
  <2>2. command' \in Command /\ command'.step = "idle" /\ outcome' = "ok"
    BY <1>1, <2>1, Finishing
  <2>3. PathOk'
    BY <2>2 DEF PathOk
  <2> QED
    BY <1>1, <1>2, <1>3, <2>2, <2>3, JoinKeeps
<1>6. CASE ~Running({"hosted"})
  <2>1. Proceed("save") /\ "save" \in JoinSteps
    BY <1>6 DEF CreatePR, JoinSteps
  <2>2. /\ command' \in Command /\ command'.kind = command.kind /\ command'.org = command.org
        /\ command'.step = "save" /\ outcome' = outcome
    BY <1>1, <2>1, Proceeding
  <2>3. PathOk'
    BY <1>1, <1>6, <2>2 DEF PathOk, ForkPath, ApiPath, Running, Step, Mine, Offered, Me
  <2> QED
    BY <1>1, <1>2, <1>3, <1>4, <2>2, <2>3, JoinKeeps
<1> QED
  BY <1>5, <1>6

LEMMA PushMainStep == ASSUME JoinAssumption, JoinInv, PushMain PROVE JoinInv'
<1>1. /\ JoinTypes /\ Running({"direct", "create"}) /\ Mine /\ ~Step("idle") /\ Me \in Orgs
      /\ Running({"create"}) => clone.origin = Up
      /\ clone.mixed \/ Me \in clone.refs[Trunk]
      /\ UNCHANGED <<clone, config, pulls>>
  BY OnItsWay DEF PushMain, Step, JoinInv
<1>2. /\ clone \in Directory /\ CloneOk /\ clone # Missing /\ clone.refs \in Refs
      /\ clone.refs[Trunk] \in SUBSET Orgs
  BY <1>1, HasClone
<1>3. CASE Fault /\ UNCHANGED sites
  BY <1>1, <1>3, FailsStep
<1>4. clone.mixed \/ clone.origin = Up
  BY <1>1, <1>2 DEF Mine, CloneOk, Running
<1> DEFINE forward == clone.origin # Missing
                         /\ sites[clone.origin].refs[Trunk] \subseteq clone.refs[Trunk]
<1>5. CASE ~forward /\ TurnedAway /\ UNCHANGED sites
  <2>1. command'.kind = command.kind /\ command'.org = command.org
    BY <1>1, <1>5, Finishing DEF TurnedAway
  <2>2. Up # Missing
    BY DEF JoinAssumption
  <2>3. clone.mixed \/ ~(sites[Up].refs[Trunk] \subseteq clone.refs[Trunk])
    BY <1>4, <1>5, <2>2
  <2>4. Refusable'
    BY <1>1, <1>2, <1>5, <2>1, <2>3 DEF Refusable, Running
  <2>5. SitesGrow
    BY <1>5, SameSites
  <2> QED
    BY <1>1, <1>5, <2>4, <2>5, SameClone, Halts
<1>6. CASE ~(Fault /\ UNCHANGED sites) /\ ~(~forward /\ TurnedAway /\ UNCHANGED sites)
  <2>1. PICK p : p = clone.origin
    OBVIOUS
  <2>2. PICK t : t = clone.refs[Trunk]
    OBVIOUS
  <2>3. PICK r : r = Put(sites[p].refs, Trunk, t)
    OBVIOUS
  <2>4. /\ sites' = [sites EXCEPT ![p] = [state |-> "yes", refs |-> Put(@.refs, Trunk, t)]]
        /\ Proceed("save") /\ p # Missing /\ sites[p].refs[Trunk] \subseteq t
    BY <1>6, <2>1, <2>2 DEF PushMain
  <2>5. p \in Places
    BY <1>2, <2>1, <2>4 DEF Directory, Places
  <2>6. sites' = [sites EXCEPT ![p] = [state |-> "yes", refs |-> r]]
    BY <1>1, <2>3, <2>4, <2>5 DEF JoinTypes
  <2>7. t \in SUBSET Orgs /\ Trunk \in Tips
    BY <1>2, <2>2 DEF Tips
  <2>8. PICK old \in Refs : old = sites[p].refs
    BY <1>1, <2>5 DEF JoinTypes, Database
  <2>9. /\ r \in Refs /\ DOMAIN r = DOMAIN old \cup {Trunk} /\ r[Trunk] = t
        /\ \A x \in DOMAIN old : x # Trunk => r[x] = old[x]
    <3>1. r = Put(old, Trunk, t)
      BY <2>3, <2>8
    <3> QED
      BY <2>7, <3>1, PutRefs
  <2>10. PICK d \in Database : d = [state |-> "yes", refs |-> r]
    BY <2>9 DEF Database
  <2>11. d.state = "yes" /\ d.refs = r /\ sites' = [sites EXCEPT ![p] = d]
    BY <2>6, <2>10
  <2>12. p = Up => sites[Up].refs[Trunk] \subseteq d.refs[Trunk]
    BY <2>4, <2>9, <2>11
  <2>13. ASSUME p \in Orgs
         PROVE  sites[p].state # "no" /\ (Offered(p) => p \in d.refs[RegisterBranch(p)])
    <3>1. sites[p].state # "no"
      BY <1>2, <2>1, <2>13 DEF CloneOk
    <3>2. RegisterBranch(p) # Trunk
      BY <2>13 DEF RegisterBranch, JoinAssumption
    <3> QED
      BY <2>8, <2>9, <2>11, <3>1, <3>2 DEF Offered
  <2>14. SitesGrow /\ sites'[p] = d
    BY <2>5, <2>8, <2>9, <2>11, <2>12, <2>13, Written
  <2>15. /\ command'.kind = command.kind /\ command'.org = command.org /\ command'.step = "save"
         /\ "save" \in JoinSteps
    BY <1>1, <2>4, Proceeding DEF JoinSteps
  <2>16. clone.mixed \/ Me \in sites'[Up].refs[Trunk]
    BY <1>1, <1>4, <2>1, <2>2, <2>9, <2>11, <2>14
  <2>17. clone' \in Directory \cup {Missing} /\ CloneOk'
    BY <1>1, <2>14, SameClone
  <2>18. PathOk'
    BY <1>1, <2>15, <2>16 DEF PathOk, TrunkPath, Running, Mine, Me, Step
  <2> QED
    BY <1>1, <2>4, <2>14, <2>15, <2>17, <2>18, Goes
<1> QED
  BY <1>3, <1>5, <1>6

LEMMA SaveStep == ASSUME JoinAssumption, JoinInv, SaveConfig PROVE JoinInv'
<1>1. /\ JoinTypes /\ Me \in Orgs /\ command.kind \in Ways
      /\ \/ Running({"fork"}) /\ Mine /\ (clone.mixed \/ Offered(Me))
         \/ Running({"remote"}) /\ Offered(Me)
         \/ Running({"direct", "create"}) /\ Mine /\ (clone.mixed \/ Me \in sites[Up].refs[Trunk])
  BY OnItsWay DEF SaveConfig, JoinInv
<1>2. CASE Fails
  BY <1>2, FailsStep DEF Fails
<1>3. CASE ~Fails
  <2>1. PICK m : m = (~Running({"remote"}) /\ clone.mixed)
    OBVIOUS
  <2>2. PICK c : c = [kind |-> command.kind, org |-> Me, mixed |-> m]
    OBVIOUS
  <2>3. config' = c /\ Finish("ok") /\ UNCHANGED <<sites, clone, pulls>>
    BY <1>3, <2>1, <2>2 DEF SaveConfig
  <2>4. m \in BOOLEAN
    BY <2>1
  <2>5. c \in Configuration /\ c.kind = command.kind /\ c.org = Me /\ c.mixed = m
    BY <1>1, <2>2, <2>4 DEF Configuration
  <2>6. command' \in Command /\ command'.step = "idle" /\ outcome' = "ok"
    BY <1>1, <2>3, Finishing
  <2>7. c.mixed \/ Registered(c)
    <3>1. CASE Running({"fork"})
      BY <1>1, <2>1, <2>5, <3>1 DEF Registered, Offered, Running
    <3>2. CASE Running({"remote"})
      BY <1>1, <2>5, <3>2 DEF Registered, Offered, Running
    <3>3. CASE Running({"direct", "create"})
      BY <1>1, <2>1, <2>5, <3>3 DEF Registered, Running
    <3> QED
      BY <1>1, <3>1, <3>2, <3>3
  <2>8. ConfiguredIsRegistered'
    BY <2>3, <2>7 DEF ConfiguredIsRegistered, Registered
  <2>9. JoinTypes' /\ SitesOk' /\ CloneOk'
    BY <1>1, <2>3, <2>5, <2>6 DEF JoinTypes, SitesOk, CloneOk, JoinInv
  <2>10. PathOk' /\ RetryHeals'
    BY <2>6 DEF PathOk, RetryHeals
  <2> QED
    BY <2>6, <2>8, <2>9, <2>10 DEF JoinInv
<1> QED
  BY <1>2, <1>3

-----------------------------------------------------------------------------
(* Creating a wasteland. *)

LEMMA InitStep == ASSUME JoinAssumption, JoinInv, InitDatabase PROVE JoinInv'
<1>1. JoinTypes /\ ~Step("idle") /\ Me \in Orgs /\ Running({"create"})
  BY OnItsWay DEF InitDatabase, Step, JoinInv
<1>2. CASE Fails
  BY <1>2, FailsStep DEF Fails
<1>3. CASE ~Fails
  <2>1. PICK c : c = [origin |-> Missing, upstream |-> FALSE, head |-> Trunk, refs |-> Only({}),
                      whole |-> TRUE, by |-> <<command.kind, Me>>, mixed |-> FALSE]
    OBVIOUS
  <2>2. clone' = c /\ Proceed("schema") /\ UNCHANGED <<sites, config, pulls>>
    BY <1>3, <2>1 DEF InitDatabase
  <2>3. Only({}) \in Refs /\ DOMAIN Only({}) = {Trunk}
    BY OnlyRefs
  <2>4. <<command.kind, Me>> \in {"fork", "direct", "create"} \X Orgs
    BY <1>1 DEF Running
  <2>5. /\ c \in Directory /\ c.by = <<command.kind, Me>> /\ c.origin = Missing /\ c.head = Trunk
        /\ c.refs = Only({})
    BY <2>1, <2>3, <2>4 DEF Directory, Tips
  <2>6. clone' # Missing /\ CloneOk'
    BY <1>1, <2>2, <2>3, <2>5 DEF CloneOk, Running, JoinAssumption
  <2>7. /\ command'.kind = command.kind /\ command'.org = command.org /\ command'.step = "schema"
        /\ "schema" \in JoinSteps
    BY <1>1, <2>2, Proceeding DEF JoinSteps
  <2>8. PathOk'
    BY <1>1, <2>2, <2>5, <2>6, <2>7 DEF PathOk, TrunkPath, Mine, Running, Step, Me
  <2>9. SitesGrow
    BY <2>2, SameSites
  <2> QED
    BY <1>1, <2>2, <2>5, <2>6, <2>7, <2>8, <2>9, Goes
<1> QED
  BY <1>2, <1>3

LEMMA SchemaStep == ASSUME JoinAssumption, JoinInv, ApplySchema PROVE JoinInv'
<1>1. JoinTypes /\ ~Step("idle") /\ Running({"create"}) /\ Mine
  BY OnItsWay DEF ApplySchema, Step, JoinInv
<1>2. CASE Fails
  BY <1>2, FailsStep DEF Fails
<1>3. CASE ~Fails
  <2>1. Proceed("register") /\ "register" \in JoinSteps /\ UNCHANGED <<sites, clone, config, pulls>>
    BY <1>3 DEF ApplySchema, JoinSteps
  <2>2. SitesGrow
    BY <2>1, SameSites
  <2>3. command'.kind = command.kind /\ command'.org = command.org /\ command'.step = "register"
    BY <1>1, <2>1, Proceeding
  <2>4. PathOk'
    BY <1>1, <2>1, <2>3 DEF PathOk, TrunkPath, Mine, Running, Step, Me
  <2> QED
    BY <1>1, <2>1, <2>2, <2>4, SameClone, Goes
<1> QED
  BY <1>2, <1>3

LEMMA AddOriginStep == ASSUME JoinAssumption, JoinInv, AddOrigin PROVE JoinInv'
<1>1. /\ JoinTypes /\ Running({"create"}) /\ Mine /\ ~Step("idle")
      /\ clone.mixed \/ Me \in clone.refs[Trunk]
  BY OnItsWay DEF AddOrigin, Step, JoinInv
<1>2. CASE Fails
  BY <1>2, FailsStep DEF Fails
<1>3. CASE ~Fails
  <2>1. PICK c : c = [clone EXCEPT !.origin = Up]
    OBVIOUS
  <2>2. clone' = c /\ Proceed("push main") /\ UNCHANGED <<sites, config, pulls>>
    BY <1>3, <2>1 DEF AddOrigin
  <2>3. clone \in Directory /\ CloneOk /\ clone # Missing
    BY <1>1, HasClone
  <2>4. /\ c \in Directory /\ c.by = clone.by /\ c.mixed = clone.mixed /\ c.origin = Up
        /\ c.head = clone.head /\ c.refs = clone.refs
    BY <2>1, <2>3 DEF Directory
  <2>5. clone.mixed \/ clone.by = <<"create", Me>>
    BY <1>1 DEF Mine, Running
  <2>6. clone' # Missing /\ CloneOk'
    <3>1. Up \notin Orgs /\ clone' # Missing /\ clone' = c
      BY <2>2, <2>4 DEF JoinAssumption
    <3>2. c.head \in DOMAIN c.refs /\ (c.mixed \/ c.by[1] = "fork" \/ c.head = Trunk)
      BY <2>3, <2>4 DEF CloneOk
    <3>3. c.mixed \/ c.by[1] = "create"
      BY <2>4, <2>5
    <3> QED
      BY <2>4, <3>1, <3>2, <3>3 DEF CloneOk
  <2>7. /\ command'.kind = command.kind /\ command'.org = command.org
        /\ command'.step = "push main" /\ "push main" \in JoinSteps
    BY <1>1, <2>2, Proceeding DEF JoinSteps
  <2>8. PathOk'
    BY <1>1, <2>2, <2>4, <2>6, <2>7 DEF PathOk, TrunkPath, Mine, Running, Step, Me
  <2>9. SitesGrow
    BY <2>2, SameSites
  <2> QED
    BY <1>1, <2>2, <2>4, <2>6, <2>7, <2>8, <2>9, Goes
<1> QED
  BY <1>2, <1>3

-----------------------------------------------------------------------------
(* Between the commands. *)

LEMMA LeaveStep == ASSUME JoinInv, Leave PROVE JoinInv'
<1>1. SitesGrow /\ JoinTypes
  BY SameSites DEF Leave, JoinInv
<1>2. clone' \in Directory \cup {Missing} /\ CloneOk'
  BY <1>1, SameClone DEF Leave
<1>3. PathOk' /\ command' \in Command
  BY <1>1 DEF Leave, PathOk, Step, JoinTypes
<1>4. outcome' = "failed cleanly" => command'.step = "idle" /\ Refusable'
  BY DEF Leave, Step, JoinInv, RetryHeals, Refusable, Running, Me
<1> QED
  BY <1>1, <1>2, <1>3, <1>4, JoinKeeps, Merely DEF Leave

LEMMA RemoveCloneStep == ASSUME JoinInv, RemoveClone PROVE JoinInv'
<1>1. SitesGrow /\ JoinTypes
  BY SameSites DEF RemoveClone, JoinInv
<1>2. clone' \in Directory \cup {Missing} /\ CloneOk'
  BY DEF RemoveClone, CloneOk
<1>3. PathOk' /\ command' \in Command
  BY <1>1 DEF RemoveClone, PathOk, Step, JoinTypes
<1>4. outcome' # "failed cleanly"
  BY DEF RemoveClone
<1> QED
  BY <1>1, <1>2, <1>3, <1>4, JoinKeeps, Merely DEF RemoveClone

LEMMA MergeStep == ASSUME JoinAssumption, JoinInv, NEW o \in Orgs, MergeRegistration(o) PROVE JoinInv'
<1>1. JoinTypes /\ UNCHANGED <<clone, config, command, outcome>> /\ pulls' = pulls \ {o}
  BY DEF MergeRegistration, JoinInv
<1>2. Up \in Places /\ o \in Places /\ Trunk \in Tips
  BY DEF Places, Tips
<1>3. PICK old \in Refs : old = sites[Up].refs
  BY <1>1, <1>2 DEF JoinTypes, Database
<1>4. PICK t : t = old[Trunk] \cup sites[o].refs[RegisterBranch(o)]
  OBVIOUS
<1>5. t \in SUBSET Orgs
  <2>1. sites[o].refs \in Refs
    BY <1>1, <1>2 DEF JoinTypes, Database
  <2>2. RegisterBranch(o) \in DOMAIN sites[o].refs
    BY DEF JoinInv, SitesOk, MergeRegistration
  <2> QED
    BY <1>3, <1>4, <2>1, <2>2, RefFacts
<1>6. PICK r : r = Put(old, Trunk, t)
  OBVIOUS
<1>7. r \in Refs /\ DOMAIN r = DOMAIN old \cup {Trunk} /\ r[Trunk] = t
  BY <1>2, <1>5, <1>6, PutRefs
<1>8. PICK d \in Database : /\ d = [sites[Up] EXCEPT !.refs = r]
                            /\ d.state = sites[Up].state /\ d.refs = r
  BY <1>1, <1>2, <1>7, NewRefs
<1>9. sites' = [sites EXCEPT ![Up] = d]
  BY <1>3, <1>4, <1>6, <1>8 DEF MergeRegistration
<1>10. Up \notin Orgs
  BY DEF JoinAssumption
<1>11. sites[Up].refs[Trunk] \subseteq d.refs[Trunk]
  BY <1>3, <1>4, <1>7, <1>8
<1>12. SitesGrow /\ sites'[Up] = d /\ \A q \in Places : q # Up => sites'[q] = sites[q]
  BY <1>2, <1>3, <1>7, <1>8, <1>9, <1>10, <1>11, Written
<1>13. clone' \in Directory \cup {Missing} /\ CloneOk'
  BY <1>1, <1>12, SameClone
<1>14. command' \in Command /\ Me \in Orgs
  BY <1>1 DEF JoinTypes, Command, Me
<1>15. PathOk'
  <2>1. PathOk
    BY DEF JoinInv
  <2>2. Me' = Me /\ (Mine <=> Mine') /\ (Offered(Me) => Offered(Me)')
        /\ (sites[Me].state # "no" => sites'[Me].state # "no")
        /\ (Me \in sites[Up].refs[Trunk] => Me \in sites'[Up].refs[Trunk])
    BY <1>1, <1>12, <1>14 DEF Mine, Me, SitesGrow, Offered
  <2>3. ForkPath => ForkPath'
    BY <1>1, <2>2 DEF ForkPath, Running, Step, Offered
  <2>4. ApiPath => ApiPath'
    BY <1>1, <2>2 DEF ApiPath, Running, Step, Offered
  <2>5. TrunkPath => TrunkPath'
    BY <1>1, <2>2 DEF TrunkPath, Running, Step
  <2> QED
    BY <1>1, <2>1, <2>3, <2>4, <2>5 DEF PathOk
<1>16. outcome' = "failed cleanly" => command'.step = "idle" /\ Refusable'
  <2>1. SUFFICES ASSUME outcome = "failed cleanly" PROVE command.step = "idle" /\ Refusable'
    BY <1>1
  <2>2. Refusable /\ command.step = "idle"
    BY <2>1 DEF JoinInv, RetryHeals, Refusable, Step
  <2>3. sites'[Up].state = sites[Up].state /\ sites'[Me].state = sites[Me].state
    BY <1>8, <1>10, <1>12, <1>14 DEF Places
  <2>4. sites[Up].refs[Trunk] \subseteq sites'[Up].refs[Trunk]
    BY <1>12 DEF SitesGrow
  <2> QED
    BY <1>1, <2>2, <2>3, <2>4 DEF Refusable, Running, Me
<1>17. \A q \in pulls' : q \in Orgs /\ RegisterBranch(q) \in DOMAIN sites'[q].refs
  BY <1>1, <1>12 DEF JoinInv, SitesOk, SitesGrow
<1> QED
  BY <1>1, <1>12, <1>13, <1>14, <1>15, <1>16, <1>17, JoinKeeps

-----------------------------------------------------------------------------
LEMMA JoinInitially == ASSUME JoinAssumption, JoinInit PROVE JoinInv
<1>1. clone = Missing /\ config = Missing /\ pulls = {} /\ outcome = "none"
  BY DEF JoinInit
<1>2. PICK o \in Orgs : command = [kind |-> "fork", org |-> o, step |-> "idle", faulty |-> FALSE]
  BY DEF JoinInit
<1>3. command \in Command /\ command.step = "idle"
  BY <1>2 DEF Command, Ways, JoinSteps
<1>4. PICK up \in {"yes", "no"} :
         sites = [s \in Places |-> IF s = Up THEN [state |-> up, refs |-> Only({})] ELSE NoSite]
  BY DEF JoinInit, Places
<1>5. Only({}) \in Refs /\ DOMAIN Only({}) = {Trunk}
  BY OnlyRefs
<1>6. [state |-> up, refs |-> Only({})] \in Database /\ NoSite \in Database
  BY <1>5 DEF Database, NoSite
<1>7. sites \in [Places -> Database] /\ sites[Up].state # "empty"
  BY <1>4, <1>6 DEF Places
<1>8. \A p \in Orgs : RegisterBranch(p) \notin DOMAIN sites[p].refs
  BY <1>4, <1>5 DEF Places, JoinAssumption, NoSite, RegisterBranch
<1>9. JoinTypes /\ SitesOk /\ CloneOk /\ PathOk
  BY <1>1, <1>3, <1>7, <1>8 DEF JoinTypes, SitesOk, CloneOk, PathOk
<1> QED
  BY <1>1, <1>9 DEF JoinInv, ConfiguredIsRegistered, RetryHeals

LEMMA JoinStep == ASSUME JoinAssumption, JoinInv, JoinNext PROVE JoinInv'
<1> HIDE DEF JoinAssumption, JoinInv
<1>1. ASSUME NEW c \in Commands, Start(c) PROVE JoinInv'
  BY <1>1, StartStep
<1>2. CASE LoadConfig \/ Fork \/ Clone \/ AddUpstreamRemote \/ CheckoutBranch \/ RegisterRig
  BY <1>2, LoadStep, ForkStep, CloneStep, UpstreamStep, BranchStep, RegisterStep
<1>3. CASE Push \/ CheckoutMain \/ CreatePR \/ PushMain \/ Exec \/ SaveConfig
  BY <1>3, PushStep, MainStep, CreatePRStep, PushMainStep, ExecStep, SaveStep
<1>4. CASE InitDatabase \/ ApplySchema \/ AddOrigin
  BY <1>4, InitStep, SchemaStep, AddOriginStep
<1>5. CASE Killed
  BY <1>5, FailsStep DEF Killed, Fails
<1>6. CASE Leave \/ RemoveClone
  BY <1>6, LeaveStep, RemoveCloneStep
<1>7. ASSUME NEW o \in Orgs, MergeRegistration(o) PROVE JoinInv'
  BY <1>7, MergeStep
<1> QED
  BY <1>1, <1>2, <1>3, <1>4, <1>5, <1>6, <1>7
  DEF JoinNext, ServiceJoin, runJoinRemote, EnsureForkAndRegister, ServiceCreate

LEMMA JoinStutters == ASSUME JoinInv, UNCHANGED joinVars PROVE JoinInv'
<1>1. SitesGrow /\ JoinTypes
  BY SameSites DEF joinVars, JoinInv
<1>2. clone' \in Directory \cup {Missing} /\ CloneOk'
  BY <1>1, SameClone DEF joinVars
<1>3. PathOk' /\ command' \in Command
  BY DEF joinVars, PathOk, ForkPath, ApiPath, TrunkPath, Step, Running, Mine, Me, Offered,
         JoinTypes, JoinInv
<1>4. outcome' = "failed cleanly" => command'.step = "idle" /\ Refusable'
  BY DEF joinVars, Step, JoinInv, RetryHeals, Refusable, Running, Me
<1> QED
  BY <1>1, <1>2, <1>3, <1>4, JoinKeeps, Merely DEF joinVars

LEMMA JoinInvariant == JoinSpec => []JoinInv
<1>1. JoinInit => JoinInv
  BY JoinAssumption, JoinInitially
<1>2. JoinInv /\ [JoinNext]_joinVars => JoinInv'
  BY JoinAssumption, JoinStep, JoinStutters
<1> QED
  BY <1>1, <1>2, PTL DEF JoinSpec

(* A configuration is saved only when the registration has reached the        *)
(* database it names, unless another command made the clone: whatever failed  *)
(* or was killed between any two steps of `wl join`, `wl create` and the      *)
(* hosted registrar, and was run again with other arguments.                  *)
THEOREM ConfigurationsAreBacked == JoinSpec => []ConfiguredIsRegistered
<1>1. JoinInv => ConfiguredIsRegistered
  BY DEF JoinInv
<1> QED
  BY <1>1, JoinInvariant, PTL

(* A command in which no step fails by itself is refused only for what it     *)
(* found: no upstream, a fork or a clone left half made, a directory of       *)
(* another command's, or a main that upstream has overtaken.                  *)
THEOREM SecondTryHeals == JoinSpec => []RetryHeals
<1>1. JoinInv => RetryHeals
  BY DEF JoinInv
<1> QED
  BY <1>1, JoinInvariant, PTL

-----------------------------------------------------------------------------
(* The clone's main. *)

\* Where a request of a client is while it holds the mutex and works on a
\* branch, and after that.
AtWork == {"create", "checkout", "script", "return", "pushBranch", "delete", "deleteRemote"}
OnMain == {"push", "pullRemote", "pushAgain", "merge", "applyDelete", "pushMain", "mergeDelete"}
Job == [pc : AtWork \cup OnMain \cup {"asked", "done"}, mode : {"pr", "wild-west"},
        remote : {"upstream", "origin"}, clearing : BOOLEAN, failed : BOOLEAN]

JobsOk ==
    /\ mode \in [DOMAIN holder -> {"pr", "wild-west"}]
    /\ jobs \in [Requests -> Job]
    /\ holder = [p \in DOMAIN holder |-> holder[p]]
    /\ DOMAIN holder = {Process(r) : r \in Requests}
    /\ \A r \in Requests : jobs[r].pc \in AtWork => holder[Process(r)] = r

\* One process alone has checked out what its script is to change; another
\* script is meant for main.
ScriptOk(r, j) ==
    /\ j.pc = "asked" => ~j.clearing
    /\ j.pc \in {"create", "checkout"} => j.mode = "pr" \/ j.clearing
    /\ j.pc = "script" => IF j.mode = "pr" \/ j.clearing THEN Alone(r) => head = Branch(r)
                                                         ELSE r \in meant
ScriptsOk == \A r \in Requests : ScriptOk(r, jobs[r])

ForMain == upstream \cup astray \cup meant

TrunkOk ==
    /\ local = [b \in DOMAIN local |-> local[b]] /\ Main \in DOMAIN local
    /\ origin = [b \in DOMAIN origin |-> origin[b]] /\ Main \in DOMAIN origin
    /\ fetched \subseteq upstream
    /\ local[Main] \subseteq ForMain /\ origin[Main] \subseteq ForMain

MirrorInv == cast \in Casts /\ JobsOk /\ ScriptsOk /\ TrunkOk

LEMMA Cast ==
    ASSUME CloneAssumption, cast \in Casts, NEW r \in Requests
    PROVE  cast[r].kind \in Kinds /\ Branch(r) \in Branches /\ Branch(r) # Main
  BY DEF CloneAssumption, Branch

(* What becomes of a request.                                                 *)
LEMMA Continues ==
    ASSUME JobsOk, NEW r \in Requests, NEW pc \in AtWork \cup OnMain, Continue(r, pc)
    PROVE  UNCHANGED holder /\ \E j \in Job :
              /\ jobs' = [jobs EXCEPT ![r] = j] /\ j.pc = pc
              /\ j.mode = jobs[r].mode /\ j.clearing = jobs[r].clearing
<1>1. PICK j : j = [jobs[r] EXCEPT !.pc = pc]
  OBVIOUS
<1>2. j \in Job /\ j.pc = pc /\ j.mode = jobs[r].mode /\ j.clearing = jobs[r].clearing
  BY <1>1 DEF JobsOk, Job
<1>3. jobs' = [jobs EXCEPT ![r] = j]
  BY <1>1 DEF Continue, Goto, JobsOk
<1> QED
  BY <1>2, <1>3 DEF Continue

LEMMA Ends ==
    ASSUME JobsOk, NEW r \in Requests, NEW pushed, End(r, pushed)
    PROVE  Unlock(r) /\ \E j \in Job : jobs' = [jobs EXCEPT ![r] = j] /\ j.pc = "done"
<1>1. PICK j : j = [jobs[r] EXCEPT !.pc = "done"]
  OBVIOUS
<1>2. j \in Job /\ j.pc = "done"
  BY <1>1 DEF JobsOk, Job
<1>3. jobs' = [jobs EXCEPT ![r] = j]
  BY <1>1 DEF End, Goto, JobsOk
<1> QED
  BY <1>2, <1>3 DEF End

(* A step of a request: the others of its process wait, and `wl merge` has a  *)
(* process of its own.                                                        *)
LEMMA Works ==
    ASSUME CloneAssumption, MirrorInv, UNCHANGED <<cast, mode>>, meant \subseteq meant',
           NEW r \in Requests, NEW j \in Job, jobs' = [jobs EXCEPT ![r] = j],
           jobs[r].pc \in AtWork \/ (j.pc \notin AtWork /\ (UNCHANGED head \/ Is(r, {"merge"}))),
           UNCHANGED holder \/ (Unlock(r) /\ j.pc \notin AtWork),
           ScriptOk(r, j)'
    PROVE  JobsOk' /\ ScriptsOk'
<1>1. /\ jobs' \in [Requests -> Job] /\ jobs'[r] = j
      /\ \A q \in Requests : q # r => jobs'[q] = jobs[q]
  BY DEF MirrorInv, JobsOk
<1>2. holder' = [p \in DOMAIN holder' |-> holder'[p]] /\ DOMAIN holder' = DOMAIN holder
  BY DEF MirrorInv, JobsOk, Unlock
<1>3. ASSUME NEW q \in Requests, jobs'[q].pc \in AtWork
      PROVE  holder'[Process(q)] = q
  <2>1. jobs[q].pc \in AtWork
    BY <1>1, <1>3
  <2>2. holder[Process(q)] = q /\ Process(q) \in DOMAIN holder
    BY <2>1 DEF MirrorInv, JobsOk
  <2>3. CASE UNCHANGED holder
    BY <2>2, <2>3
  <2>4. CASE Unlock(r) /\ j.pc \notin AtWork
    <3>1. q # r
      BY <1>1, <1>3, <2>4
    <3> QED
      BY <2>2, <2>4, <3>1 DEF Unlock
  <2> QED
    BY <2>3, <2>4
<1>4. JobsOk'
  BY <1>1, <1>2, <1>3 DEF MirrorInv, JobsOk, Process
<1>5. ASSUME NEW q \in Requests PROVE ScriptOk(q, jobs[q])'
  <2>1. CASE q = r
    BY <1>1, <2>1 DEF ScriptOk, Alone, Branch, Process
  <2>2. CASE q # r
    <3>1. ScriptOk(q, jobs[q])
      BY DEF MirrorInv, ScriptsOk
    <3>2. ASSUME jobs[q].pc = "script", DOMAIN holder = {Process(q)} PROVE UNCHANGED head
      <4>1. holder[Process(q)] = q /\ (jobs[r].pc \in AtWork => holder[Process(r)] = r)
        BY <3>2 DEF MirrorInv, JobsOk, AtWork
      <4>2. Process(r) = Process(q)
        BY <3>2 DEF MirrorInv, JobsOk
      <4>3. jobs[r].pc \notin AtWork
        BY <2>2, <4>1, <4>2
      <4>4. ~Is(r, {"merge"})
        BY <2>2, <4>2 DEF CloneAssumption, MirrorInv, Is, Process
      <4> QED
        BY <4>3, <4>4
    <3>3. jobs'[q] = jobs[q] /\ UNCHANGED <<cast, DOMAIN holder>> /\ meant \subseteq meant'
      BY <1>1, <1>2, <2>2
    <3> QED
      BY <3>1, <3>2, <3>3 DEF ScriptOk, Alone, Branch, Process
  <2> QED
    BY <2>1, <2>2
<1> QED
  BY <1>4, <1>5 DEF ScriptsOk

(* A request that goes on to no script, or ends.                              *)
LEMMA GoesOn ==
    ASSUME CloneAssumption, MirrorInv, UNCHANGED <<cast, mode>>, meant \subseteq meant',
           NEW r \in Requests, NEW pc \in (AtWork \ {"create", "checkout", "script"}) \cup OnMain,
           Continue(r, pc),
           jobs[r].pc \in AtWork \/ (pc \notin AtWork /\ (UNCHANGED head \/ Is(r, {"merge"})))
    PROVE  JobsOk' /\ ScriptsOk'
<1>1. PICK j \in Job : jobs' = [jobs EXCEPT ![r] = j] /\ j.pc = pc /\ UNCHANGED holder
  BY Continues DEF MirrorInv
<1>2. ScriptOk(r, j)'
  BY <1>1 DEF ScriptOk, AtWork, OnMain
<1> QED
  BY <1>1, <1>2, Works

LEMMA IsOver ==
    ASSUME CloneAssumption, MirrorInv, UNCHANGED <<cast, mode>>, meant \subseteq meant',
           NEW r \in Requests, NEW pushed, End(r, pushed),
           jobs[r].pc \in AtWork \/ UNCHANGED head \/ Is(r, {"merge"})
    PROVE  JobsOk' /\ ScriptsOk'
<1>1. PICK j \in Job : jobs' = [jobs EXCEPT ![r] = j] /\ j.pc = "done" /\ Unlock(r)
  BY Ends DEF MirrorInv
<1>2. ScriptOk(r, j)' /\ j.pc \notin AtWork
  BY <1>1 DEF ScriptOk, AtWork
<1> QED
  BY <1>1, <1>2, Works

(* Steps that leave main alone, here and on the fork.                         *)
LEMMA SameTrunk ==
    ASSUME TrunkOk, UNCHANGED fetched, ForMain \subseteq ForMain', upstream \subseteq upstream',
           local' = [b \in DOMAIN local' |-> local'[b]], Main \in DOMAIN local',
           local'[Main] \subseteq local[Main],
           origin' = [b \in DOMAIN origin' |-> origin'[b]], Main \in DOMAIN origin',
           origin'[Main] \subseteq origin[Main] \cup local[Main]
    PROVE  TrunkOk'
  BY DEF TrunkOk

LEMMA SameLocal ==
    ASSUME TrunkOk, UNCHANGED <<local, origin, fetched>>, upstream \subseteq upstream',
           ForMain \subseteq ForMain'
    PROVE  TrunkOk'
  BY DEF TrunkOk

LEMMA SameJobs ==
    ASSUME MirrorInv, UNCHANGED <<cast, mode, jobs, holder, head>>, meant \subseteq meant'
    PROVE  JobsOk' /\ ScriptsOk'
<1>1. JobsOk'
  BY DEF MirrorInv, JobsOk, Process
<1>2. ScriptsOk'
  BY DEF MirrorInv, ScriptsOk, ScriptOk, Alone, Branch, Process
<1> QED
  BY <1>1, <1>2

LEMMA BeginStep ==
    ASSUME CloneAssumption, MirrorInv, NEW r \in Requests, Begin(r)
    PROVE  MirrorInv'
<1>1. /\ JobsOk /\ ScriptsOk /\ TrunkOk /\ cast \in Casts
      /\ UNCHANGED <<cast, mode, head, local, origin, fetched, upstream, astray>>
      /\ meant \subseteq meant' /\ (First(r) = "script" => r \in meant')
  BY DEF MirrorInv, Begin, gitVars, losses
<1>2. cast[r].kind \in {"mutate", "revert", "save", "apply", "discard"}
  BY <1>1, Cast DEF Begin, Is, Kinds
<1>3. Process(r) \in DOMAIN holder /\ mode[Process(r)] \in {"pr", "wild-west"}
  BY <1>1 DEF JobsOk
<1>4. PICK pc \in {"create", "script", "merge", "delete"}, m \in {"pr", "wild-west"} :
         /\ pc = First(r) /\ m = mode[Process(r)]
         /\ pc = "create" => m = "pr"
         /\ pc = "script" => m # "pr"
  BY <1>2, <1>3 DEF First, Is
<1>5. PICK k : k = [jobs[r] EXCEPT !.pc = pc]
  OBVIOUS
<1>6. PICK j : j = [k EXCEPT !.mode = m]
  OBVIOUS
<1>7. k \in Job /\ k.pc = pc /\ k.clearing = jobs[r].clearing
  BY <1>1, <1>5 DEF JobsOk, Job, AtWork, OnMain
<1>8. j \in Job /\ j.pc = pc /\ j.mode = m /\ j.clearing = jobs[r].clearing
  BY <1>6, <1>7 DEF Job
<1>9. jobs' = [jobs EXCEPT ![r] = j]
  BY <1>1, <1>4, <1>5, <1>6 DEF Begin, JobsOk
<1>10. holder' = [holder EXCEPT ![Process(r)] = r] /\ holder[Process(r)] = None
  BY DEF Begin
<1>11. /\ jobs' \in [Requests -> Job] /\ jobs'[r] = j
       /\ \A q \in Requests : q # r => jobs'[q] = jobs[q]
  BY <1>1, <1>8, <1>9 DEF JobsOk
<1>12. /\ holder' = [p \in DOMAIN holder' |-> holder'[p]] /\ DOMAIN holder' = DOMAIN holder
       /\ holder'[Process(r)] = r
       /\ \A p \in DOMAIN holder : p # Process(r) => holder'[p] = holder[p]
  BY <1>1, <1>3, <1>10 DEF JobsOk
<1>13. ASSUME NEW q \in Requests, jobs'[q].pc \in AtWork
       PROVE  holder'[Process(q)] = q
  <2>1. CASE q = r
    BY <1>12, <2>1
  <2>2. CASE q # r
    <3>1. holder[Process(q)] = q /\ Process(q) \in DOMAIN holder
      BY <1>1, <1>11, <1>13, <2>2 DEF JobsOk
    <3>2. Process(q) # Process(r)
      BY <1>10, <3>1 DEF CloneAssumption
    <3> QED
      BY <1>12, <3>1, <3>2
  <2> QED
    BY <2>1, <2>2
<1>14. JobsOk'
  BY <1>1, <1>11, <1>12, <1>13 DEF JobsOk, Process
<1>15. ASSUME NEW q \in Requests PROVE ScriptOk(q, jobs[q])'
  <2>1. CASE q = r
    <3>1. jobs'[q].pc = "script" => ~(jobs'[q].mode = "pr") /\ r \in meant'
      BY <1>1, <1>4, <1>8, <1>11, <2>1
    <3>2. jobs'[q].pc \in {"create", "checkout"} => jobs'[q].mode = "pr"
      BY <1>4, <1>8, <1>11, <2>1
    <3>3. jobs'[q].pc = "script" => ~jobs'[q].clearing
      <4>1. jobs'[q].clearing = jobs[r].clearing
        BY <1>8, <1>11, <2>1
      <4> QED
        BY <1>1, <4>1 DEF Begin, At, ScriptsOk, ScriptOk
    <3> QED
      BY <1>8, <1>11, <2>1, <3>1, <3>2, <3>3 DEF ScriptOk
  <2>2. CASE q # r
    BY <1>1, <1>11, <1>12, <2>2 DEF ScriptsOk, ScriptOk, Alone, Branch, Process
  <2> QED
    BY <2>1, <2>2
<1>16. TrunkOk'
  BY <1>1, SameLocal DEF ForMain
<1> QED
  BY <1>1, <1>14, <1>15, <1>16 DEF MirrorInv, ScriptsOk

LEMMA AnswerStep ==
    ASSUME CloneAssumption, MirrorInv, NEW r \in Requests, AnswerFromBranch(r)
    PROVE  MirrorInv'
<1>1. /\ JobsOk /\ TrunkOk /\ cast \in Casts
      /\ UNCHANGED <<cast, mode, head, local, origin, fetched, upstream, astray, meant, holder>>
  BY DEF MirrorInv, AnswerFromBranch, gitVars, losses
<1>2. PICK j : j = [jobs[r] EXCEPT !.pc = "done"]
  OBVIOUS
<1>3. j \in Job /\ j.pc = "done" /\ jobs' = [jobs EXCEPT ![r] = j]
  <2>1. j \in Job /\ j.pc = "done"
    BY <1>1, <1>2 DEF JobsOk, Job
  <2>2. jobs' = [jobs EXCEPT ![r] = j]
    BY <1>1, <1>2 DEF AnswerFromBranch, Goto, JobsOk
  <2> QED
    BY <2>1, <2>2
<1>4. ScriptOk(r, j)' /\ j.pc \notin AtWork
  BY <1>3 DEF ScriptOk, AtWork
<1>5. JobsOk' /\ ScriptsOk'
  BY <1>1, <1>3, <1>4, Works
<1> QED
  BY <1>1, <1>5, SameLocal DEF MirrorInv, ForMain

LEMMA SettingsStep ==
    ASSUME CloneAssumption, MirrorInv, NEW r \in Requests, NEW m \in Modes, NEW ok \in BOOLEAN,
           SaveSettings(r, m, ok)
    PROVE  MirrorInv'
<1>1. /\ JobsOk /\ ScriptsOk /\ TrunkOk /\ cast \in Casts
      /\ UNCHANGED <<cast, head, local, origin, fetched, upstream, astray, meant, holder>>
  BY DEF MirrorInv, SaveSettings, gitVars, losses
<1>2. mode' \in [DOMAIN holder -> {"pr", "wild-west"}]
  BY <1>1 DEF SaveSettings, JobsOk, CloneAssumption
<1>3. PICK j : j = [jobs[r] EXCEPT !.pc = "done"]
  OBVIOUS
<1>4. j \in Job /\ j.pc = "done" /\ jobs' = [jobs EXCEPT ![r] = j]
  BY <1>1, <1>3 DEF JobsOk, Job, SaveSettings, Goto
<1>5. /\ jobs' \in [Requests -> Job] /\ jobs'[r] = j
      /\ \A q \in Requests : q # r => jobs'[q] = jobs[q]
  BY <1>1, <1>4 DEF JobsOk
<1>6. JobsOk'
  BY <1>1, <1>2, <1>4, <1>5 DEF JobsOk, Process, AtWork
<1>7. ScriptsOk'
  BY <1>1, <1>4, <1>5 DEF ScriptsOk, ScriptOk, Alone, Branch, Process
<1> QED
  BY <1>1, <1>6, <1>7, SameLocal DEF MirrorInv, ForMain

(* Requests of clients, by what they do to the branch that is checked out.    *)
LEMMA CreateStep ==
    ASSUME CloneAssumption, MirrorInv, NEW r \in Requests, NEW ok \in BOOLEAN,
           CreateBranch(r, ok)
    PROVE  MirrorInv'
<1>1. /\ JobsOk /\ ScriptsOk /\ TrunkOk /\ jobs[r].pc = "create" /\ cast \in Casts
      /\ Branch(r) # Main
      /\ UNCHANGED <<cast, mode, head, origin, fetched, upstream, astray, meant>>
  BY Cast DEF MirrorInv, CreateBranch, At, aside
<1>2. JobsOk' /\ ScriptsOk'
  <2>1. CASE Continue(r, "checkout")
    <3>1. PICK j \in Job : /\ jobs' = [jobs EXCEPT ![r] = j] /\ j.pc = "checkout"
                           /\ j.mode = jobs[r].mode /\ j.clearing = jobs[r].clearing
                           /\ UNCHANGED holder
      BY <1>1, <2>1, Continues DEF AtWork
    <3>2. ScriptOk(r, j)'
      BY <1>1, <3>1 DEF ScriptsOk, ScriptOk
    <3> QED
      BY <1>1, <3>1, <3>2, Works DEF AtWork
  <2>2. CASE End(r, FALSE)
    BY <1>1, <2>2, IsOver
  <2> QED
    BY <2>1, <2>2 DEF CreateBranch
<1>3. TrunkOk'
  <2>1. CASE local' = local
    BY <1>1, <2>1, SameLocal DEF ForMain
  <2>2. CASE local' = With(local, Branch(r), local[Main])
    BY <1>1, <2>2, SameTrunk DEF With, TrunkOk, ForMain
  <2> QED
    BY <2>1, <2>2 DEF CreateBranch
<1> QED
  BY <1>1, <1>2, <1>3 DEF MirrorInv

LEMMA CheckoutStep ==
    ASSUME CloneAssumption, MirrorInv, NEW r \in Requests, NEW ok \in BOOLEAN,
           Checkout(r, ok)
    PROVE  MirrorInv'
<1>1. /\ JobsOk /\ ScriptsOk /\ TrunkOk /\ jobs[r].pc = "checkout" /\ cast \in Casts
      /\ UNCHANGED <<cast, mode, local, origin, fetched, upstream, astray, meant>>
  BY DEF MirrorInv, Checkout, At, aside
<1>2. JobsOk' /\ ScriptsOk'
  <2>1. CASE Continue(r, "script") /\ head' = Branch(r)
    <3>1. PICK j \in Job : /\ jobs' = [jobs EXCEPT ![r] = j] /\ j.pc = "script"
                           /\ j.mode = jobs[r].mode /\ j.clearing = jobs[r].clearing
                           /\ UNCHANGED holder
      BY <1>1, <2>1, Continues DEF AtWork
    <3>2. ScriptOk(r, j)'
      BY <1>1, <2>1, <3>1 DEF ScriptsOk, ScriptOk, Branch
    <3> QED
      BY <1>1, <3>1, <3>2, Works DEF AtWork
  <2>2. CASE End(r, FALSE)
    BY <1>1, <2>2, IsOver DEF AtWork
  <2> QED
    BY <2>1, <2>2 DEF Checkout
<1> QED
  BY <1>1, <1>2, SameLocal DEF MirrorInv, ForMain

LEMMA ScriptStep ==
    ASSUME CloneAssumption, MirrorInv, NEW r \in Requests, NEW ok \in BOOLEAN,
           NEW effect \in {"none", "half", "all"}, Script(r, effect, ok)
    PROVE  MirrorInv'
<1>1. /\ JobsOk /\ ScriptsOk /\ TrunkOk /\ jobs[r].pc = "script" /\ cast \in Casts
      /\ Branch(r) # Main
      /\ UNCHANGED <<cast, mode, head, origin, fetched, upstream, meant>>
  BY Cast DEF MirrorInv, Script, At, aside
<1>2. JobsOk' /\ ScriptsOk'
  <2>1. CASE jobs' = [jobs EXCEPT ![r].pc = "return", ![r].failed = ~ok] /\ UNCHANGED holder
    <3>1. PICK f \in BOOLEAN : f = ~ok
      OBVIOUS
    <3>2. PICK k : k = [jobs[r] EXCEPT !.pc = "return"]
      OBVIOUS
    <3>3. PICK j : j = [k EXCEPT !.failed = f]
      OBVIOUS
    <3>4. k \in Job /\ k.pc = "return"
      BY <1>1, <3>2 DEF JobsOk, Job, AtWork
    <3>5. j \in Job /\ j.pc = "return"
      BY <3>3, <3>4 DEF Job
    <3>6. jobs' = [jobs EXCEPT ![r] = j]
      BY <1>1, <2>1, <3>1, <3>2, <3>3 DEF JobsOk
    <3>7. ScriptOk(r, j)'
      BY <3>5 DEF ScriptOk
    <3> QED
      BY <1>1, <2>1, <3>5, <3>6, <3>7, Works DEF AtWork
  <2>2. CASE End(r, FALSE)
    BY <1>1, <2>2, IsOver
  <2>3. CASE Continue(r, "push")
    BY <1>1, <2>3, GoesOn DEF AtWork, OnMain
  <2> QED
    BY <2>1, <2>2, <2>3 DEF Script
<1>3. TrunkOk'
  <2>1. PICK commit, foreign, strays :
           /\ commit = Committed(dirty \cup {r})
           /\ foreign = (IF head = Main THEN dirty \ meant ELSE {})
           /\ strays = (IF head = Target(r) \/ (OnBranch(r) /\ Alone(r)) THEN foreign
                        ELSE foreign \cup {r})
    OBVIOUS
  <2>2. /\ local' = IF effect = "all" THEN [local EXCEPT ![head] = commit] ELSE local
        /\ astray' = IF effect = "all" THEN astray \cup Adding(strays) ELSE astray
    BY <2>1 DEF Script
  <2>3. CASE effect # "all"
    BY <1>1, <2>2, <2>3, SameLocal DEF ForMain
  <2>4. CASE effect = "all" /\ head # Main
    BY <1>1, <2>2, <2>4, SameTrunk DEF TrunkOk, ForMain
  <2>5. CASE effect = "all" /\ head = Main
    <3>1. local' = [local EXCEPT ![Main] = commit] /\ astray' = astray \cup Adding(strays)
      BY <2>2, <2>5
    <3>2. commit \subseteq local[Main] \cup Adding(dirty \cup {r})
      BY <2>1, <2>5 DEF Committed
    <3>3. r \in meant \/ r \in strays
      <4>1. CASE OnBranch(r)
        <5>1. head # Target(r) /\ ~Alone(r)
          BY <1>1, <2>5, <4>1 DEF ScriptsOk, ScriptOk, OnBranch, Target
        <5> QED
          BY <2>1, <5>1
      <4>2. CASE ~OnBranch(r)
        BY <1>1, <4>2 DEF ScriptsOk, ScriptOk, OnBranch
      <4> QED
        BY <4>1, <4>2
    <3>4. dirty \subseteq meant \cup strays
      BY <2>1, <2>5
    <3>5. Adding(dirty \cup {r}) \subseteq meant \cup Adding(strays)
      BY <3>3, <3>4 DEF Adding
    <3>6. local'[Main] \subseteq ForMain' /\ ForMain \subseteq ForMain'
      BY <1>1, <3>1, <3>2, <3>5 DEF TrunkOk, ForMain
    <3> QED
      BY <1>1, <3>1, <3>6 DEF TrunkOk
  <2> QED
    BY <2>3, <2>4, <2>5
<1> QED
  BY <1>1, <1>2, <1>3 DEF MirrorInv

LEMMA ReturnStep ==
    ASSUME CloneAssumption, MirrorInv, NEW r \in Requests, NEW ok \in BOOLEAN, ReturnToMain(r, ok)
    PROVE  MirrorInv'
<1>1. /\ TrunkOk /\ jobs[r].pc = "return" /\ cast \in Casts
      /\ UNCHANGED <<cast, mode, local, origin, fetched, upstream, astray, meant>>
  BY DEF MirrorInv, ReturnToMain, At, aside
<1>2. Continue(r, "pushBranch") \/ End(r, FALSE)
  BY DEF ReturnToMain
<1>3. JobsOk' /\ ScriptsOk'
  BY <1>1, <1>2, GoesOn, IsOver DEF AtWork
<1> QED
  BY <1>1, <1>3, SameLocal DEF MirrorInv, ForMain

LEMMA PushBranchStep ==
    ASSUME CloneAssumption, MirrorInv, NEW r \in Requests, NEW ok \in BOOLEAN, PushBranch(r, ok)
    PROVE  MirrorInv'
<1>1. /\ TrunkOk /\ jobs[r].pc = "pushBranch" /\ cast \in Casts /\ Branch(r) # Main
      /\ UNCHANGED <<cast, mode, head, local, fetched, upstream, astray, meant>>
  BY Cast DEF MirrorInv, PushBranch, At, aside
<1>2. Continue(r, "delete") \/ \E pushed : End(r, pushed)
  BY DEF PushBranch
<1>3. JobsOk' /\ ScriptsOk'
  BY <1>1, <1>2, GoesOn, IsOver DEF AtWork
<1>4. TrunkOk'
  <2>1. CASE UNCHANGED origin
    BY <1>1, <2>1, SameLocal DEF ForMain
  <2>2. CASE origin' = With(origin, Branch(r), local[Branch(r)])
    BY <1>1, <2>2, SameTrunk DEF With, TrunkOk, ForMain
  <2> QED
    BY <2>1, <2>2 DEF PushBranch
<1> QED
  BY <1>1, <1>3, <1>4 DEF MirrorInv

LEMMA DeleteStep ==
    ASSUME CloneAssumption, MirrorInv, NEW r \in Requests, NEW ok \in BOOLEAN,
           DeleteBranch(r, ok)
    PROVE  MirrorInv'
<1>1. /\ JobsOk /\ TrunkOk /\ jobs[r].pc = "delete" /\ Branch(r) # Main /\ cast \in Casts
      /\ UNCHANGED <<cast, mode, holder, head, origin, fetched, upstream, astray, meant>>
  BY Cast DEF MirrorInv, DeleteBranch, At, aside
<1>2. PICK deleted \in BOOLEAN :
         /\ local' = IF deleted THEN Without(local, Branch(r)) ELSE local
         /\ jobs' = [jobs EXCEPT ![r].pc = IF deleted THEN "deleteRemote" ELSE "create",
                                 ![r].clearing = ~deleted]
  BY DEF DeleteBranch
<1>3. JobsOk' /\ ScriptsOk'
  <2>1. PICK pc \in {"deleteRemote", "create"} : pc = IF deleted THEN "deleteRemote" ELSE "create"
    OBVIOUS
  <2>2. PICK c \in BOOLEAN : c = ~deleted
    OBVIOUS
  <2>3. PICK k : k = [jobs[r] EXCEPT !.pc = pc]
    OBVIOUS
  <2>4. k \in Job /\ k.pc = pc
    BY <1>1, <2>3 DEF JobsOk, Job, AtWork
  <2>5. PICK j : j = [k EXCEPT !.clearing = c]
    OBVIOUS
  <2>6. j \in Job /\ j.pc = pc /\ j.clearing = c
    BY <2>4, <2>5 DEF Job
  <2>7. jobs' = [jobs EXCEPT ![r] = j]
    BY <1>1, <1>2, <2>1, <2>2, <2>3, <2>5 DEF JobsOk
  <2>8. ScriptOk(r, j)'
    BY <2>1, <2>2, <2>6 DEF ScriptOk
  <2> QED
    BY <1>1, <2>6, <2>7, <2>8, Works DEF AtWork
<1>4. TrunkOk'
  <2>1. CASE ~deleted
    BY <1>1, <1>2, <2>1, SameLocal DEF ForMain
  <2>2. CASE deleted
    BY <1>1, <1>2, <2>2, SameTrunk DEF Without, Restrict, TrunkOk, ForMain
  <2> QED
    BY <2>1, <2>2
<1> QED
  BY <1>1, <1>3, <1>4 DEF MirrorInv

LEMMA DeleteRemoteStep ==
    ASSUME CloneAssumption, MirrorInv, NEW r \in Requests, NEW ok \in BOOLEAN,
           DeleteRemoteBranch(r, ok)
    PROVE  MirrorInv'
<1>1. /\ TrunkOk /\ cast \in Casts /\ Branch(r) # Main /\ End(r, FALSE)
      /\ UNCHANGED <<cast, mode, head, local, fetched, upstream, astray, meant>>
  BY Cast DEF MirrorInv, DeleteRemoteBranch, aside
<1>2. JobsOk' /\ ScriptsOk'
  BY <1>1, IsOver
<1>3. TrunkOk'
  <2>1. CASE UNCHANGED origin
    BY <1>1, <2>1, SameLocal DEF ForMain
  <2>2. CASE origin' = Without(origin, Branch(r))
    BY <1>1, <2>2, SameTrunk DEF Without, Restrict, TrunkOk, ForMain
  <2> QED
    BY <2>1, <2>2 DEF DeleteRemoteBranch
<1> QED
  BY <1>1, <1>2, <1>3 DEF MirrorInv

(* What is merged into main was asked for there.                              *)
LEMMA MergedStep ==
    ASSUME TrunkOk, NEW r, NEW ok \in BOOLEAN, Merged(r, ok),
           UNCHANGED <<origin, fetched, upstream, astray>>
    PROVE  TrunkOk' /\ meant \subseteq meant'
<1>1. CASE ok
  <2>1. local' = [local EXCEPT ![Main] = @ \cup local[Branch(r)]] /\ meant' = meant \cup local[Branch(r)]
    BY <1>1 DEF Merged
  <2>2. local'[Main] = local[Main] \cup local[Branch(r)]
    BY <2>1 DEF TrunkOk
  <2> QED
    BY <2>1, <2>2 DEF TrunkOk, ForMain
<1>2. CASE ~ok
  BY <1>2, SameLocal DEF Merged, ForMain
<1> QED
  BY <1>1, <1>2

LEMMA ApplyStep ==
    ASSUME CloneAssumption, MirrorInv, NEW r \in Requests, NEW ok \in BOOLEAN,
           ApplyMerge(r, ok) \/ ApplyDelete(r, ok) \/ PushOriginMain(r, ok)
    PROVE  MirrorInv'
<1>1. /\ TrunkOk /\ cast \in Casts /\ Branch(r) # Main
      /\ UNCHANGED <<cast, mode, head, fetched, upstream>>
  BY Cast DEF MirrorInv, ApplyMerge, ApplyDelete, PushOriginMain, aside
<1>2. (\E pc \in {"applyDelete", "pushMain"} : Continue(r, pc)) \/ End(r, FALSE)
  BY DEF ApplyMerge, ApplyDelete, PushOriginMain
<1>3. TrunkOk' /\ meant \subseteq meant'
  <2>1. CASE ApplyMerge(r, ok)
    <3>1. PICK merged \in BOOLEAN : Merged(r, merged)
      BY <2>1 DEF ApplyMerge
    <3> QED
      BY <1>1, <2>1, <3>1, MergedStep DEF ApplyMerge
  <2>2. CASE ApplyDelete(r, ok)
    BY <1>1, <2>2, SameTrunk DEF ApplyDelete, Without, Restrict, TrunkOk, ForMain
  <2>3. CASE PushOriginMain(r, ok)
    BY <1>1, <2>3, SameTrunk DEF PushOriginMain, TrunkOk, ForMain
  <2> QED
    BY <2>1, <2>2, <2>3
<1>4. JobsOk' /\ ScriptsOk'
  BY <1>1, <1>2, <1>3, GoesOn, IsOver DEF AtWork, OnMain
<1> QED
  BY <1>1, <1>3, <1>4 DEF MirrorInv

(* Pushes and pulls of main.                                                  *)
LEMMA NextRemoteStep ==
    ASSUME CloneAssumption, MirrorInv, UNCHANGED <<cast, mode, head, meant>>,
           NEW r \in Requests, jobs[r].pc \in {"push", "pullRemote", "pushAgain"},
           NEW failed \in BOOLEAN, NextRemote(r, failed)
    PROVE  JobsOk' /\ ScriptsOk'
<1>1. CASE jobs[r].remote = "upstream"
  <2>1. PICK k : k = [jobs[r] EXCEPT !.pc = "push"]
    OBVIOUS
  <2>2. PICK l : l = [k EXCEPT !.remote = "origin"]
    OBVIOUS
  <2>3. PICK j : j = [l EXCEPT !.failed = failed]
    OBVIOUS
  <2>4. k \in Job /\ k.pc = "push"
    BY <2>1 DEF MirrorInv, JobsOk, Job, OnMain
  <2>5. l \in Job /\ l.pc = "push"
    BY <2>2, <2>4 DEF Job
  <2>6. j \in Job /\ j.pc = "push"
    BY <2>3, <2>5 DEF Job
  <2>7. jobs' = [jobs EXCEPT ![r] = j] /\ UNCHANGED holder
    BY <1>1, <2>1, <2>2, <2>3 DEF NextRemote, MirrorInv, JobsOk
  <2>8. ScriptOk(r, j)' /\ j.pc \notin AtWork
    BY <2>6 DEF ScriptOk, AtWork
  <2> QED
    BY <2>6, <2>7, <2>8, Works
<1>2. CASE jobs[r].remote # "upstream"
  BY <1>2, IsOver DEF NextRemote
<1> QED
  BY <1>1, <1>2

LEMMA PushRemoteStep ==
    ASSUME CloneAssumption, MirrorInv, NEW r \in Requests, NEW ok \in BOOLEAN, PushRemote(r, ok)
    PROVE  MirrorInv'
<1>1. /\ TrunkOk /\ cast \in Casts /\ jobs[r].pc \in {"push", "pushAgain"}
      /\ UNCHANGED <<cast, mode, head, local, astray, meant>>
  BY DEF MirrorInv, PushRemote, aside
<1>2. PICK pushed \in BOOLEAN, up \in BOOLEAN :
         /\ pushed => RemoteMain(r) \subseteq local[Main]
         /\ up = (jobs[r].remote = "upstream")
         /\ upstream' = IF pushed /\ up THEN local[Main] ELSE upstream
         /\ fetched' = IF pushed /\ up THEN local[Main] ELSE fetched
         /\ origin' = IF pushed /\ ~up THEN [origin EXCEPT ![Main] = local[Main]] ELSE origin
         /\ \/ NextRemote(r, jobs[r].failed) \/ NextRemote(r, TRUE)
            \/ Continue(r, "pullRemote")
  BY DEF PushRemote
<1>3. jobs[r].failed \in BOOLEAN
  BY DEF MirrorInv, JobsOk, Job
<1>4. JobsOk' /\ ScriptsOk'
  BY <1>1, <1>2, <1>3, NextRemoteStep, GoesOn DEF AtWork, OnMain
<1>5. TrunkOk'
  <2>1. CASE pushed /\ up
    <3>1. upstream \subseteq local[Main] /\ upstream' = local[Main] /\ fetched' = upstream'
          /\ UNCHANGED origin
      BY <1>2, <2>1 DEF RemoteMain
    <3> QED
      BY <1>1, <3>1 DEF TrunkOk, ForMain
  <2>2. CASE pushed /\ ~up
    BY <1>1, <1>2, <2>2, SameTrunk DEF TrunkOk, ForMain
  <2>3. CASE ~pushed
    BY <1>1, <1>2, <2>3, SameLocal DEF ForMain
  <2> QED
    BY <2>1, <2>2, <2>3
<1> QED
  BY <1>1, <1>4, <1>5 DEF MirrorInv

\* What is pulled comes onto the branch that is checked out.
LEMMA PulledStep ==
    ASSUME TrunkOk, NEW changes, Pulled(changes), changes \subseteq ForMain,
           UNCHANGED <<origin, upstream, astray, meant>>, fetched' \subseteq upstream
    PROVE  TrunkOk'
<1>1. /\ local' = [b \in DOMAIN local' |-> local'[b]] /\ Main \in DOMAIN local'
      /\ local'[Main] \subseteq local[Main] \cup changes
  BY DEF Pulled, TrunkOk
<1> QED
  BY <1>1 DEF TrunkOk, ForMain

LEMMA PullRemoteStep ==
    ASSUME CloneAssumption, MirrorInv, NEW r \in Requests, NEW ok \in BOOLEAN, PullRemote(r, ok)
    PROVE  MirrorInv'
<1>1. /\ TrunkOk /\ cast \in Casts /\ jobs[r].pc = "pullRemote"
      /\ UNCHANGED <<cast, mode, head, origin, upstream, fetched, astray, meant>>
  BY DEF MirrorInv, PullRemote, aside, At
<1>2. NextRemote(r, TRUE) \/ Continue(r, "pushAgain")
  BY DEF PullRemote
<1>3. JobsOk' /\ ScriptsOk'
  BY <1>1, <1>2, NextRemoteStep, GoesOn DEF AtWork, OnMain
<1>4. TrunkOk'
  <2>1. CASE UNCHANGED local
    BY <1>1, <2>1, SameLocal DEF ForMain
  <2>2. CASE Pulled(RemoteMain(r))
    <3>1. RemoteMain(r) \subseteq ForMain
      BY <1>1 DEF RemoteMain, TrunkOk, ForMain
    <3> QED
      BY <1>1, <2>2, <3>1, PulledStep DEF TrunkOk
  <2> QED
    BY <2>1, <2>2 DEF PullRemote
<1> QED
  BY <1>1, <1>3, <1>4 DEF MirrorInv

LEMMA PullStep ==
    ASSUME CloneAssumption, MirrorInv, NEW r \in Requests, NEW ok \in BOOLEAN, PullUpstream(r, ok)
    PROVE  MirrorInv'
<1>1. /\ TrunkOk /\ cast \in Casts /\ End(r, FALSE)
      /\ UNCHANGED <<cast, mode, head, origin, upstream, astray, meant>>
  BY DEF MirrorInv, PullUpstream, aside
<1>2. JobsOk' /\ ScriptsOk'
  BY <1>1, IsOver
<1>3. TrunkOk'
  <2>1. CASE UNCHANGED <<local, fetched>>
    BY <1>1, <2>1, SameLocal DEF ForMain
  <2>2. CASE Pulled(upstream) /\ fetched' = upstream
    BY <1>1, <2>2, PulledStep DEF ForMain
  <2> QED
    BY <2>1, <2>2 DEF PullUpstream
<1> QED
  BY <1>1, <1>2, <1>3 DEF MirrorInv

(* `wl merge`.                                                                *)
LEMMA MergeCommandStep ==
    ASSUME CloneAssumption, MirrorInv, NEW r \in Requests, NEW ok \in BOOLEAN, NEW drop \in BOOLEAN,
           MergeCommand(r, ok) \/ MergeBranch(r, ok) \/ MergeDelete(r, drop, ok)
    PROVE  MirrorInv'
<1>1. /\ TrunkOk /\ cast \in Casts /\ Branch(r) # Main
      /\ UNCHANGED <<cast, mode, origin, fetched, upstream>>
      /\ UNCHANGED head \/ Is(r, {"merge"})
  BY Cast DEF MirrorInv, MergeCommand, MergeBranch, MergeDelete, aside
<1>2. (\E pc \in {"merge", "mergeDelete", "push"} : Continue(r, pc)) \/ End(r, FALSE)
  BY DEF MergeCommand, MergeBranch, MergeDelete
<1>3. TrunkOk' /\ meant \subseteq meant'
  <2>1. CASE MergeCommand(r, ok)
    BY <1>1, <2>1, SameLocal DEF MergeCommand, ForMain
  <2>2. CASE MergeBranch(r, ok)
    <3>1. PICK merged \in BOOLEAN : Merged(r, merged)
      BY <2>2 DEF MergeBranch
    <3> QED
      BY <1>1, <2>2, <3>1, MergedStep DEF MergeBranch
  <2>3. CASE MergeDelete(r, drop, ok)
    BY <1>1, <2>3, SameTrunk DEF MergeDelete, Without, Restrict, TrunkOk, ForMain
  <2> QED
    BY <2>1, <2>2, <2>3
<1>4. JobsOk' /\ ScriptsOk'
  BY <1>1, <1>2, <1>3, GoesOn, IsOver DEF AtWork, OnMain
<1> QED
  BY <1>1, <1>3, <1>4 DEF MirrorInv

LEMMA SyncKeepsTrunk ==
    ASSUME CloneAssumption, MirrorInv,
           TrackOriginBranches \/ \E ok \in BOOLEAN : SyncStep(ok)
    PROVE  MirrorInv'
<1>1. /\ TrunkOk /\ cast \in Casts
      /\ UNCHANGED <<cast, mode, jobs, holder, head, origin, upstream, meant>>
  BY DEF MirrorInv, TrackOriginBranches, SyncStep, SyncPull, SyncFetch, SyncReset,
         SyncFetchOrigin, SyncList, SyncUnchanged
<1>2. JobsOk' /\ ScriptsOk'
  BY <1>1, SameJobs
<1>3. CASE TrackOriginBranches
  <2>1. PICK new : new = (listed \ DOMAIN local) \cap DOMAIN tracked
    OBVIOUS
  <2>2. PICK pruned : pruned = DOMAIN local \ (listed \cup {Main, head})
    OBVIOUS
  <2>3. /\ local' = [b \in (DOMAIN local \cup new) \ pruned |->
                       IF b \in new THEN tracked[b] ELSE local[b]]
        /\ UNCHANGED fetched /\ astray \subseteq astray'
    BY <1>3, <2>1, <2>2 DEF TrackOriginBranches
  <2>4. Main \in DOMAIN local /\ Main \notin new /\ Main \notin pruned
    BY <1>1, <2>1, <2>2 DEF TrunkOk
  <2>5. DOMAIN local' = (DOMAIN local \cup new) \ pruned /\ local'[Main] = local[Main]
        /\ local' = [b \in DOMAIN local' |-> local'[b]]
    BY <2>3, <2>4
  <2>6. TrunkOk'
    BY <1>1, <2>3, <2>4, <2>5, SameTrunk DEF TrunkOk, ForMain
  <2> QED
    BY <1>1, <1>2, <2>6 DEF MirrorInv
<1>4. ASSUME NEW ok \in BOOLEAN, SyncStep(ok) PROVE TrunkOk'
  <2>1. CASE SyncPull(ok)
    <3>1. UNCHANGED astray
      BY <2>1 DEF SyncPull
    <3>2. CASE UNCHANGED <<local, fetched>>
      BY <1>1, <3>1, <3>2, SameLocal DEF ForMain
    <3>3. CASE Pulled(upstream) /\ fetched' = upstream
      BY <1>1, <3>1, <3>3, PulledStep DEF ForMain
    <3> QED
      BY <2>1, <3>2, <3>3 DEF SyncPull
  <2>2. CASE SyncFetch(ok)
    BY <1>1, <2>2 DEF SyncFetch, TrunkOk, ForMain
  <2>3. CASE SyncReset(ok)
    <3>1. astray \subseteq astray' /\ UNCHANGED fetched
      BY <2>3 DEF SyncReset
    <3>2. CASE ~ok
      BY <1>1, <2>3, <3>1, <3>2, SameLocal DEF SyncReset, ForMain
    <3>3. CASE ok
      <4>1. local' = [local EXCEPT ![head] = fetched]
        BY <2>3, <3>3 DEF SyncReset
      <4>2. local'[Main] \subseteq local[Main] \cup fetched
        BY <1>1, <4>1 DEF TrunkOk
      <4> QED
        BY <1>1, <3>1, <4>1, <4>2 DEF TrunkOk, ForMain
    <3> QED
      BY <3>2, <3>3
  <2>4. CASE SyncFetchOrigin(ok) \/ SyncList(ok)
    BY <1>1, <2>4, SameLocal DEF SyncFetchOrigin, SyncList, ForMain
  <2> QED
    BY <1>4, <2>1, <2>2, <2>3, <2>4 DEF SyncStep
<1> QED
  BY <1>1, <1>2, <1>3, <1>4 DEF MirrorInv

LEMMA WorldKeepsTrunk ==
    ASSUME CloneAssumption, MirrorInv,
           \/ \E b \in Branches : PullRequestMerged(b)
           \/ \E o \in Others : OtherRig(o)
           \/ \E b \in Branches, o \in Others : HostedCommit(b, o)
           \/ UNCHANGED localVars
    PROVE  MirrorInv'
<1>1. /\ TrunkOk /\ cast \in Casts
      /\ UNCHANGED <<cast, mode, jobs, holder, head, local, fetched, astray, meant>>
      /\ upstream \subseteq upstream'
  BY DEF MirrorInv, PullRequestMerged, OtherRig, HostedCommit, CloneUnchanged, aside, localVars,
         gitVars, losses
<1>2. CASE UNCHANGED origin
  BY <1>1, <1>2, SameJobs, SameLocal DEF MirrorInv, ForMain
<1>3. ASSUME NEW b \in Branches, NEW o \in Others, HostedCommit(b, o) PROVE TrunkOk'
  <2>1. b # Main
    BY DEF CloneAssumption
  <2>2. /\ origin' = [x \in DOMAIN origin' |-> origin'[x]] /\ Main \in DOMAIN origin'
        /\ origin'[Main] = origin[Main]
    BY <1>1, <1>3, <2>1 DEF HostedCommit, With, TrunkOk
  <2> QED
    BY <1>1, <2>2, SameTrunk DEF TrunkOk, ForMain
<1>4. (\E b \in Branches, o \in Others : HostedCommit(b, o)) \/ UNCHANGED origin
  BY DEF PullRequestMerged, OtherRig, localVars, gitVars
<1> QED
  BY <1>1, <1>2, <1>3, <1>4, SameJobs DEF MirrorInv

LEMMA MirrorInitially == ASSUME CloneAssumption, CloneInit PROVE MirrorInv
<1>1. /\ jobs \in [Requests -> Job]
      /\ \A r \in Requests : jobs[r].pc = "asked" /\ jobs[r].clearing = FALSE
  BY DEF CloneInit, CloneAssumption, Job
<1>2. holder = [p \in {cast[r].process : r \in Requests} |-> None]
  BY DEF CloneInit
<1>3. DOMAIN holder = {Process(r) : r \in Requests}
  BY <1>2 DEF Process
<1>4. mode \in [DOMAIN holder -> {"pr", "wild-west"}]
  BY <1>2 DEF CloneInit, CloneAssumption
<1>5. JobsOk
  BY <1>1, <1>2, <1>3, <1>4 DEF JobsOk, AtWork
<1>6. ScriptsOk
  BY <1>1 DEF ScriptsOk, ScriptOk
<1>7. TrunkOk
  BY DEF CloneInit, Bare, TrunkOk, ForMain
<1> QED
  BY <1>5, <1>6, <1>7 DEF MirrorInv, CloneInit

LEMMA MirrorStep ==
    ASSUME CloneAssumption, MirrorInv, [CloneNext]_localVars PROVE MirrorInv'
<1>1. ASSUME NEW r \in Requests, Begin(r) \/ AnswerFromBranch(r) PROVE MirrorInv'
  BY <1>1, BeginStep, AnswerStep
<1>2. ASSUME NEW r \in Requests, NEW m \in Modes, NEW ok \in BOOLEAN, SaveSettings(r, m, ok)
      PROVE  MirrorInv'
  BY <1>2, SettingsStep
<1>3. ASSUME NEW r \in Requests, NEW ok \in BOOLEAN, CommandStep(r, ok) PROVE MirrorInv'
  BY <1>3, CreateStep, CheckoutStep, ScriptStep, ReturnStep, PushBranchStep, DeleteStep,
     DeleteRemoteStep, ApplyStep, PushRemoteStep, PullRemoteStep, PullStep, MergeCommandStep
     DEF CommandStep
<1>4. CASE TrackOriginBranches \/ \E ok \in BOOLEAN : SyncStep(ok)
  BY <1>4, SyncKeepsTrunk
<1>5. CASE \/ \E b \in Branches : PullRequestMerged(b)
           \/ \E o \in Others : OtherRig(o)
           \/ \E b \in Branches, o \in Others : HostedCommit(b, o)
           \/ UNCHANGED localVars
  BY <1>5, WorldKeepsTrunk
<1> QED
  BY <1>1, <1>2, <1>3, <1>4, <1>5 DEF CloneNext

LEMMA MirrorInvariant == CloneSpec => []MirrorInv
<1>1. CloneInit => MirrorInv
  BY CloneAssumption, MirrorInitially
<1>2. MirrorInv /\ [CloneNext]_localVars => MirrorInv'
  BY CloneAssumption, MirrorStep
<1> QED
  BY <1>1, <1>2, PTL DEF CloneSpec

(* The local main never has what upstream has not got, as commons/dolt.go:121 *)
(* has it, but for what a wild-west mutation, a merge or ApplyBranch was to   *)
(* put there: whatever commands fail or leave half a script behind, however   *)
(* many clients, syncs and pulls use the clone and change their modes -       *)
(* unless another process checks out main under a script.                     *)
THEOREM MainFollowsUpstream == CloneSpec => []MainMirrorsUpstream
<1>1. MirrorInv => MainMirrorsUpstream
  BY DEF MirrorInv, MainMirrorsUpstream, TrunkOk, ForMain
<1> QED
  BY <1>1, MirrorInvariant, PTL

-----------------------------------------------------------------------------
(* Where an acknowledged mutation is. *)

Lost == dropped \cup astray

(* What is upstream or on a branch of the clone, or was lost.                 *)
Everything == upstream \cup InTheClone \cup Lost \cup abandoned

OnOwnBranch(c) == Branch(c) \in DOMAIN local /\ c \in local[Branch(c)]

(* A change that the fork has on its branch, and that every branch made,      *)
(* pushed or tracked in its place will have.                                  *)
Safe(c) ==
    /\ Branch(c) \in DOMAIN origin /\ c \in origin[Branch(c)]
    /\ Branch(c) \in DOMAIN tracked => c \in tracked[Branch(c)]
    /\ c \in local[IF Branch(c) \in DOMAIN local THEN Branch(c) ELSE Main]

Pushing == {"push", "pullRemote", "pushAgain"}
Writing(r) == Is(r, {"mutate", "revert"})

(* Where requests of what kind come in which mode, if j is the job of r.      *)
Route(r, j) ==
    /\ j.pc \notin Pushing \cup {"done"} => j.remote = "upstream"
    /\ j.pc = "return" => j.mode = "pr" \/ j.clearing
    /\ j.pc = "pushBranch" => j.mode = "pr"
    /\ j.pc = "mergeDelete" => Is(r, {"merge"})
    /\ j.pc \in Pushing /\ Writing(r) => j.mode = "wild-west"

(* What a mutation under way has written is on its branch still, and in       *)
(* wild-west mode on main until upstream has it.                              *)
Held(r, j) ==
    /\ j.pc = "return" /\ ~j.failed /\ ~j.clearing => OnOwnBranch(r) \/ r \in Lost
    /\ j.pc = "pushBranch" => OnOwnBranch(r) \/ r \in Lost
    /\ j.pc \in Pushing /\ Writing(r) =>
          IF j.remote = "upstream" THEN r \in local[Main] \cup Lost
                                   ELSE j.failed \/ r \in upstream \cup Lost

Kept(c) == c \in upstream \cup Lost \/ (jobs[c].mode = "pr" /\ Safe(c))

KeepInv ==
    /\ head \in DOMAIN local
    /\ \A r \in Requests : Route(r, jobs[r]) /\ Held(r, jobs[r])
    /\ \A c \in acked : c \in Requests /\ jobs[c].pc = "done" /\ Kept(c)
    /\ assured \subseteq Everything

(* What no step takes back: a change leaves the clone only to go upstream or  *)
(* to be counted as lost, in the middle of a mutation it does not even leave  *)
(* its branch, in wild-west mode not main, and what is safe stays so.         *)
Grows ==
    /\ upstream \subseteq upstream' /\ Lost \subseteq Lost' /\ Everything \subseteq Everything'
    /\ head' \in DOMAIN local' /\ UNCHANGED cast
    /\ \A q \in Requests :
          /\ Safe(q) => Safe(q)' \/ q \in upstream' \cup Lost'
          /\ UnderWay(q) /\ OnOwnBranch(q) => OnOwnBranch(q)' \/ q \in Lost'
          /\ jobs[q].mode = "wild-west" /\ q \in local[Main] => q \in local'[Main] \cup Lost'

(* Branches that keep what they have, and new ones that start from main.      *)
LEMMA BranchesGrow ==
    ASSUME CloneAssumption, MirrorInv, UNCHANGED cast,
           upstream \subseteq upstream', Lost \subseteq Lost', abandoned \subseteq abandoned',
           \A b \in DOMAIN local : b \in DOMAIN local' /\ local[b] \subseteq local'[b] \cup Lost',
           \A b \in DOMAIN local' \ DOMAIN local : local[Main] \subseteq local'[b],
           \A b \in DOMAIN origin \ {Main} : b \in DOMAIN origin' /\ origin[b] \subseteq origin'[b],
           \A b \in DOMAIN tracked' \ {Main} : b \in DOMAIN tracked /\ tracked'[b] = tracked[b],
           head' \in DOMAIN local'
    PROVE  Grows
<1>1. Main \in DOMAIN local /\ cast \in Casts
  BY DEF MirrorInv, TrunkOk
<1>2. Everything \subseteq Everything'
  BY DEF Everything, InTheClone
<1>3. ASSUME NEW q \in Requests
      PROVE  /\ Safe(q) => Safe(q)' \/ q \in upstream' \cup Lost'
             /\ OnOwnBranch(q) => OnOwnBranch(q)' \/ q \in Lost'
             /\ q \in local[Main] => q \in local'[Main] \cup Lost'
  <2>1. Branch(q) # Main /\ Branch(q)' = Branch(q)
    BY <1>1, Cast DEF Branch
  <2>2. OnOwnBranch(q) => OnOwnBranch(q)' \/ q \in Lost'
    BY <2>1 DEF OnOwnBranch
  <2>3. q \in local[Main] => q \in local'[Main] \cup Lost'
    BY <1>1
  <2>4. ASSUME Safe(q), q \notin Lost' PROVE Safe(q)'
    <3>1. q \in local'[IF Branch(q) \in DOMAIN local' THEN Branch(q) ELSE Main]
      <4>1. CASE Branch(q) \in DOMAIN local
        BY <2>4, <4>1 DEF Safe
      <4>2. CASE Branch(q) \notin DOMAIN local
        BY <2>3, <2>4, <4>2 DEF Safe
      <4> QED
        BY <4>1, <4>2
    <3>2. Branch(q) \in DOMAIN origin' /\ q \in origin'[Branch(q)]
      BY <2>1, <2>4 DEF Safe
    <3>3. Branch(q) \in DOMAIN tracked' => q \in tracked'[Branch(q)]
      BY <2>1, <2>4 DEF Safe
    <3> QED
      BY <2>1, <3>1, <3>2, <3>3 DEF Safe
  <2> QED
    BY <2>2, <2>3, <2>4
<1> QED
  BY <1>2, <1>3 DEF Grows

(* A branch that goes leaves what it had on main, or it is counted as lost.   *)
LEMMA BranchGone ==
    ASSUME CloneAssumption, MirrorInv, KeepInv, NEW b \in Branches, head # b,
           local' = Without(local, b), Lost \subseteq Lost',
           b \in DOMAIN local => local[b] \subseteq local[Main] \cup Lost',
           \A q \in ChangesOf(b) : UnderWay(q) /\ OnOwnBranch(q) => q \in Lost',
           UNCHANGED <<upstream, head, origin, tracked, cast, abandoned>>
    PROVE  Grows
<1>1. b # Main /\ Main \in DOMAIN local
  BY DEF CloneAssumption, MirrorInv, TrunkOk
<1>2. /\ DOMAIN local' = DOMAIN local \ {b}
      /\ \A x \in DOMAIN local \ {b} : local'[x] = local[x]
  BY DEF Without, Restrict
<1>3. Main \in DOMAIN local' /\ local'[Main] = local[Main] /\ head' \in DOMAIN local'
  BY <1>1, <1>2 DEF KeepInv
<1>4. ASSUME NEW c \in Everything PROVE c \in Everything'
  <2>1. CASE c \in upstream \cup Lost \cup abandoned
    BY <2>1 DEF Everything
  <2>2. ASSUME NEW x \in DOMAIN local, c \in local[x] PROVE c \in Everything'
    <3>1. CASE x # b
      BY <1>2, <2>2, <3>1 DEF Everything, InTheClone
    <3>2. CASE x = b
      BY <1>3, <2>2, <3>2 DEF Everything, InTheClone
    <3> QED
      BY <3>1, <3>2
  <2> QED
    BY <2>1, <2>2 DEF Everything, InTheClone
<1>5. ASSUME NEW q \in Requests
      PROVE  /\ Safe(q) => Safe(q)' \/ q \in Lost'
             /\ UnderWay(q) /\ OnOwnBranch(q) => OnOwnBranch(q)' \/ q \in Lost'
  <2>1. Branch(q)' = Branch(q)
    BY DEF Branch
  <2>2. CASE Branch(q) # b
    BY <1>2, <1>3, <2>1, <2>2 DEF Safe, OnOwnBranch
  <2>3. CASE Branch(q) = b
    BY <1>2, <1>3, <2>1, <2>3 DEF Safe, OnOwnBranch, ChangesOf
  <2> QED
    BY <2>2, <2>3
<1> QED
  BY <1>3, <1>4, <1>5 DEF Grows

(* Requests that wait keep what they had.                                     *)
LEMMA OthersKeep ==
    ASSUME MirrorInv, KeepInv, Grows, NEW q \in Requests, jobs'[q] = jobs[q]
    PROVE  /\ Route(q, jobs[q])' /\ Held(q, jobs[q])'
           /\ q \in acked => jobs'[q].pc = "done" /\ Kept(q)'
<1>1. Route(q, jobs[q]) /\ Held(q, jobs[q])
  BY DEF KeepInv
<1>2. Route(q, jobs[q])'
  BY <1>1 DEF Route, Grows, Writing, Is
<1>3. Held(q, jobs[q])'
  <2>1. jobs[q].pc \in {"return", "pushBranch"} => UnderWay(q)
    BY DEF UnderWay
  <2> QED
    BY <1>1, <2>1 DEF Held, Route, Grows, Writing, Is
<1>4. q \in acked => jobs'[q].pc = "done" /\ Kept(q)'
  BY DEF KeepInv, Kept, Grows
<1> QED
  BY <1>2, <1>3, <1>4

LEMMA StepKeeps ==
    ASSUME MirrorInv, KeepInv, Grows, NEW r \in Requests, NEW j, jobs' = [jobs EXCEPT ![r] = j],
           jobs[r].pc # "done", Route(r, j)', Held(r, j)', UNCHANGED assured,
           acked' \subseteq acked \cup {r}, r \in acked' => j.pc = "done" /\ Kept(r)'
    PROVE  KeepInv'
<1>1. DOMAIN jobs' = Requests /\ jobs'[r] = j /\ \A q \in Requests \ {r} : jobs'[q] = jobs[q]
  BY DEF MirrorInv, JobsOk
<1>2. Route(r, jobs[r])' /\ Held(r, jobs[r])'
  BY <1>1 DEF Route, Held, Grows, Writing, Is, OnOwnBranch, Lost
<1>3. \A q \in Requests : Route(q, jobs[q])' /\ Held(q, jobs[q])'
  BY <1>1, <1>2, OthersKeep
<1>4. ASSUME NEW c \in acked' PROVE c \in Requests /\ jobs'[c].pc = "done" /\ Kept(c)'
  BY <1>1, <1>4, OthersKeep DEF KeepInv
<1> QED
  BY <1>3, <1>4 DEF KeepInv, Grows

LEMMA QuietKeeps ==
    ASSUME MirrorInv, KeepInv, Grows, UNCHANGED <<jobs, acked, assured>>
    PROVE  KeepInv'
<1>1. \A q \in Requests : Route(q, jobs[q])' /\ Held(q, jobs[q])'
  BY OthersKeep
<1>2. \A c \in acked' : c \in Requests /\ jobs'[c].pc = "done" /\ Kept(c)'
  BY OthersKeep DEF KeepInv
<1> QED
  BY <1>1, <1>2 DEF KeepInv, Grows

LEMMA ContinueKeeps ==
    ASSUME MirrorInv, KeepInv, Grows, NEW r \in Requests, NEW pc, Continue(r, pc),
           UNCHANGED assured, jobs[r].pc # "done",
           pc \notin Pushing \cup {"done"} => jobs[r].remote = "upstream",
           pc # "return",
           pc = "pushBranch" => jobs[r].mode = "pr" /\ (OnOwnBranch(r)' \/ r \in Lost'),
           pc = "mergeDelete" => Is(r, {"merge"}),
           pc \in Pushing /\ Writing(r) =>
              /\ jobs[r].mode = "wild-west"
              /\ IF jobs[r].remote = "upstream" THEN r \in local'[Main] \cup Lost'
                                                ELSE jobs[r].failed \/ r \in upstream' \cup Lost'
    PROVE  KeepInv'
<1>1. PICK j : j = [jobs[r] EXCEPT !.pc = pc]
  OBVIOUS
<1>2. jobs[r] \in Job
  BY DEF MirrorInv, JobsOk
<1>3. /\ j.pc = pc /\ j.remote = jobs[r].remote /\ j.clearing = jobs[r].clearing
      /\ j.failed = jobs[r].failed /\ j.mode = jobs[r].mode
  BY <1>1, <1>2 DEF Job
<1>4. jobs' = [jobs EXCEPT ![r] = j] /\ UNCHANGED acked
  BY <1>1 DEF Continue, Goto
<1>5. Route(r, j)'
  BY <1>3 DEF Route, Grows, Writing, Is
<1>6. Held(r, j)'
  BY <1>3 DEF Held, Grows, Writing, Is
<1>7. r \notin acked
  BY DEF KeepInv
<1> QED
  BY <1>4, <1>5, <1>6, <1>7, StepKeeps

LEMMA EndKeeps ==
    ASSUME MirrorInv, KeepInv, Grows, NEW r \in Requests, NEW pushed, End(r, pushed),
           UNCHANGED assured, jobs[r].pc # "done",
           pushed => r \in upstream' \cup Lost' \/ (jobs[r].mode = "pr" /\ Safe(r)')
    PROVE  KeepInv'
<1>1. PICK j : j = [jobs[r] EXCEPT !.pc = "done"]
  OBVIOUS
<1>2. jobs[r] \in Job /\ DOMAIN jobs = Requests
  BY DEF MirrorInv, JobsOk
<1>3. j.pc = "done" /\ j.mode = jobs[r].mode
  BY <1>1, <1>2 DEF Job
<1>4. jobs' = [jobs EXCEPT ![r] = j] /\ jobs'[r] = j
  BY <1>1, <1>2 DEF End, Goto
<1>5. Route(r, j)' /\ Held(r, j)'
  BY <1>3 DEF Route, Held, Pushing
<1>6. acked' \subseteq acked \cup {r} /\ (r \in acked' => pushed)
  BY DEF End, KeepInv
<1>7. r \in acked' => Kept(r)'
  BY <1>3, <1>4, <1>6 DEF Kept
<1> QED
  BY <1>3, <1>4, <1>5, <1>6, <1>7, StepKeeps

(* Steps that leave every branch as it is.                                    *)
LEMMA SameBranches ==
    ASSUME CloneAssumption, MirrorInv, UNCHANGED <<cast, local>>, head' \in DOMAIN local,
           upstream \subseteq upstream', Lost \subseteq Lost', abandoned \subseteq abandoned',
           \A b \in DOMAIN origin \ {Main} : b \in DOMAIN origin' /\ origin[b] \subseteq origin'[b],
           \A b \in DOMAIN tracked' \ {Main} : b \in DOMAIN tracked /\ tracked'[b] = tracked[b]
    PROVE  Grows
BY BranchesGrow

LEMMA BeginKeeps ==
    ASSUME CloneAssumption, MirrorInv, KeepInv, NEW r \in Requests, Begin(r) PROVE KeepInv'
<1>1. /\ jobs[r].pc = "asked" /\ UNCHANGED <<acked, assured, cast, gitVars, losses>>
      /\ jobs' = [jobs EXCEPT ![r].pc = First(r), ![r].mode = mode[Process(r)]]
  BY DEF Begin, At
<1>2. Grows
  BY <1>1, SameBranches DEF gitVars, losses, Lost, KeepInv
<1>3. First(r) \in {"create", "script", "merge", "delete"}
  BY Cast DEF Begin, First, Is, Kinds, MirrorInv
<1>4. PICK pc, m : pc = First(r) /\ m = mode[Process(r)]
  OBVIOUS
<1>5. PICK k : k = [jobs[r] EXCEPT !.pc = pc]
  OBVIOUS
<1>6. PICK j : j = [k EXCEPT !.mode = m]
  OBVIOUS
<1>7. jobs[r] \in Job /\ DOMAIN jobs = Requests
  BY DEF MirrorInv, JobsOk
<1>8. DOMAIN k = DOMAIN jobs[r] /\ k.pc = pc /\ k.remote = jobs[r].remote
  BY <1>5, <1>7 DEF Job
<1>9. j.pc = pc /\ j.remote = jobs[r].remote
  BY <1>6, <1>7, <1>8 DEF Job
<1>10. jobs' = [jobs EXCEPT ![r] = j]
  BY <1>1, <1>4, <1>5, <1>6, <1>7
<1>11. jobs[r].remote = "upstream"
  BY <1>1 DEF KeepInv, Route, Pushing
<1>12. Route(r, j)' /\ Held(r, j)'
  BY <1>3, <1>4, <1>9, <1>11 DEF Route, Held, Pushing
<1>13. r \notin acked'
  BY <1>1 DEF KeepInv
<1> QED
  BY <1>1, <1>2, <1>10, <1>12, <1>13, StepKeeps

(* What a request is answered to be there is in the clone then.               *)
LEMMA AnswerKeeps ==
    ASSUME CloneAssumption, MirrorInv, KeepInv, NEW r \in Requests, AnswerFromBranch(r)
    PROVE  KeepInv'
<1>1. /\ jobs[r].pc = "asked" /\ UNCHANGED <<acked, cast, gitVars, losses>> /\ Goto(r, "done")
      /\ Branch(r) \in DOMAIN local
      /\ assured' \subseteq assured \cup local[Branch(r)]
  BY DEF AnswerFromBranch, At
<1>2. Grows
  BY <1>1, SameBranches DEF gitVars, losses, Lost, KeepInv
<1>3. assured' \subseteq Everything'
  BY <1>1, <1>2 DEF KeepInv, Grows, Everything, InTheClone
<1>4. /\ DOMAIN jobs = Requests /\ DOMAIN jobs' = Requests
      /\ \A q \in Requests \ {r} : jobs'[q] = jobs[q]
  BY <1>1 DEF MirrorInv, JobsOk, Goto
<1>5. jobs'[r].pc = "done"
  BY <1>1, <1>4 DEF MirrorInv, JobsOk, Goto, Job
<1>6. Route(r, jobs[r])' /\ Held(r, jobs[r])'
  BY <1>5 DEF Route, Held, Pushing
<1>7. \A q \in Requests : Route(q, jobs[q])' /\ Held(q, jobs[q])'
  BY <1>2, <1>4, <1>6, OthersKeep
<1>8. r \notin acked
  BY <1>1 DEF KeepInv
<1>9. \A c \in acked' : c \in Requests /\ jobs'[c].pc = "done" /\ Kept(c)'
  BY <1>1, <1>2, <1>4, <1>8, OthersKeep DEF KeepInv
<1> QED
  BY <1>2, <1>3, <1>7, <1>9 DEF KeepInv, Grows

LEMMA SettingsKeep ==
    ASSUME CloneAssumption, MirrorInv, KeepInv, NEW r \in Requests, NEW m \in Modes,
           NEW ok \in BOOLEAN, SaveSettings(r, m, ok)
    PROVE  KeepInv'
<1>1. /\ jobs[r].pc = "asked" /\ UNCHANGED <<acked, assured, cast, gitVars, losses>>
      /\ Goto(r, "done")
  BY DEF SaveSettings, At
<1>2. Grows
  BY <1>1, SameBranches DEF gitVars, losses, Lost, KeepInv
<1>3. PICK j : j = [jobs[r] EXCEPT !.pc = "done"]
  OBVIOUS
<1>4. j.pc = "done" /\ jobs' = [jobs EXCEPT ![r] = j]
  BY <1>1, <1>3 DEF MirrorInv, JobsOk, Job, Goto
<1>5. Route(r, j)' /\ Held(r, j)' /\ r \notin acked'
  BY <1>1, <1>4 DEF Route, Held, Pushing, KeepInv
<1> QED
  BY <1>1, <1>2, <1>4, <1>5, StepKeeps

LEMMA CreateKeeps ==
    ASSUME CloneAssumption, MirrorInv, KeepInv, NEW r \in Requests, NEW ok \in BOOLEAN,
           CreateBranch(r, ok)
    PROVE  KeepInv'
<1>1. /\ jobs[r].pc = "create" /\ jobs[r].remote = "upstream"
      /\ UNCHANGED <<cast, head, tracked, origin, upstream, dropped, astray, abandoned, assured>>
  BY DEF CreateBranch, At, aside, KeepInv, Route, Pushing
<1>2. /\ \A b \in DOMAIN local : b \in DOMAIN local' /\ local[b] \subseteq local'[b]
      /\ \A b \in DOMAIN local' \ DOMAIN local : local[Main] \subseteq local'[b]
  BY DEF CreateBranch, With
<1>3. Grows
  BY <1>1, <1>2, BranchesGrow DEF KeepInv, Lost
<1>4. CASE Continue(r, "checkout")
  BY <1>1, <1>3, <1>4, ContinueKeeps DEF Pushing
<1>5. CASE End(r, FALSE)
  BY <1>1, <1>3, <1>5, EndKeeps
<1> QED
  BY <1>4, <1>5 DEF CreateBranch

LEMMA CheckoutKeeps ==
    ASSUME CloneAssumption, MirrorInv, KeepInv, NEW r \in Requests, NEW ok \in BOOLEAN,
           Checkout(r, ok)
    PROVE  KeepInv'
<1>1. /\ jobs[r].pc = "checkout" /\ jobs[r].remote = "upstream" /\ head' \in DOMAIN local
      /\ UNCHANGED <<cast, local, tracked, origin, upstream, dropped, astray, abandoned, assured>>
  BY DEF Checkout, At, aside, KeepInv, Route, Pushing
<1>2. Grows
  BY <1>1, SameBranches DEF Lost
<1>3. CASE Continue(r, "script")
  BY <1>1, <1>2, <1>3, ContinueKeeps DEF Pushing
<1>4. CASE End(r, FALSE)
  BY <1>1, <1>2, <1>4, EndKeeps
<1> QED
  BY <1>3, <1>4 DEF Checkout

(* A script's change is on the branch it was meant for, or counted as lost.   *)
LEMMA ScriptKeeps ==
    ASSUME CloneAssumption, MirrorInv, KeepInv, NEW r \in Requests, NEW ok \in BOOLEAN,
           NEW effect \in {"none", "half", "all"}, Script(r, effect, ok)
    PROVE  KeepInv'
<1>1. PICK commit, strays, foreign :
         /\ commit = Committed(dirty \cup {r})
         /\ foreign = (IF head = Main THEN dirty \ meant ELSE {})
         /\ strays = (IF head = Target(r) \/ (OnBranch(r) /\ Alone(r)) THEN foreign
                      ELSE foreign \cup {r})
  OBVIOUS
<1>2. /\ jobs[r].pc = "script" /\ (ok => effect = "all")
      /\ local' = IF effect = "all" THEN [local EXCEPT ![head] = commit] ELSE local
      /\ astray' = IF effect = "all" THEN astray \cup Adding(strays) ELSE astray
      /\ dropped' = IF effect = "all" THEN dropped \cup (local[head] \ commit) ELSE dropped
      /\ UNCHANGED <<cast, head, tracked, origin, upstream, abandoned, assured>>
  BY <1>1 DEF Script, At, aside
<1>3. DOMAIN local' = DOMAIN local /\ head \in DOMAIN local
  BY <1>2 DEF KeepInv
<1>4. \A b \in DOMAIN local : local[b] \subseteq local'[b] \cup Lost'
  BY <1>2 DEF Lost
<1>5. Grows
  BY <1>2, <1>3, <1>4, BranchesGrow DEF Lost
<1>6. /\ jobs[r] \in Job /\ jobs[r].remote = "upstream" /\ ScriptOk(r, jobs[r])
      /\ DOMAIN jobs = Requests
  BY <1>2 DEF MirrorInv, JobsOk, ScriptsOk, KeepInv, Route, Pushing
<1>7. ASSUME ok, ~jobs[r].clearing
      PROVE  IF jobs[r].mode = "pr" THEN OnOwnBranch(r)' \/ r \in Lost'
                                    ELSE r \in local'[Main] \cup Lost'
  <2>1. r \in Adding(dirty \cup {r}) /\ (r \in strays => r \in Lost')
    BY <1>2, <1>7 DEF Adding, Lost
  <2>2. r \in commit /\ local'[head] = commit
    BY <1>1, <1>2, <1>3, <1>7, <2>1 DEF Committed
  <2>3. CASE jobs[r].mode = "pr"
    <3>1. head = Branch(r) \/ r \in strays
      BY <1>1, <1>2, <1>6, <2>3 DEF ScriptOk, OnBranch, Target
    <3>2. Branch(r)' = Branch(r)
      BY <1>2 DEF Branch
    <3> QED
      BY <1>3, <2>1, <2>2, <2>3, <3>1, <3>2 DEF OnOwnBranch
  <2>4. CASE jobs[r].mode # "pr"
    <3>1. head = Main \/ r \in strays
      BY <1>1, <1>7, <2>4 DEF OnBranch, Target
    <3> QED
      BY <2>1, <2>2, <2>4, <3>1
  <2> QED
    BY <2>3, <2>4
<1>8. CASE /\ jobs' = [jobs EXCEPT ![r].pc = "return", ![r].failed = ~ok]
           /\ UNCHANGED acked /\ OnBranch(r)
  <2>1. PICK f \in BOOLEAN : f = ~ok
    OBVIOUS
  <2>2. PICK k : k = [jobs[r] EXCEPT !.pc = "return"]
    OBVIOUS
  <2>3. PICK j : j = [k EXCEPT !.failed = f]
    OBVIOUS
  <2>4. jobs' = [jobs EXCEPT ![r] = j]
    BY <1>6, <1>8, <2>1, <2>2, <2>3
  <2>5. /\ DOMAIN k = DOMAIN jobs[r] /\ k.pc = "return" /\ k.remote = jobs[r].remote
        /\ k.mode = jobs[r].mode /\ k.clearing = jobs[r].clearing
    BY <1>6, <2>2 DEF Job
  <2>6. /\ j.pc = "return" /\ j.failed = f /\ j.remote = jobs[r].remote
        /\ j.mode = jobs[r].mode /\ j.clearing = jobs[r].clearing
    BY <1>6, <2>3, <2>5 DEF Job
  <2>7. Route(r, j)'
    BY <1>6, <1>8, <2>6 DEF Route, Pushing, OnBranch
  <2>8. Held(r, j)'
    BY <1>7, <1>8, <2>1, <2>6 DEF Held, Pushing, OnBranch
  <2>9. r \notin acked'
    BY <1>2, <1>8 DEF KeepInv
  <2> QED
    BY <1>2, <1>5, <1>8, <2>4, <2>7, <2>8, <2>9, StepKeeps
<1>9. CASE End(r, FALSE)
  BY <1>2, <1>5, <1>9, EndKeeps
<1>10. CASE ok /\ ~OnBranch(r) /\ Continue(r, "push")
  <2>1. jobs[r].mode = "wild-west" /\ ~jobs[r].clearing
    BY <1>6, <1>10 DEF OnBranch, Job
  <2> QED
    BY <1>2, <1>5, <1>6, <1>7, <1>10, <2>1, ContinueKeeps DEF Pushing
<1> QED
  BY <1>8, <1>9, <1>10 DEF Script

LEMMA ReturnKeeps ==
    ASSUME CloneAssumption, MirrorInv, KeepInv, NEW r \in Requests, NEW ok \in BOOLEAN,
           ReturnToMain(r, ok)
    PROVE  KeepInv'
<1>1. /\ jobs[r].pc = "return" /\ jobs[r].remote = "upstream" /\ head' \in DOMAIN local
      /\ UNCHANGED <<cast, local, tracked, origin, upstream, dropped, astray, abandoned, assured>>
  BY DEF ReturnToMain, At, aside, KeepInv, Route, Pushing, MirrorInv, TrunkOk
<1>2. Grows
  BY <1>1, SameBranches DEF Lost
<1>3. CASE ~jobs[r].failed /\ ~jobs[r].clearing /\ Continue(r, "pushBranch")
  <2>1. jobs[r].mode = "pr" /\ (OnOwnBranch(r) \/ r \in Lost)
    BY <1>1, <1>3 DEF KeepInv, Route, Held
  <2>2. OnOwnBranch(r)' \/ r \in Lost'
    BY <1>1, <2>1 DEF OnOwnBranch, Lost, Branch
  <2> QED
    BY <1>1, <1>2, <1>3, <2>1, <2>2, ContinueKeeps DEF Pushing
<1>4. CASE End(r, FALSE)
  BY <1>1, <1>2, <1>4, EndKeeps
<1> QED
  BY <1>3, <1>4 DEF ReturnToMain

(* A forced push puts what the clone has in the place of what the fork has.   *)
LEMMA PushBranchKeeps ==
    ASSUME CloneAssumption, MirrorInv, KeepInv, NEW r \in Requests, NEW ok \in BOOLEAN,
           PushBranch(r, ok)
    PROVE  KeepInv'
<1>1. /\ jobs[r].pc = "pushBranch" /\ jobs[r].remote = "upstream" /\ jobs[r].mode = "pr"
      /\ OnOwnBranch(r) \/ r \in Lost
      /\ UNCHANGED <<cast, head, local, upstream, dropped, astray, abandoned, assured>>
  BY DEF PushBranch, At, aside, KeepInv, Route, Held, Pushing
<1>2. PICK pushed \in BOOLEAN :
         /\ pushed => Branch(r) \in DOMAIN local
         /\ origin' = IF pushed THEN With(origin, Branch(r), local[Branch(r)]) ELSE origin
         /\ tracked' = IF pushed THEN With(tracked, Branch(r), local[Branch(r)]) ELSE tracked
         /\ Continue(r, "delete") \/ End(r, pushed)
  BY DEF PushBranch
<1>3. ASSUME NEW q \in Requests, Safe(q) PROVE Safe(q)'
  <2>1. UNCHANGED <<Branch(q), local>>
    BY <1>1 DEF Branch
  <2>2. CASE ~pushed
    BY <1>2, <1>3, <2>1, <2>2 DEF Safe
  <2>3. CASE pushed /\ Branch(q) = Branch(r)
    BY <1>2, <1>3, <2>1, <2>3 DEF Safe, With
  <2>4. CASE pushed /\ Branch(q) # Branch(r)
    BY <1>2, <1>3, <2>1, <2>4 DEF Safe, With
  <2> QED
    BY <2>2, <2>3, <2>4
<1>4. Grows
  BY <1>1, <1>3 DEF Grows, KeepInv, Lost, Everything, InTheClone, OnOwnBranch, Branch
<1>5. pushed => r \in Lost' \/ Safe(r)'
  BY <1>1, <1>2 DEF Lost, Safe, OnOwnBranch, With, Branch
<1>6. CASE Continue(r, "delete")
  BY <1>1, <1>4, <1>6, ContinueKeeps DEF Pushing
<1>7. CASE End(r, pushed)
  BY <1>1, <1>4, <1>5, <1>7, EndKeeps
<1> QED
  BY <1>2, <1>6, <1>7

LEMMA DeleteKeeps ==
    ASSUME CloneAssumption, MirrorInv, KeepInv, NEW r \in Requests, NEW ok \in BOOLEAN,
           DeleteBranch(r, ok)
    PROVE  KeepInv'
<1>1. PICK deleted \in BOOLEAN :
         /\ deleted = (ok /\ Branch(r) \in DOMAIN local /\ head # Branch(r))
         /\ local' = IF deleted THEN Without(local, Branch(r)) ELSE local
         /\ dropped' = IF deleted THEN dropped \cup local[Branch(r)] ELSE dropped
         /\ jobs' = [jobs EXCEPT ![r].pc = IF deleted THEN "deleteRemote" ELSE "create",
                                 ![r].clearing = ~deleted]
  BY DEF DeleteBranch
<1>2. /\ jobs[r].pc = "delete"
      /\ UNCHANGED <<cast, head, tracked, origin, upstream, astray, abandoned, acked, assured>>
  BY DEF DeleteBranch, At, aside
<1>3. Grows
  <2>1. PICK b \in Branches : b = Branch(r)
    BY Cast DEF MirrorInv
  <2>2. CASE deleted
    <3>1. /\ local' = Without(local, b) /\ head # b /\ Lost \subseteq Lost'
          /\ local[b] \subseteq Lost'
      BY <1>1, <1>2, <2>1, <2>2 DEF Lost
    <3>2. \A q \in ChangesOf(b) : OnOwnBranch(q) => q \in Lost'
      BY <3>1 DEF ChangesOf, OnOwnBranch
    <3> QED
      BY <1>2, <3>1, <3>2, BranchGone
  <2>3. CASE ~deleted
    BY <1>1, <1>2, <2>3, SameBranches DEF KeepInv, Lost
  <2> QED
    BY <2>2, <2>3
<1>4. PICK pc \in {"deleteRemote", "create"} : pc = IF deleted THEN "deleteRemote" ELSE "create"
  OBVIOUS
<1>5. PICK c \in BOOLEAN : c = ~deleted
  OBVIOUS
<1>6. PICK k : k = [jobs[r] EXCEPT !.pc = pc]
  OBVIOUS
<1>7. PICK j : j = [k EXCEPT !.clearing = c]
  OBVIOUS
<1>8. jobs[r] \in Job /\ DOMAIN jobs = Requests /\ jobs[r].remote = "upstream"
  BY <1>2 DEF MirrorInv, JobsOk, KeepInv, Route, Pushing
<1>9. jobs' = [jobs EXCEPT ![r] = j]
  BY <1>1, <1>4, <1>5, <1>6, <1>7, <1>8
<1>10. DOMAIN k = DOMAIN jobs[r] /\ k.pc = pc /\ k.remote = jobs[r].remote
  BY <1>6, <1>8 DEF Job
<1>11. j.pc = pc /\ j.remote = jobs[r].remote
  BY <1>7, <1>8, <1>10 DEF Job
<1>12. Route(r, j)' /\ Held(r, j)'
  BY <1>8, <1>11 DEF Route, Held, Pushing
<1>13. r \notin acked'
  BY <1>2 DEF KeepInv
<1> QED
  BY <1>2, <1>3, <1>9, <1>12, <1>13, StepKeeps

LEMMA DeleteRemoteKeeps ==
    ASSUME CloneAssumption, MirrorInv, KeepInv, NEW r \in Requests, NEW ok \in BOOLEAN,
           DeleteRemoteBranch(r, ok)
    PROVE  KeepInv'
<1>1. /\ jobs[r].pc = "deleteRemote" /\ End(r, FALSE)
      /\ UNCHANGED <<cast, local, head, upstream, astray, abandoned, assured>>
  BY DEF DeleteRemoteBranch, At, aside
<1>2. /\ origin' = IF ok THEN Without(origin, Branch(r)) ELSE origin
      /\ tracked' = IF ok THEN Without(tracked, Branch(r)) ELSE tracked
      /\ dropped' = IF ok /\ Branch(r) \in DOMAIN origin
                    THEN dropped \cup origin[Branch(r)] ELSE dropped
  BY DEF DeleteRemoteBranch
<1>3. ASSUME NEW q \in Requests, Safe(q), q \notin Lost' PROVE Safe(q)'
  <2>1. UNCHANGED <<Branch(q), local>>
    BY <1>1 DEF Branch
  <2>2. CASE ~ok
    BY <1>2, <1>3, <2>1, <2>2 DEF Safe
  <2>3. CASE ok
    <3>1. Branch(q) # Branch(r)
      BY <1>2, <1>3, <2>3 DEF Safe, Lost
    <3> QED
      BY <1>2, <1>3, <2>1, <2>3, <3>1 DEF Safe, Without, Restrict
  <2> QED
    BY <2>2, <2>3
<1>4. Lost \subseteq Lost'
  BY <1>1, <1>2 DEF Lost
<1>5. Grows
  BY <1>1, <1>3, <1>4 DEF Grows, KeepInv, Everything, InTheClone, OnOwnBranch, Branch
<1> QED
  BY <1>1, <1>5, EndKeeps

LEMMA MergedBranchGone ==
    ASSUME CloneAssumption, MirrorInv, KeepInv, NEW r \in Requests,
           local' = local \/ (head # Branch(r) /\ local' = Without(local, Branch(r))),
           astray' = astray \cup Unmerged(Branch(r), local'),
           UNCHANGED <<cast, upstream, head, origin, tracked, dropped, abandoned>>
    PROVE  Grows
<1>1. CASE local' = local
  BY <1>1, SameBranches DEF KeepInv, Lost
<1>2. CASE head # Branch(r) /\ local' = Without(local, Branch(r))
  <2>1. PICK b \in Branches : b = Branch(r)
    BY Cast DEF MirrorInv
  <2>2. b \notin DOMAIN local'
    BY <1>2, <2>1 DEF Without, Restrict
  <2>3. /\ Lost \subseteq Lost'
        /\ b \in DOMAIN local => local[b] \subseteq local[Main] \cup Lost'
    BY <2>1, <2>2 DEF Unmerged, Lost
  <2>4. \A q \in ChangesOf(b) : UnderWay(q) /\ OnOwnBranch(q) => q \in Lost'
    BY <2>1, <2>2 DEF Unmerged, Lost, ChangesOf, OnOwnBranch
  <2> QED
    BY <1>2, <2>1, <2>3, <2>4, BranchGone
<1> QED
  BY <1>1, <1>2

(* A merge only adds to main.                                                 *)
LEMMA MergedGrows ==
    ASSUME CloneAssumption, MirrorInv, KeepInv, NEW r \in Requests, NEW ok \in BOOLEAN,
           Merged(r, ok),
           UNCHANGED <<cast, upstream, head, origin, tracked, dropped, astray, abandoned>>
    PROVE  Grows
<1>1. \A b \in DOMAIN local : b \in DOMAIN local' /\ local[b] \subseteq local'[b]
  BY DEF Merged
<1>2. DOMAIN local' = DOMAIN local
  BY DEF Merged
<1> QED
  BY <1>1, <1>2, BranchesGrow DEF KeepInv, Lost

LEMMA ApplyKeeps ==
    ASSUME CloneAssumption, MirrorInv, KeepInv, NEW r \in Requests, NEW ok \in BOOLEAN,
           ApplyMerge(r, ok) \/ ApplyDelete(r, ok) \/ PushOriginMain(r, ok)
    PROVE  KeepInv'
<1>1. CASE ApplyMerge(r, ok)
  <2>1. PICK merged \in BOOLEAN : Merged(r, merged)
    BY <1>1 DEF ApplyMerge
  <2>2. Grows
    BY <1>1, <2>1, MergedGrows DEF ApplyMerge, aside
  <2>3. jobs[r].pc = "merge" /\ jobs[r].remote = "upstream" /\ UNCHANGED assured
    BY <1>1 DEF ApplyMerge, At, aside, KeepInv, Route, Pushing
  <2>4. CASE Continue(r, "applyDelete")
    BY <2>2, <2>3, <2>4, ContinueKeeps DEF Pushing
  <2>5. CASE End(r, FALSE)
    BY <2>2, <2>3, <2>5, EndKeeps
  <2> QED
    BY <1>1, <2>4, <2>5 DEF ApplyMerge
<1>2. CASE ApplyDelete(r, ok)
  <2>1. Grows
    BY <1>2, MergedBranchGone DEF ApplyDelete, aside
  <2>2. jobs[r].pc = "applyDelete" /\ jobs[r].remote = "upstream" /\ UNCHANGED assured
    BY <1>2 DEF ApplyDelete, At, aside, KeepInv, Route, Pushing
  <2>3. CASE Continue(r, "pushMain")
    BY <2>1, <2>2, <2>3, ContinueKeeps DEF Pushing
  <2>4. CASE End(r, FALSE)
    BY <2>1, <2>2, <2>4, EndKeeps
  <2> QED
    BY <1>2, <2>3, <2>4 DEF ApplyDelete
<1>3. CASE PushOriginMain(r, ok)
  <2>1. Grows
    BY <1>3, SameBranches DEF PushOriginMain, aside, KeepInv, Lost
  <2> QED
    BY <1>3, <2>1, EndKeeps DEF PushOriginMain, At, aside
<1> QED
  BY <1>1, <1>2, <1>3

(* Pushes of main, which only wild-west mutations and `wl merge` make.        *)
LEMMA NextRemoteKeeps ==
    ASSUME MirrorInv, KeepInv, Grows, NEW r \in Requests, jobs[r].pc \in Pushing,
           NEW f \in BOOLEAN, NextRemote(r, f), UNCHANGED assured,
           Writing(r) /\ ~f => r \in upstream' \cup Lost'
    PROVE  KeepInv'
<1>1. Route(r, jobs[r]) /\ Held(r, jobs[r]) /\ jobs[r] \in Job /\ jobs[r].pc # "done"
  BY DEF KeepInv, MirrorInv, JobsOk, Pushing
<1>2. CASE jobs[r].remote = "upstream"
  <2>1. PICK k : k = [jobs[r] EXCEPT !.pc = "push"]
    OBVIOUS
  <2>2. PICK l : l = [k EXCEPT !.remote = "origin"]
    OBVIOUS
  <2>3. PICK j : j = [l EXCEPT !.failed = f]
    OBVIOUS
  <2>4. jobs' = [jobs EXCEPT ![r] = j] /\ UNCHANGED acked
    BY <1>2, <2>1, <2>2, <2>3 DEF NextRemote, MirrorInv, JobsOk
  <2>5. /\ DOMAIN k = DOMAIN jobs[r] /\ k.pc = "push" /\ k.mode = jobs[r].mode
        /\ k.clearing = jobs[r].clearing
    BY <1>1, <2>1 DEF Job
  <2>6. /\ DOMAIN l = DOMAIN jobs[r] /\ l.pc = "push" /\ l.mode = jobs[r].mode
        /\ l.remote = "origin" /\ l.clearing = jobs[r].clearing
    BY <1>1, <2>2, <2>5 DEF Job
  <2>7. /\ j.pc = "push" /\ j.mode = jobs[r].mode /\ j.remote = "origin" /\ j.failed = f
        /\ j.clearing = jobs[r].clearing
    BY <1>1, <2>3, <2>6 DEF Job
  <2>8. Route(r, j)'
    BY <1>1, <2>7 DEF Route, Pushing, Grows, Writing, Is
  <2>9. Held(r, j)'
    BY <2>7 DEF Held, Pushing, Grows, Writing, Is
  <2>10. r \notin acked'
    BY <1>1, <2>4 DEF KeepInv
  <2> QED
    BY <1>1, <2>4, <2>8, <2>9, <2>10, StepKeeps
<1>3. CASE jobs[r].remote # "upstream"
  <2>1. PICK pushed \in BOOLEAN : pushed = (Writing(r) /\ ~f)
    OBVIOUS
  <2>2. End(r, pushed)
    BY <1>3, <2>1 DEF NextRemote, Writing
  <2> QED
    BY <1>1, <2>1, <2>2, EndKeeps
<1> QED
  BY <1>2, <1>3

LEMMA PushRemoteKeeps ==
    ASSUME CloneAssumption, MirrorInv, KeepInv, NEW r \in Requests, NEW ok \in BOOLEAN,
           PushRemote(r, ok)
    PROVE  KeepInv'
<1>1. PICK pushed \in BOOLEAN :
         /\ pushed = (ok /\ RemoteMain(r) \subseteq local[Main])
         /\ upstream' = IF pushed /\ jobs[r].remote = "upstream" THEN local[Main] ELSE upstream
         /\ \/ pushed /\ NextRemote(r, jobs[r].failed)
            \/ ~pushed /\ At(r, "push") /\ Continue(r, "pullRemote")
            \/ ~pushed /\ NextRemote(r, TRUE)
  BY DEF PushRemote
<1>2. /\ jobs[r].pc \in {"push", "pushAgain"}
      /\ UNCHANGED <<cast, local, head, dropped, astray, abandoned, assured>>
  BY DEF PushRemote, aside
<1>3. upstream \subseteq upstream'
  BY <1>1 DEF RemoteMain
<1>4. /\ \A b \in DOMAIN origin \ {Main} : b \in DOMAIN origin' /\ origin[b] \subseteq origin'[b]
      /\ \A b \in DOMAIN tracked' \ {Main} : b \in DOMAIN tracked /\ tracked'[b] = tracked[b]
  BY DEF PushRemote
<1>5. Grows
  BY <1>2, <1>3, <1>4, SameBranches DEF KeepInv, Lost
<1>6. Route(r, jobs[r]) /\ Held(r, jobs[r]) /\ jobs[r] \in Job
  BY DEF KeepInv, MirrorInv, JobsOk
<1>7. Lost' = Lost /\ local' = local
  BY <1>2 DEF Lost
<1>8. CASE pushed /\ NextRemote(r, jobs[r].failed)
  <2>1. Writing(r) /\ ~jobs[r].failed => r \in upstream' \cup Lost'
    BY <1>1, <1>2, <1>3, <1>6, <1>7, <1>8 DEF Held, Pushing
  <2>2. PICK f \in BOOLEAN : f = jobs[r].failed
    BY <1>6 DEF Job
  <2> QED
    BY <1>2, <1>5, <1>8, <2>1, <2>2, NextRemoteKeeps DEF Pushing
<1>9. CASE At(r, "push") /\ Continue(r, "pullRemote")
  <2>1. Writing(r) => jobs[r].mode = "wild-west"
    BY <1>2, <1>6 DEF Route, Pushing
  <2>2. Writing(r) => IF jobs[r].remote = "upstream" THEN r \in local'[Main] \cup Lost'
                      ELSE jobs[r].failed \/ r \in upstream' \cup Lost'
    BY <1>2, <1>3, <1>6, <1>7 DEF Held, Pushing
  <2> QED
    BY <1>2, <1>5, <1>9, <2>1, <2>2, ContinueKeeps DEF Pushing
<1>10. CASE NextRemote(r, TRUE)
  BY <1>2, <1>5, <1>10, NextRemoteKeeps DEF Pushing
<1> QED
  BY <1>1, <1>8, <1>9, <1>10

(* A pull adds to the branch that is checked out.                             *)
LEMMA PulledGrows ==
    ASSUME CloneAssumption, MirrorInv, KeepInv, NEW remoteMain,
           Pulled(remoteMain) \/ UNCHANGED local,
           UNCHANGED <<cast, head, origin, tracked, upstream, dropped, astray, abandoned>>
    PROVE  Grows
<1>1. \A b \in DOMAIN local : b \in DOMAIN local' /\ local[b] \subseteq local'[b]
  BY DEF Pulled
<1>2. DOMAIN local' = DOMAIN local
  BY DEF Pulled
<1> QED
  BY <1>1, <1>2, BranchesGrow DEF KeepInv, Lost

LEMMA PullRemoteKeeps ==
    ASSUME CloneAssumption, MirrorInv, KeepInv, NEW r \in Requests, NEW ok \in BOOLEAN,
           PullRemote(r, ok)
    PROVE  KeepInv'
<1>1. Grows
  BY PulledGrows DEF PullRemote, aside
<1>2. /\ Route(r, jobs[r]) /\ Held(r, jobs[r]) /\ jobs[r].pc = "pullRemote"
      /\ UNCHANGED assured
  BY DEF KeepInv, PullRemote, At, aside
<1>3. CASE Continue(r, "pushAgain")
  <2>1. Writing(r) => jobs[r].mode = "wild-west"
    BY <1>2 DEF Route, Pushing
  <2>2. Writing(r) => IF jobs[r].remote = "upstream" THEN r \in local'[Main] \cup Lost'
                      ELSE jobs[r].failed \/ r \in upstream' \cup Lost'
    BY <1>1, <1>2, <2>1 DEF Held, Pushing, Grows
  <2> QED
    BY <1>1, <1>2, <1>3, <2>1, <2>2, ContinueKeeps DEF Pushing
<1>4. CASE NextRemote(r, TRUE)
  BY <1>1, <1>2, <1>4, NextRemoteKeeps DEF Pushing
<1> QED
  BY <1>3, <1>4 DEF PullRemote

(* `wl merge` and `wl sync`.                                                  *)
LEMMA MergeKeeps ==
    ASSUME CloneAssumption, MirrorInv, KeepInv, NEW r \in Requests, NEW ok \in BOOLEAN,
           NEW drop \in BOOLEAN,
           MergeCommand(r, ok) \/ MergeBranch(r, ok) \/ MergeDelete(r, drop, ok)
    PROVE  KeepInv'
<1>1. CASE MergeCommand(r, ok)
  <2>1. /\ jobs[r].pc = "asked" /\ jobs[r].remote = "upstream" /\ head' \in DOMAIN local
        /\ UNCHANGED <<cast, local, tracked, origin, upstream, dropped, astray, abandoned, assured>>
    BY <1>1 DEF MergeCommand, At, aside, KeepInv, Route, Pushing, MirrorInv, TrunkOk
  <2>2. Grows
    BY <2>1, SameBranches DEF Lost
  <2>3. CASE Continue(r, "merge")
    BY <2>1, <2>2, <2>3, ContinueKeeps DEF Pushing
  <2>4. CASE End(r, FALSE)
    BY <2>1, <2>2, <2>4, EndKeeps
  <2> QED
    BY <1>1, <2>3, <2>4 DEF MergeCommand
<1>2. CASE MergeBranch(r, ok)
  <2>1. PICK merged \in BOOLEAN : Merged(r, merged)
    BY <1>2 DEF MergeBranch
  <2>2. Grows
    BY <1>2, <2>1, MergedGrows DEF MergeBranch, aside
  <2>3. /\ jobs[r].pc = "merge" /\ jobs[r].remote = "upstream" /\ Is(r, {"merge"})
        /\ UNCHANGED assured
    BY <1>2 DEF MergeBranch, At, aside, KeepInv, Route, Pushing
  <2>4. CASE Continue(r, "mergeDelete")
    BY <2>2, <2>3, <2>4, ContinueKeeps DEF Pushing
  <2>5. CASE End(r, FALSE)
    BY <2>2, <2>3, <2>5, EndKeeps
  <2> QED
    BY <1>2, <2>4, <2>5 DEF MergeBranch
<1>3. CASE MergeDelete(r, drop, ok)
  <2>1. Grows
    BY <1>3, MergedBranchGone DEF MergeDelete, aside
  <2>2. /\ jobs[r].pc = "mergeDelete" /\ jobs[r].remote = "upstream" /\ ~Writing(r)
        /\ UNCHANGED assured /\ Continue(r, "push")
    BY <1>3 DEF MergeDelete, At, aside, KeepInv, Route, Pushing, Writing, Is
  <2> QED
    BY <2>1, <2>2, ContinueKeeps DEF Pushing
<1> QED
  BY <1>1, <1>2, <1>3

LEMMA PullUpstreamKeeps ==
    ASSUME CloneAssumption, MirrorInv, KeepInv, NEW r \in Requests, NEW ok \in BOOLEAN,
           PullUpstream(r, ok)
    PROVE  KeepInv'
<1>1. Grows
  BY PulledGrows DEF PullUpstream, aside
<1>2. End(r, FALSE) /\ jobs[r].pc = "asked" /\ UNCHANGED assured
  BY DEF PullUpstream, At, aside
<1> QED
  BY <1>1, <1>2, EndKeeps

(* Sync: what it resets is on its branch or counted as lost.                  *)
LEMMA ResetGrows ==
    ASSUME CloneAssumption, MirrorInv, KeepInv, NEW ok \in BOOLEAN, SyncReset(ok) PROVE Grows
<1>1. /\ UNCHANGED <<cast, head, tracked, origin, upstream, dropped, abandoned>>
      /\ local' = IF ok THEN [local EXCEPT ![head] = fetched] ELSE local
      /\ astray' = IF ok THEN astray \cup Overwritten ELSE astray
  BY DEF SyncReset, SyncUnchanged
<1>2. head \in DOMAIN local /\ Main \in DOMAIN local /\ fetched \subseteq upstream
  BY DEF KeepInv, MirrorInv, TrunkOk
<1>3. CASE ok
  <2>1. /\ DOMAIN local' = DOMAIN local /\ local'[head] = fetched
        /\ \A b \in DOMAIN local \ {head} : local'[b] = local[b]
    BY <1>1, <1>2, <1>3
  <2>2. Lost' = Lost \cup Overwritten
    BY <1>1, <1>3 DEF Lost
  <2>3. ASSUME NEW c \in local[head]
        PROVE  c \in upstream' \cup Lost' \/ (head = Main /\ OnItsBranch(c))
    BY <1>1, <1>2, <2>2 DEF Overwritten
  <2>4. ASSUME NEW c, OnItsBranch(c), head = Main PROVE c \in InTheClone'
    <3>1. Branch(c) # Main /\ Branch(c) \in DOMAIN local /\ c \in local[Branch(c)]
      BY <2>4, Cast DEF OnItsBranch, MirrorInv
    <3> QED
      BY <2>1, <2>4, <3>1 DEF InTheClone
  <2>5. Everything \subseteq Everything'
    <3>1. ASSUME NEW b \in DOMAIN local, NEW c \in local[b] PROVE c \in Everything'
      <4>1. CASE b = head
        BY <2>3, <2>4, <3>1, <4>1 DEF Everything
      <4>2. CASE b # head
        BY <2>1, <3>1, <4>2 DEF Everything, InTheClone
      <4> QED
        BY <4>1, <4>2
    <3>2. \A c \in InTheClone : c \in Everything'
      BY <3>1 DEF InTheClone
    <3> QED
      BY <1>1, <2>2, <3>2 DEF Everything
  <2>6. ASSUME NEW q \in Requests
        PROVE  /\ Safe(q) => Safe(q)' \/ q \in upstream' \cup Lost'
               /\ OnOwnBranch(q) => OnOwnBranch(q)' \/ q \in Lost'
               /\ jobs[q].mode = "wild-west" /\ q \in local[Main] => q \in local'[Main] \cup Lost'
    <3>1. Branch(q)' = Branch(q) /\ Branch(q) # Main
      BY <1>1, Cast DEF MirrorInv, Branch
    <3>2. OnOwnBranch(q) => OnOwnBranch(q)' \/ q \in Lost'
      <4>1. CASE head = Branch(q)
        BY <2>1, <2>2, <3>1, <4>1 DEF OnOwnBranch, Overwritten
      <4>2. CASE head # Branch(q)
        BY <2>1, <3>1, <4>2 DEF OnOwnBranch
      <4> QED
        BY <4>1, <4>2
    <3>3. jobs[q].mode = "wild-west" /\ q \in local[Main] => q \in local'[Main] \cup Lost'
      BY <1>2, <2>1, <2>2 DEF Overwritten, OnItsBranch
    <3>4. ASSUME Safe(q), q \notin upstream' \cup Lost' PROVE Safe(q)'
      <4>1. PICK b : b = IF Branch(q) \in DOMAIN local THEN Branch(q) ELSE Main
        OBVIOUS
      <4>2. q \in local[b] /\ b \in DOMAIN local
        BY <1>2, <3>4, <4>1 DEF Safe
      <4>3. b # head
        BY <2>3, <3>1, <3>4, <4>1, <4>2 DEF OnItsBranch
      <4>4. q \in local'[b]
        BY <2>1, <4>2, <4>3
      <4> QED
        BY <1>1, <2>1, <3>1, <3>4, <4>1, <4>4 DEF Safe
    <3> QED
      BY <3>2, <3>3, <3>4
  <2> QED
    BY <1>1, <1>2, <2>1, <2>2, <2>5, <2>6 DEF Grows
<1>4. CASE ~ok
  BY <1>1, <1>2, <1>4, SameBranches DEF Lost
<1> QED
  BY <1>3, <1>4

(* What it prunes is counted, and what the fork has comes back with its       *)
(* branch.                                                                    *)
LEMMA TrackGrows ==
    ASSUME CloneAssumption, MirrorInv, KeepInv, TrackOriginBranches PROVE Grows
<1> DEFINE new == (listed \ DOMAIN local) \cap DOMAIN tracked
           pruned == DOMAIN local \ (listed \cup {Main, head})
           raced == {b \in pruned : b \in DOMAIN origin \/ \E r \in ChangesOf(b) : UnderWay(r)}
<1>1. /\ local' = [b \in (DOMAIN local \cup new) \ pruned |->
                     IF b \in new THEN tracked[b] ELSE local[b]]
      /\ astray' = astray \cup UNION {local[b] : b \in raced}
      /\ abandoned' = abandoned \cup UNION {local[b] : b \in pruned \ raced}
      /\ UNCHANGED <<cast, head, origin, tracked, upstream, dropped>>
  BY DEF TrackOriginBranches, SyncUnchanged
<1>2. \A b \in DOMAIN local \ pruned : b \in DOMAIN local' /\ local'[b] = local[b]
  BY <1>1
<1>3. \A b \in new : b \in DOMAIN local' /\ local'[b] = tracked[b]
  BY <1>1
<1>4. \A b \in DOMAIN local' : b \in DOMAIN local \ pruned \/ b \in new
  BY <1>1
<1>5. Main \in DOMAIN local \ pruned /\ head \in DOMAIN local \ pruned
  BY DEF MirrorInv, TrunkOk, KeepInv
<1>6. Lost \subseteq Lost' /\ \A b \in raced : local[b] \subseteq Lost'
  BY <1>1 DEF Lost
<1>7. \A b \in pruned : local[b] \subseteq Lost' \cup abandoned'
  BY <1>1 DEF Lost
<1> HIDE DEF new, pruned, raced
<1>8. Everything \subseteq Everything'
  <2>1. ASSUME NEW b \in DOMAIN local, NEW c \in local[b] PROVE c \in Everything'
    BY <1>2, <1>7, <2>1 DEF Everything, InTheClone
  <2>2. \A c \in InTheClone : c \in Everything'
    BY <2>1 DEF InTheClone
  <2> QED
    BY <1>1, <1>6, <2>2 DEF Everything
<1>9. ASSUME NEW q \in Requests
      PROVE  /\ Safe(q) => Safe(q)' \/ q \in Lost'
             /\ UnderWay(q) /\ OnOwnBranch(q) => OnOwnBranch(q)' \/ q \in Lost'
  <2>1. Branch(q)' = Branch(q) /\ q \in ChangesOf(Branch(q))
    BY <1>1 DEF Branch, ChangesOf
  <2>2. CASE Branch(q) \in pruned
    <3>1. Safe(q) \/ UnderWay(q) => Branch(q) \in raced
      BY <2>1, <2>2 DEF raced, Safe
    <3>2. Branch(q) \in DOMAIN local
      BY <2>2 DEF pruned
    <3> QED
      BY <1>6, <3>1, <3>2 DEF Safe, OnOwnBranch
  <2>3. CASE Branch(q) \in DOMAIN local \ pruned
    BY <1>1, <1>2, <2>1, <2>3 DEF Safe, OnOwnBranch
  <2>4. CASE Branch(q) \notin DOMAIN local /\ Branch(q) \in new
    <3>1. Branch(q) \in DOMAIN tracked
      BY <2>4 DEF new
    <3> QED
      BY <1>1, <1>3, <2>1, <2>4, <3>1 DEF Safe, OnOwnBranch
  <2>5. CASE Branch(q) \notin DOMAIN local /\ Branch(q) \notin new
    <3>1. Branch(q) \notin DOMAIN local'
      BY <1>4, <2>5
    <3>2. local'[Main] = local[Main]
      BY <1>2, <1>5
    <3> QED
      BY <1>1, <2>1, <2>5, <3>1, <3>2 DEF Safe, OnOwnBranch
  <2> QED
    BY <2>2, <2>3, <2>4, <2>5
<1> QED
  BY <1>1, <1>2, <1>5, <1>6, <1>8, <1>9 DEF Grows

LEMMA SyncKeeps ==
    ASSUME CloneAssumption, MirrorInv, KeepInv, NEW ok \in BOOLEAN,
           SyncStep(ok) \/ TrackOriginBranches
    PROVE  KeepInv'
<1>1. UNCHANGED <<jobs, acked, assured>>
  BY DEF SyncStep, SyncPull, SyncFetch, SyncReset, SyncFetchOrigin, SyncList,
         TrackOriginBranches, SyncUnchanged
<1>2. Grows
  <2>1. CASE SyncPull(ok)
    BY <2>1, PulledGrows DEF SyncPull, SyncUnchanged
  <2>2. CASE SyncFetch(ok) \/ SyncList(ok)
    <3>1. UNCHANGED <<local, head, cast, tracked, origin, upstream, dropped, astray, abandoned>>
      BY <2>2 DEF SyncFetch, SyncList, SyncUnchanged
    <3> QED
      BY <3>1, SameBranches DEF KeepInv, Lost
  <2>3. CASE SyncFetchOrigin(ok)
    <3>1. /\ UNCHANGED <<local, head, cast, origin, upstream, dropped, astray, abandoned>>
          /\ tracked' = IF ok THEN origin ELSE tracked
      BY <2>3 DEF SyncFetchOrigin, SyncUnchanged
    <3>2. \A q \in Requests : Safe(q) => Safe(q)'
      BY <3>1 DEF Safe, Branch
    <3> QED
      BY <3>1, <3>2 DEF Grows, KeepInv, Lost, Everything, InTheClone, OnOwnBranch, Branch
  <2>4. CASE SyncReset(ok)
    BY <2>4, ResetGrows
  <2>5. CASE TrackOriginBranches
    BY <2>5, TrackGrows
  <2> QED
    BY <2>1, <2>2, <2>3, <2>4, <2>5 DEF SyncStep
<1> QED
  BY <1>1, <1>2, QuietKeeps

LEMMA WorldKeeps ==
    ASSUME CloneAssumption, MirrorInv, KeepInv,
           \/ \E b \in Branches : PullRequestMerged(b)
           \/ \E o \in Others : OtherRig(o)
           \/ \E b \in Branches, o \in Others : HostedCommit(b, o)
           \/ UNCHANGED localVars
    PROVE  KeepInv'
<1>1. /\ UNCHANGED <<cast, local, head, tracked, dropped, astray, abandoned, jobs, acked, assured>>
      /\ upstream \subseteq upstream'
  BY DEF PullRequestMerged, OtherRig, HostedCommit, CloneUnchanged, aside, localVars, gitVars,
         losses
<1>2. \A b \in DOMAIN origin \ {Main} : b \in DOMAIN origin' /\ origin[b] \subseteq origin'[b]
  BY DEF PullRequestMerged, OtherRig, HostedCommit, With, localVars, gitVars
<1>3. Grows
  BY <1>1, <1>2, SameBranches DEF KeepInv, Lost
<1> QED
  BY <1>1, <1>3, QuietKeeps

LEMMA KeepInitially ==
    ASSUME CloneAssumption, CloneInit PROVE KeepInv
<1>1. head \in DOMAIN local
  BY DEF CloneInit, Bare
<1>2. ASSUME NEW r \in Requests PROVE Route(r, jobs[r]) /\ Held(r, jobs[r])
  BY DEF CloneInit, Route, Held, Pushing
<1> QED
  BY <1>1, <1>2 DEF CloneInit, KeepInv

LEMMA KeepStep ==
    ASSUME CloneAssumption, MirrorInv, KeepInv, [CloneNext]_localVars PROVE KeepInv'
<1>1. ASSUME NEW r \in Requests, Begin(r) \/ AnswerFromBranch(r) PROVE KeepInv'
  BY <1>1, BeginKeeps, AnswerKeeps
<1>2. ASSUME NEW r \in Requests, NEW m \in Modes, NEW ok \in BOOLEAN, SaveSettings(r, m, ok)
      PROVE  KeepInv'
  BY <1>2, SettingsKeep
<1>3. ASSUME NEW r \in Requests, NEW ok \in BOOLEAN, CommandStep(r, ok) PROVE KeepInv'
  <2>1. CASE CreateBranch(r, ok)
    BY <2>1, CreateKeeps
  <2>2. CASE Checkout(r, ok)
    BY <2>2, CheckoutKeeps
  <2>3. CASE \E effect \in {"none", "half", "all"} : Script(r, effect, ok)
    BY <2>3, ScriptKeeps
  <2>4. CASE ReturnToMain(r, ok)
    BY <2>4, ReturnKeeps
  <2>5. CASE PushBranch(r, ok)
    BY <2>5, PushBranchKeeps
  <2>6. CASE DeleteBranch(r, ok)
    BY <2>6, DeleteKeeps
  <2>7. CASE DeleteRemoteBranch(r, ok)
    BY <2>7, DeleteRemoteKeeps
  <2>8. CASE ApplyMerge(r, ok) \/ ApplyDelete(r, ok) \/ PushOriginMain(r, ok)
    BY <2>8, ApplyKeeps
  <2>9. CASE PushRemote(r, ok)
    BY <2>9, PushRemoteKeeps
  <2>10. CASE PullRemote(r, ok)
    BY <2>10, PullRemoteKeeps
  <2>11. CASE MergeCommand(r, ok) \/ MergeBranch(r, ok)
              \/ \E drop \in BOOLEAN : MergeDelete(r, drop, ok)
    BY <2>11, MergeKeeps
  <2>12. CASE PullUpstream(r, ok)
    BY <2>12, PullUpstreamKeeps
  <2> QED
    BY <1>3, <2>1, <2>2, <2>3, <2>4, <2>5, <2>6, <2>7, <2>8, <2>9, <2>10, <2>11, <2>12
       DEF CommandStep
<1>4. ASSUME NEW ok \in BOOLEAN, SyncStep(ok) PROVE KeepInv'
  BY <1>4, SyncKeeps
<1>5. CASE TrackOriginBranches
  BY <1>5, SyncKeeps
<1>6. CASE \/ \E b \in Branches : PullRequestMerged(b)
           \/ \E o \in Others : OtherRig(o)
           \/ \E b \in Branches, o \in Others : HostedCommit(b, o)
           \/ UNCHANGED localVars
  BY <1>6, WorldKeeps
<1> QED
  BY <1>1, <1>2, <1>3, <1>4, <1>5, <1>6 DEF CloneNext

(* A mutation that was answered as pushed is on the fork or upstream - in     *)
(* wild-west mode upstream - unless it was discarded, or another actor's      *)
(* command moved it, which the model counts; and what a mutation answered     *)
(* from its branch relies on leaves the clone only upstream, by a discard, by *)
(* another actor, or pruned with a branch the fork has not got                *)
(* (sdk/mutate.go:34-109, 116-138; commons/dolt.go:330-397).                  *)
THEOREM AcknowledgedWorkIsKept == CloneSpec => []AcknowledgedIsKept
<1> USE CloneAssumption
<1>1. CloneInit => KeepInv
  BY KeepInitially
<1>2. MirrorInv /\ KeepInv /\ [CloneNext]_localVars => KeepInv'
  BY KeepStep
<1>3. KeepInv => AcknowledgedIsKept
  BY DEF KeepInv, AcknowledgedIsKept, Kept, Safe, Everything, Lost, OnTheFork
<1> QED
  BY <1>1, <1>2, <1>3, MirrorInvariant, PTL DEF CloneSpec
=============================================================================
