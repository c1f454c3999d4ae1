-------------------------- MODULE ConfigPageProofs --------------------------
(***************************************************************************)
(* Proofs about ConfigPage, for any number of browsers, networks,          *)
(* passwords, clicks and any size of the list.                             *)
(***************************************************************************)
EXTENDS ConfigPage, SequenceTheorems, TLAPS

\* An answer is there only while no command is.
RepOK ==
    /\ rep = [p \in Page |-> rep[p]]
    /\ \A p \in Page : req[p] # None => rep[p] = None

TypeInv == TypeOK /\ RepOK

-----------------------------------------------------------------------------

\* The fields of a message.
LEMMA MessageFields ==
    ASSUME NEW m \in Message
    PROVE  /\ m.op \in {"read", "save", "reinit", "scan", "test", "close"}
           /\ m.op = "save" => m.config \in Form
BY DEF Message, Plain, SaveOf

\* What users and script send are messages.
LEMMA Messages ==
    /\ \A op \in {"read", "reinit", "scan", "test", "close"} :
          Plain(op) \in Message
    /\ \A f \in Form : SaveOf(f) \in Message
BY DEF Message

\* What a save sends of a form in order.
LEMMA FormFacts ==
    ASSUME NEW t \in TabType, Selected(t)
    PROVE  [ssid     |-> IF t.opts = <<>> THEN "" ELSE t.opts[t.sel],
            password |-> t.pw] \in Form
<1>1. t \in TabType /\ Selected(t)
  OBVIOUS
<1>2. /\ t.opts \in Seq(Name)
      /\ t.sel \in Nat \ {0}
      /\ t.pw \in Secret
  BY <1>1 DEF TabType
<1>3. t.opts # <<>> => t.sel \in 1 .. Len(t.opts)
  <2>1. t.opts # <<>> => Len(t.opts) \in Nat \ {0}
    BY <1>2, EmptySeq
  <2> QED
    BY <1>1, <1>2, <2>1 DEF Selected
<1>4. t.opts # <<>> => t.opts[t.sel] \in Name
  BY <1>2, <1>3, ElementOfSeq
<1>5. "" \in Name
  BY DEF Name
<1> QED
  BY <1>2, <1>4, <1>5 DEF Form

\* The form of a page is a form, also after a step.
LEMMA FormIsForm ==
    ASSUME TypeOK, NEW p \in Page
    PROVE  FormOf(p) \in Form
BY FormFacts DEF TypeOK, FormOf

LEMMA FormAfter ==
    ASSUME tab' \in [Page -> TabType], \A q \in Page : Selected(tab'[q]),
           NEW p \in Page
    PROVE  FormOf(p)' \in Form
BY FormFacts DEF FormOf

\* What sending does to the messages on their way.
LEMMA SendFacts ==
    ASSUME TypeOK, NEW p \in Page, NEW m \in Message, WsSend(p, m)
    PROVE  /\ up' \in [Page -> Seq(Message)]
           /\ \A q \in Page : q # p => up'[q] = up[q]
           /\ \/ up'[p] = up[p]
              \/ /\ tab[p].socket = "open" /\ link[p]
                 /\ up'[p] = Append(up[p], m)
<1>1. up \in [Page -> Seq(Message)] /\ up[p] \in Seq(Message)
  BY DEF TypeOK
<1>2. Append(up[p], m) \in Seq(Message)
  BY <1>1, AppendProperties
<1> QED
  BY <1>1, <1>2 DEF WsSend

\* The first message, or answer, and those after it.
LEMMA HeadFacts ==
    ASSUME TypeOK, NEW p \in Page
    PROVE  /\ up[p] # <<>> => /\ Head(up[p]) \in Message
                              /\ Tail(up[p]) \in Seq(Message)
           /\ down[p] # <<>> => /\ Head(down[p]) \in Answers
                                /\ Tail(down[p]) \in Seq(Answers)
<1>1. up[p] \in Seq(Message) /\ down[p] \in Seq(Answers)
  BY DEF TypeOK
<1> QED
  BY <1>1, HeadTailProperties

\* What showing a configuration does to the form.
LEMMA ShowFacts ==
    ASSUME TypeOK, NEW p \in Page, NEW ssid \in Name,
           NEW w \in Secret, ShowConfig(p, ssid, w)
    PROVE  /\ tab' \in [Page -> TabType]
           /\ \A q \in Page : Selected(tab'[q])
           /\ \A q \in Page : q # p => tab'[q] = tab[q]
           /\ tab'[p].pw = w
           /\ tab'[p].opts[1] = ssid
           /\ Len(tab'[p].opts) = IF tab[p].opts = <<>>
                                  THEN 1 ELSE Len(tab[p].opts)
           /\ tab[p].sel = 1 /\ Len(tab'[p].opts) = 1 => tab'[p].sel = 1
           /\ tab'[p].lists = tab[p].lists
           /\ tab'[p].socket = tab[p].socket
           /\ tab'[p].due = tab[p].due
<1> DEFINE old == tab[p].opts
           opts == IF old = <<>> THEN <<ssid>> ELSE [old EXCEPT ![1] = ssid]
<1>1. /\ tab \in [Page -> TabType] /\ tab[p] \in TabType
      /\ old \in Seq(Name)
      /\ tab[p].sel \in Nat \ {0}
      /\ \A q \in Page : Selected(tab[q])
  BY DEF TypeOK, TabType
<1>2. /\ opts \in Seq(Name)
      /\ Len(opts) = IF old = <<>> THEN 1 ELSE Len(old)
      /\ Len(opts) \in Nat \ {0}
      /\ opts[1] = ssid
  <2>1. CASE old = <<>>
    <3>1. /\ <<ssid>> \in Seq(Name)
          /\ Len(<<ssid>>) = 1
          /\ <<ssid>>[1] = ssid
      OBVIOUS
    <3> QED
      BY <2>1, <3>1
  <2>2. CASE old # <<>>
    <3>1. 1 \in 1 .. Len(old) /\ Len(old) \in Nat \ {0}
      BY <1>1, <2>2, EmptySeq
    <3> QED
      BY <1>1, <2>2, <3>1, ExceptSeq
  <2> QED
    BY <2>1, <2>2
<1>3. PICK s \in Reselect(p, opts, 1) :
          tab' = [tab EXCEPT ![p].opts = opts, ![p].sel = s, ![p].pw = w]
  BY DEF ShowConfig
<1>4. /\ s \in Nat \ {0} /\ s <= Len(opts)
      /\ tab[p].sel = 1 /\ Len(opts) = 1 => s = 1
  <2> HIDE DEF opts
  <2>1. Len(old) \in Nat /\ (old # <<>> => Len(old) \in Nat \ {0})
    BY <1>1, EmptySeq, LenProperties
  <2>2. s \in IF tab[p].sel > 1 THEN {tab[p].sel}
                                ELSE {1, 2} \cap (1 .. Len(opts))
    BY <1>3 DEF Reselect
  <2>3. tab[p].sel = 1 \/ tab[p].sel <= Len(old)
    BY <1>1 DEF Selected
  <2>4. /\ Len(opts) \in Nat \ {0}
        /\ Len(opts) = IF Len(old) = 0 THEN 1 ELSE Len(old)
    BY <1>2, <2>1
  <2>5. tab[p].sel \in Nat \ {0}
    BY <1>1
  <2>6. CASE tab[p].sel > 1
    <3>1. s = tab[p].sel
      BY <2>2, <2>6
    <3> QED
      BY <2>1, <2>3, <2>4, <2>5, <2>6, <3>1
  <2>7. CASE ~(tab[p].sel > 1)
    <3>1. s \in {1, 2} /\ s \in 1 .. Len(opts)
      BY <2>2, <2>7
    <3>2. s \in Nat \ {0}
      BY <3>1
    <3>3. s <= Len(opts)
      BY <2>4, <3>1
    <3>4. Len(opts) = 1 => s = 1
      BY <3>2, <3>3
    <3> QED
      BY <3>2, <3>3, <3>4
  <2> QED
    BY <2>6, <2>7
<1> HIDE DEF opts
<1>5. tab'[p] = [tab[p] EXCEPT !.opts = opts, !.sel = s, !.pw = w]
  BY <1>1, <1>3
<1>6. tab'[p] \in TabType
  <2>1. tab[p] \in TabType /\ opts \in Seq(Name) /\ s \in Nat \ {0}
    BY <1>1, <1>2, <1>4
  <2>2. [tab[p] EXCEPT !.opts = opts, !.sel = s, !.pw = w] \in TabType
    BY <2>1 DEF TabType
  <2> QED
    BY <1>5, <2>2
<1>7. Selected(tab'[p])
  BY <1>1, <1>2, <1>4, <1>5 DEF Selected, TabType
<1>8. tab' \in [Page -> TabType] /\ \A q \in Page : q # p => tab'[q] = tab[q]
  BY <1>1, <1>3, <1>5, <1>6
<1> QED
  BY <1>1, <1>2, <1>4, <1>5, <1>7, <1>8 DEF TabType

\* One page changes, its form in order: every page's form is.
LEMMA TabStep ==
    ASSUME TypeOK, NEW p \in Page, NEW t \in TabType, Selected(t),
           tab' = [tab EXCEPT ![p] = t]
    PROVE  /\ tab' \in [Page -> TabType]
           /\ \A q \in Page : Selected(tab'[q])
BY DEF TypeOK

\* The options after a list was put in.
LEMMA OfferFacts ==
    ASSUME NEW old \in Seq(Name), NEW list \in Seq(Ssid), NEW last \in Nat,
           last <= Len(list)
    PROVE  /\ Offer(old, list, last) \in Seq(Name)
           /\ Len(Offer(old, list, last)) =
                  IF Len(old) > last + 1 THEN Len(old) ELSE last + 1
<1> DEFINE size == IF Len(old) > last + 1 THEN Len(old) ELSE last + 1
           opts == Offer(old, list, last)
<1>1. Len(old) \in Nat /\ Len(list) \in Nat
  BY LenProperties
<1>2. size \in Nat /\ size >= last + 1 /\ (size = Len(old) \/ size = last + 1)
  BY <1>1
<1>3. opts = [j \in 1 .. size |->
                 IF j = 1 THEN "" ELSE IF j <= last + 1 THEN list[j - 1]
                                                        ELSE old[j]]
  BY DEF Offer
<1> HIDE DEF size, opts
<1>4. ASSUME NEW j \in 1 .. size
      PROVE  opts[j] \in Name
  <2>1. CASE j = 1
    BY <1>3, <2>1 DEF Name
  <2>2. CASE j # 1 /\ j <= last + 1
    <3>1. j - 1 \in 1 .. Len(list)
      BY <1>1, <1>2, <1>4, <2>2
    <3>2. list[j - 1] \in Ssid
      BY <3>1, ElementOfSeq
    <3>3. opts[j] = list[j - 1]
      BY <1>3, <2>2
    <3> QED
      BY <3>2, <3>3 DEF Name
  <2>3. CASE j # 1 /\ ~(j <= last + 1)
    <3>1. j \in 1 .. Len(old)
      BY <1>1, <1>2, <1>4, <2>3
    <3>2. opts[j] = old[j]
      BY <1>3, <2>3
    <3> QED
      BY <3>1, <3>2, ElementOfSeq
  <2> QED
    BY <2>1, <2>2, <2>3
<1>5. opts \in [1 .. size -> Name]
  BY <1>3, <1>4
<1> QED
  BY <1>2, <1>5 DEF size, opts

\* The loop comes no further than the list.
LEMMA LastSetFacts ==
    ASSUME NEW n \in Nat, NEW list \in Seq(Ssid)
    PROVE  LastSet(n, list) \in Nat /\ LastSet(n, list) <= Len(list)
<1>1. Len(list) \in Nat
  BY LenProperties
<1>2. LastWanted(n) \in Nat
  BY DEF LastWanted
<1> QED
  BY <1>1, <1>2 DEF LastSet

\* What putting in a list of networks does.
LEMMA AddFacts ==
    ASSUME TypeOK, NEW p \in Page, AddWifiToList(p)
    PROVE  /\ tab' \in [Page -> TabType]
           /\ \A q \in Page : Selected(tab'[q])
           /\ \A q \in Page : q # p => tab'[q] = tab[q]
           /\ tab'[p].pw = tab[p].pw
           /\ tab'[p].lists = Tail(tab[p].lists)
           /\ tab'[p].socket = tab[p].socket
           /\ tab'[p].due = tab[p].due
           /\ past' \in [Page -> PastType]
<1> DEFINE n    == Head(tab[p].lists).n
           list == Head(tab[p].lists).list
           old  == tab[p].opts
           last == LastSet(n, list)
           opts == Offer(old, list, last)
<1>1. /\ tab[p] \in TabType
      /\ old \in Seq(Name) /\ Len(old) \in Nat
      /\ tab[p].sel \in Nat \ {0}
      /\ tab[p].lists \in Seq(Lists) /\ tab[p].lists # <<>>
      /\ Selected(tab[p])
  <2>1. tab[p] \in TabType /\ Selected(tab[p]) /\ tab[p].lists # <<>>
    BY DEF TypeOK, AddWifiToList
  <2>2. /\ old \in Seq(Name) /\ tab[p].sel \in Nat \ {0}
        /\ tab[p].lists \in Seq(Lists)
    BY <2>1 DEF TabType
  <2> QED
    BY <2>1, <2>2, LenProperties
<1>2. /\ Head(tab[p].lists) \in Lists
      /\ Tail(tab[p].lists) \in Seq(Lists)
  BY <1>1, HeadTailProperties
<1>3. n \in Nat /\ list \in Seq(Ssid)
  BY <1>2 DEF Lists
<1>4. PICK s \in Reselect(p, opts, last + 1) :
          tab' = [tab EXCEPT ![p].lists = Tail(@), ![p].opts = opts,
                             ![p].sel = s]
  BY DEF AddWifiToList
<1>5. last \in Nat /\ last <= Len(list)
  BY <1>3, LastSetFacts
<1>6. /\ opts \in Seq(Name)
      /\ Len(opts) = IF Len(old) > last + 1 THEN Len(old) ELSE last + 1
  <2> HIDE DEF n, list, old, last
  <2> QED
    BY <1>1, <1>3, <1>5, OfferFacts
<1>7. s \in Nat \ {0} /\ (s = 1 \/ s <= Len(opts))
  <2>1. tab[p].sel = 1 \/ tab[p].sel <= Len(old)
    BY <1>1 DEF Selected
  <2> HIDE DEF last, old, list, opts
  <2>2. s \in IF tab[p].sel > last + 1 THEN {tab[p].sel}
                  ELSE {1, last + 1 + 1} \cap (1 .. Len(opts))
    BY <1>4 DEF Reselect
  <2>3. Len(opts) \in Nat /\ Len(opts) >= Len(old)
    BY <1>1, <1>5, <1>6
  <2>4. CASE tab[p].sel > last + 1
    <3>1. s = tab[p].sel
      BY <2>2, <2>4
    <3>2. s = 1 \/ s <= Len(old)
      BY <2>1, <3>1
    <3> QED
      BY <1>1, <2>3, <3>1, <3>2
  <2>5. CASE ~(tab[p].sel > last + 1)
    <3>1. s \in 1 .. Len(opts)
      BY <2>2, <2>5
    <3> QED
      BY <2>3, <3>1
  <2> QED
    BY <2>4, <2>5
<1> DEFINE t == [tab[p] EXCEPT !.lists = Tail(tab[p].lists), !.opts = opts,
                               !.sel = s]
<1> HIDE DEF opts
<1>8. t \in TabType
  BY <1>1, <1>2, <1>6, <1>7 DEF TabType
<1>9. tab' = [tab EXCEPT ![p] = t]
  BY <1>4 DEF TypeOK
<1>10. Selected(t)
  BY <1>1, <1>7 DEF Selected, TabType
<1>11. past' \in [Page -> PastType]
  <2>1. past \in [Page -> PastType] /\ past[p] \in PastType
    BY DEF TypeOK
  <2> DEFINE most  == IF n > past[p].most THEN n ELSE past[p].most
             threw == past[p].threw \/ LastWanted(n) > Len(list)
             q == [past[p] EXCEPT !.apart = TRUE, !.most = most,
                                  !.threw = threw]
  <2>2. past' = [past EXCEPT ![p] = q]
    BY <2>1 DEF AddWifiToList
  <2>3. most \in Nat
    BY <1>3, <2>1 DEF PastType
  <2>4. threw \in BOOLEAN
    BY <2>1, Zenon DEF PastType
  <2> HIDE DEF most, threw
  <2>5. q \in PastType
    BY <2>1, <2>3, <2>4 DEF PastType
  <2> QED
    BY <2>1, <2>2, <2>5
<1>12. \A q \in Page : q # p => tab'[q] = tab[q]
  BY <1>9 DEF TypeOK
<1>13. tab'[p] = t
  BY <1>9 DEF TypeOK
<1>14. /\ t.pw = tab[p].pw /\ t.lists = Tail(tab[p].lists)
       /\ t.socket = tab[p].socket /\ t.due = tab[p].due
  BY <1>1 DEF TabType
<1> QED
  BY <1>8, <1>9, <1>10, <1>11, <1>12, <1>13, <1>14, TabStep

-----------------------------------------------------------------------------

LEMMA InitTypeInv == Init => TypeInv
<1> SUFFICES ASSUME Init
             PROVE  TypeInv
  OBVIOUS
<1>1. NewTab \in TabType /\ Selected(NewTab)
  BY DEF NewTab, TabType, Socket, Secret, Selected
<1>2. NewPast \in PastType
  BY DEF NewPast, PastType
<1>3. value \in Form
  BY DEF Init, Form, Name, Secret
<1>4. /\ <<>> \in Seq(Message) /\ <<>> \in Seq(Answers)
      /\ 0 \in 0 .. MaxClicks
  BY ConfigPageConstants
<1>5. link \in [Page -> BOOLEAN] /\ twice \in BOOLEAN
  BY Zenon DEF Init
<1>6. EmptyForm \in Form /\ SavedForm \in Form
  BY DEF EmptyForm, SavedForm, Form, Name, Secret
<1>7. TypeOK
  BY <1>1, <1>2, <1>3, <1>4, <1>5, <1>6 DEF Init, TypeOK
<1>8. RepOK
  BY DEF Init, RepOK
<1> QED
  BY <1>7, <1>8 DEF TypeInv

\* The register keeps its types, and an answer its place.
LEMMA RegisterTypes ==
    ASSUME TypeInv, NEW p \in Page,
           \/ Register!Read(p) \/ Register!Save(p) \/ Register!Reinit(p)
           \/ Register!Drop(p) \/ TakeCommand(p) \/ Register!Reset
           \/ Register!Format
    PROVE  /\ value' \in Form \cup {Erased, Damaged, Missing}
           /\ req' \in [Page -> Message \cup {None}]
           /\ RepOK'
<1>1. /\ value \in Form \cup {Erased, Damaged, Missing}
      /\ req \in [Page -> Message \cup {None}]
      /\ rep = [q \in Page |-> rep[q]]
      /\ \A q \in Page : req[q] # None => rep[q] = None
  BY DEF TypeInv, TypeOK, RepOK
<1>2. ASSUME NEW a, Register!Answer(p, a)
      PROVE  req' \in [Page -> Message \cup {None}] /\ RepOK'
  BY <1>1, <1>2 DEF Register!Answer, RepOK
<1>3. \A q \in Page : Register!Waits(q, "save") => req[q].config \in Form
  BY <1>1, MessageFields DEF Register!Waits
<1>4. CASE Register!Read(p)
  BY <1>1, <1>2, <1>4 DEF Register!Read
<1>5. CASE Register!Save(p)
  BY <1>1, <1>2, <1>3, <1>5 DEF Register!Save
<1>6. CASE Register!Reinit(p)
  BY <1>1, <1>2, <1>6 DEF Register!Reinit
<1>7. CASE Register!Drop(p)
  BY <1>1, <1>2, <1>7 DEF Register!Drop
<1>8. CASE TakeCommand(p)
  BY <1>1, <1>8 DEF TakeCommand, Register!Ask, RepOK
<1>9. CASE Register!Reset
  <2>1. value' \in Form \cup {Erased, Damaged, Missing}
    BY <1>1, <1>3, <1>9 DEF Register!Reset
  <2> QED
    BY <1>9, <2>1 DEF Register!Reset, RepOK
<1>10. CASE Register!Format
  BY <1>1, <1>10 DEF Register!Format, RepOK
<1> QED
  BY <1>4, <1>5, <1>6, <1>7, <1>8, <1>9, <1>10

\* What an answer of the device does.
LEMMA RespondFacts ==
    ASSUME TypeOK, NEW p \in Page, NEW op, NEW body,
           [op |-> op, body |-> body] \in Answers, Respond(p, op, body)
    PROVE  /\ down' \in [Page -> Seq(Answers)]
           /\ \A q \in Page : q # p => down'[q] = down[q]
           /\ \/ down'[p] = down[p]
              \/ /\ link[p]
                 /\ down'[p] = Append(down[p], [op |-> op, body |-> body])
<1>1. down \in [Page -> Seq(Answers)] /\ down[p] \in Seq(Answers)
  BY DEF TypeOK
<1>2. Append(down[p], [op |-> op, body |-> body]) \in Seq(Answers)
  BY <1>1, AppendProperties
<1> QED
  BY <1>1, <1>2 DEF Respond

\* A beginning of a queue.
LEMMA PrefixFacts ==
    ASSUME NEW S, NEW s \in Seq(S), NEW k \in 0 .. Len(s)
    PROVE  /\ SubSeq(s, 1, k) \in Seq(S)
           /\ Len(SubSeq(s, 1, k)) = k
           /\ \A i \in 1 .. k : SubSeq(s, 1, k)[i] = s[i]
<1>1. Len(s) \in Nat /\ k \in Nat
  BY LenProperties
<1>2. \A i \in 1 .. k : s[i] \in S
  BY <1>1, ElementOfSeq
<1>3. /\ SubSeq(s, 1, k) \in Seq(S)
      /\ Len(SubSeq(s, 1, k)) = IF 1 <= k THEN k - 1 + 1 ELSE 0
      /\ \A i \in 1 .. k - 1 + 1 : SubSeq(s, 1, k)[i] = s[1 + i - 1]
  BY <1>1, <1>2, SubSeqProperties
<1> QED
  BY <1>1, <1>3

\* The list of a scan holds what fits.
LEMMA ScanFacts ==
    ASSUME NEW found \in Found
    PROVE  /\ WifiScanAp(found) \in Lists
           /\ Len(WifiScanAp(found).list) =
                  IF WifiScanAp(found).n < ListSize THEN WifiScanAp(found).n
                                                    ELSE ListSize
<1>1. PICK n \in 0 .. MaxFound : found \in [1 .. n -> Ssid]
  BY DEF Found
<1>2. found \in Seq(Ssid) /\ Len(found) \in Nat
  BY <1>1
<1> DEFINE k == IF Len(found) < ListSize THEN Len(found) ELSE ListSize
<1>3. k \in 0 .. Len(found)
  BY <1>2, ConfigPageConstants
<1>4. SubSeq(found, 1, k) \in Seq(Ssid) /\ Len(SubSeq(found, 1, k)) = k
  BY <1>2, <1>3, PrefixFacts
<1> QED
  BY <1>2, <1>4 DEF WifiScanAp, Lists

\* What answering a command does: only a read's answer carries something, the
\* stored configuration.
LEMMA ServeFacts ==
    ASSUME TypeInv, NEW p \in Page, Serve(p)
    PROVE  /\ req' = [req EXCEPT ![p] = None]
           /\ down' \in [Page -> Seq(Answers)]
           /\ \A q \in Page : q # p => down'[q] = down[q]
           /\ \/ down'[p] = down[p]
              \/ /\ link[p]
                 /\ req[p] # None /\ req[p].op \in {"read", "save", "reinit"}
                 /\ req[p].op = "read" => value \in Body
                 /\ down'[p] = Append(down[p],
                                      [op   |-> req[p].op,
                                       body |-> IF req[p].op = "read"
                                                THEN value ELSE None])
<1>1. /\ TypeOK /\ rep = [q \in Page |-> rep[q]]
      /\ req[p] # None => rep[p] = None
      /\ value \in Form \cup {Erased, Damaged, Missing}
  BY DEF TypeInv, TypeOK, RepOK
<1>2. /\ req[p] # None /\ req' = [req EXCEPT ![p] = None]
      /\ \/ rep'[p] = None
         \/ /\ req[p].op \in {"read", "save", "reinit"}
            /\ req[p].op = "read" => value # Missing /\ rep'[p] = value
  <2>1. CASE Register!Read(p)
    BY <1>1, <2>1 DEF Register!Read, Register!Waits, Register!Answer
  <2>2. CASE Register!Save(p)
    BY <1>1, <2>2 DEF Register!Save, Register!Waits, Register!Answer
  <2>3. CASE Register!Reinit(p)
    BY <1>1, <2>3 DEF Register!Reinit, Register!Waits, Register!Answer
  <2>4. CASE Register!Drop(p)
    BY <1>1, <2>4 DEF Register!Drop, Register!Answer
  <2> QED
    BY <2>1, <2>2, <2>3, <2>4 DEF Serve
<1>3. CASE rep'[p] = None
  <2>1. UNCHANGED down
    BY <1>3 DEF Serve
  <2> QED
    BY <1>1, <1>2, <2>1 DEF TypeOK
<1>4. CASE rep'[p] # None
  <2> DEFINE body == IF req[p].op = "read" THEN value ELSE None
  <2>1. Respond(p, req[p].op, body)
    BY <1>2, <1>4 DEF Serve
  <2>2. req[p].op = "read" => value \in Body
    BY <1>1, <1>2, <1>4 DEF Body
  <2>3. body \in Body
    BY <2>2 DEF Body
  <2> HIDE DEF body
  <2>4. [op |-> req[p].op, body |-> body] \in Answers
    BY <1>2, <1>4, <2>3 DEF Answers
  <2>5. /\ down' \in [Page -> Seq(Answers)]
        /\ \A q \in Page : q # p => down'[q] = down[q]
        /\ \/ down'[p] = down[p]
           \/ /\ link[p]
              /\ down'[p] = Append(down[p],
                                   [op |-> req[p].op, body |-> body])
    BY <1>1, <2>1, <2>4, RespondFacts
  <2> QED
    BY <1>2, <1>4, <2>2, <2>5 DEF body
<1> QED
  BY <1>3, <1>4

\* Every step keeps the types.
LEMMA NextTypeInv == TypeInv /\ Next => TypeInv'
<1> SUFFICES ASSUME TypeInv, Next
             PROVE  TypeInv'
  OBVIOUS
<1> USE DEF register, net
<1>1. /\ TypeOK /\ RepOK
      /\ tab \in [Page -> TabType] /\ past \in [Page -> PastType]
      /\ link \in [Page -> BOOLEAN]
      /\ up \in [Page -> Seq(Message)] /\ down \in [Page -> Seq(Answers)]
      /\ twice \in BOOLEAN /\ clicks \in 0 .. MaxClicks
      /\ known \in SUBSET Form
  BY DEF TypeInv, TypeOK
<1>2. ASSUME UNCHANGED register
      PROVE  /\ value' \in Form \cup {Erased, Damaged, Missing}
             /\ req' \in [Page -> Message \cup {None}]
             /\ RepOK'
  BY <1>1, <1>2 DEF TypeOK, RepOK
<1>3. ASSUME NEW p \in Page, Receive(p)
      PROVE  down' \in [Page -> Seq(Answers)]
  BY <1>1, <1>3, HeadFacts DEF Receive
<1>4. ASSUME Click
      PROVE  clicks' \in 0 .. MaxClicks
  BY <1>1, <1>4, ConfigPageConstants DEF Click
<1>5. \A p \in Page : tab[p] \in TabType /\ Selected(tab[p])
  BY <1>1 DEF TypeOK
<1>6. "" \in Name /\ "" \in Secret /\ Undefined \in Secret
  BY DEF Name, Secret
<1>7. ASSUME NEW p \in Page, OnOpen(p)
      PROVE  TypeInv'
  <2> DEFINE t == [tab[p] EXCEPT !.socket = "open", !.due = TRUE]
  <2>1. t \in TabType /\ Selected(t)
    BY <1>5 DEF TabType, Socket, Selected
  <2>2. tab' = [tab EXCEPT ![p] = t]
    BY <1>7 DEF OnOpen
  <2>3. link' \in [Page -> BOOLEAN]
    BY <1>1, <1>7 DEF OnOpen
  <2> QED
    BY <1>1, <1>2, <1>7, <2>1, <2>2, <2>3, TabStep
       DEF OnOpen, TypeInv, TypeOK
<1>8. ASSUME NEW p \in Page, OnClose(p)
      PROVE  TypeInv'
  <2> DEFINE t == [tab[p] EXCEPT !.socket = "closed"]
  <2>1. t \in TabType /\ Selected(t)
    BY <1>5 DEF TabType, Socket, Selected
  <2>2. tab' = [tab EXCEPT ![p] = t]
    BY <1>8 DEF OnClose
  <2> QED
    BY <1>1, <1>2, <1>8, <2>1, <2>2, TabStep DEF OnClose, TypeInv, TypeOK
<1>9. ASSUME NEW p \in Page, GetConfig(p)
      PROVE  TypeInv'
  <2> DEFINE t == [tab[p] EXCEPT !.due = FALSE]
  <2>1. t \in TabType /\ Selected(t)
    BY <1>5 DEF TabType, Selected
  <2>2. tab' = [tab EXCEPT ![p] = t]
    BY <1>9 DEF GetConfig
  <2>3. up' \in [Page -> Seq(Message)]
    BY <1>1, <1>9, SendFacts, Messages DEF GetConfig
  <2> QED
    BY <1>1, <1>2, <1>9, <2>1, <2>2, <2>3, TabStep
       DEF GetConfig, TypeInv, TypeOK
<1>10. ASSUME NEW p \in Page, OnConfig(p)
      PROVE  TypeInv'
  <2> DEFINE f == Head(down[p]).body
  <2>1. f \in Form /\ f.ssid \in Name /\ f.password \in Secret
    BY <1>10 DEF OnConfig, Form
  <2>2. ShowConfig(p, f.ssid, f.password)
    BY <1>10 DEF OnConfig
  <2>3. /\ tab' \in [Page -> TabType]
        /\ \A q \in Page : Selected(tab'[q])
    BY <1>1, <2>1, <2>2, ShowFacts
  <2>4. past' \in [Page -> PastType]
    <3>1. past[p] \in PastType /\ past[p].reads \in Nat
      BY <1>1 DEF PastType
    <3> DEFINE r == past[p].reads + 1
               a == past[p].apart \/ Listed(p)
               q == [past[p] EXCEPT !.reads = r, !.apart = a]
    <3>2. r \in Nat
      BY <3>1
    <3>2a. a \in BOOLEAN
      <4>1. past[p].apart \in BOOLEAN /\ Listed(p) \in BOOLEAN
        BY <3>1 DEF PastType, Listed
      <4> QED
        BY <4>1, Zenon
    <3>3. past' = [past EXCEPT ![p] = q]
      BY <1>1, <1>10 DEF OnConfig
    <3> HIDE DEF f, r, a
    <3>4. q \in PastType
      BY <3>1, <3>2, <3>2a DEF PastType
    <3> QED
      BY <1>1, <3>3, <3>4
  <2> QED
    BY <1>1, <1>2, <1>3, <1>10, <2>3, <2>4 DEF OnConfig, TypeInv, TypeOK
<1>11. ASSUME NEW p \in Page, OnSaved(p)
      PROVE  TypeInv'
  <2>1. /\ tab' \in [Page -> TabType]
        /\ \A q \in Page : Selected(tab'[q])
    BY <1>1, <1>6, <1>11, ShowFacts DEF OnSaved
  <2>2. past' \in [Page -> PastType]
    <3> DEFINE a == past[p].apart \/ Listed(p)
               q == [past[p] EXCEPT !.resaved = TRUE, !.apart = a]
    <3>1. past[p] \in PastType /\ past' = [past EXCEPT ![p] = q]
      BY <1>1, <1>11 DEF OnSaved
    <3>2. a \in BOOLEAN
      BY Zenon
    <3> HIDE DEF a
    <3>3. q \in PastType
      BY <3>1, <3>2 DEF PastType
    <3> QED
      BY <1>1, <3>1, <3>3
  <2> QED
    BY <1>1, <1>2, <1>3, <1>11, <2>1, <2>2 DEF OnSaved, TypeInv, TypeOK
<1>12. ASSUME NEW p \in Page, OnList(p)
      PROVE  TypeInv'
  <2> DEFINE l == Append(tab[p].lists, Head(down[p]).body)
             t == [tab[p] EXCEPT !.lists = l]
  <2>1. Head(down[p]) \in Answers /\ Head(down[p]).op = "scan"
    BY <1>1, <1>12, HeadFacts DEF OnList, Receive
  <2>2. Head(down[p]).body \in Lists
    BY <2>1 DEF Answers
  <2>3. l \in Seq(Lists)
    BY <1>5, <2>2, AppendProperties DEF TabType
  <2>4. tab' = [tab EXCEPT ![p] = t]
    BY <1>12 DEF OnList
  <2> HIDE DEF l
  <2>5. t \in TabType /\ Selected(t)
    BY <1>5, <2>3 DEF TabType, Selected
  <2> QED
    BY <1>1, <1>2, <1>3, <1>12, <2>4, <2>5, TabStep
       DEF OnList, TypeInv, TypeOK
<1>13. ASSUME NEW p \in Page, OnOther(p)
      PROVE  TypeInv'
  BY <1>1, <1>2, <1>3, <1>13 DEF OnOther, TypeInv, TypeOK
<1>14. ASSUME NEW p \in Page, AddWifiToList(p)
      PROVE  TypeInv'
  <2>1. /\ tab' \in [Page -> TabType]
        /\ \A q \in Page : Selected(tab'[q])
        /\ past' \in [Page -> PastType]
    BY <1>1, <1>14, AddFacts
  <2> QED
    BY <1>1, <1>2, <1>14, <2>1 DEF AddWifiToList, TypeInv, TypeOK
<1>15. ASSUME NEW p \in Page, Select(p)
      PROVE  TypeInv'
  <2>1. PICK i \in 1 .. Len(tab[p].opts) :
            tab' = [tab EXCEPT ![p].sel = i]
    BY <1>15 DEF Select
  <2> DEFINE t == [tab[p] EXCEPT !.sel = i]
  <2>2. Len(tab[p].opts) \in Nat
    BY <1>5, LenProperties DEF TabType
  <2>3. i \in Nat \ {0} /\ i <= Len(tab[p].opts)
    BY <2>2
  <2>4. t \in TabType /\ Selected(t)
    BY <1>5, <2>3 DEF TabType, Selected
  <2>5. tab' = [tab EXCEPT ![p] = t]
    BY <1>1, <2>1
  <2>6. past' \in [Page -> PastType]
    <3>1. [past[p] EXCEPT !.apart = FALSE] \in PastType
      BY <1>1 DEF PastType
    <3> QED
      BY <1>1, <1>15, <3>1 DEF Select, Keep
  <2>7. TypeOK' /\ RepOK'
    <3>1. /\ tab' \in [Page -> TabType]
          /\ \A q \in Page : Selected(tab'[q])
      BY <1>1, <2>4, <2>5, TabStep
    <3>2. known' \in SUBSET Form
      BY <1>1, <1>15, <3>1, FormAfter DEF Select, Keep
    <3> QED
      BY <1>1, <1>2, <1>4, <1>15, <2>6, <3>1, <3>2 DEF Select, TypeOK
  <2> QED
    BY <2>7 DEF TypeInv
<1>16. ASSUME NEW p \in Page, TypePassword(p)
      PROVE  TypeInv'
  <2>1. PICK w \in Password : tab' = [tab EXCEPT ![p].pw = w]
    BY <1>16 DEF TypePassword
  <2> DEFINE t == [tab[p] EXCEPT !.pw = w]
  <2>2. w \in Secret
    BY DEF Secret
  <2>3. t \in TabType /\ Selected(t)
    BY <1>5, <2>2 DEF TabType, Selected
  <2>4. tab' = [tab EXCEPT ![p] = t]
    BY <1>1, <2>1
  <2>5. past' \in [Page -> PastType]
    <3>1. [past[p] EXCEPT !.apart = FALSE] \in PastType
      BY <1>1 DEF PastType
    <3> QED
      BY <1>1, <1>16, <3>1 DEF TypePassword, Keep
  <2>6. TypeOK' /\ RepOK'
    <3>1. /\ tab' \in [Page -> TabType]
          /\ \A q \in Page : Selected(tab'[q])
      BY <1>1, <2>3, <2>4, TabStep
    <3>2. known' \in SUBSET Form
      BY <1>1, <1>16, <3>1, FormAfter DEF TypePassword, Keep
    <3> QED
      BY <1>1, <1>2, <1>4, <1>16, <2>5, <3>1, <3>2 DEF TypePassword, TypeOK
  <2> QED
    BY <2>6 DEF TypeInv
<1>17. ASSUME NEW p \in Page, Command(p)
      PROVE  TypeInv'
  <2>1. up' \in [Page -> Seq(Message)]
    BY <1>1, <1>17, SendFacts, Messages DEF Command
  <2> QED
    BY <1>1, <1>2, <1>4, <1>17, <2>1 DEF Command, TypeInv, TypeOK
<1>18. ASSUME NEW p \in Page, SaveConfig(p)
      PROVE  TypeInv'
  <2>1. up' \in [Page -> Seq(Message)]
    BY <1>1, <1>18, SendFacts, Messages, FormIsForm DEF SaveConfig
  <2>2. twice' \in BOOLEAN
    BY <1>18, Zenon DEF SaveConfig
  <2>3. known' \in SUBSET Form
    BY <1>1, <1>18, FormIsForm DEF SaveConfig
  <2> QED
    BY <1>1, <1>2, <1>4, <1>18, <2>1, <2>2, <2>3
       DEF SaveConfig, TypeInv, TypeOK
<1>19. ASSUME NEW p \in Page, Load(p)
      PROVE  TypeInv'
  <2>1. NewTab \in TabType /\ Selected(NewTab)
    BY DEF NewTab, TabType, Socket, Secret, Selected
  <2>2. past' \in [Page -> PastType]
    <3>1. NewPast \in PastType
      BY DEF NewPast, PastType
    <3> QED
      BY <1>1, <1>19, <3>1 DEF Load
  <2>3. link' \in [Page -> BOOLEAN]
    BY <1>1, <1>19 DEF Load
  <2>4. up' \in [Page -> Seq(Message)]
    <3>1. PICK k \in 0 .. Len(up[p]) :
              up' = [up EXCEPT ![p] = SubSeq(@, 1, k)]
      BY <1>19 DEF Load
    <3>2. SubSeq(up[p], 1, k) \in Seq(Message)
      BY <1>1, PrefixFacts
    <3> QED
      BY <1>1, <3>1, <3>2
  <2>5. down' \in [Page -> Seq(Answers)]
    <3>1. <<>> \in Seq(Answers)
      OBVIOUS
    <3> QED
      BY <1>1, <1>19, <3>1 DEF Load
  <2>6. tab' = [tab EXCEPT ![p] = NewTab]
    BY <1>19 DEF Load
  <2>7. /\ tab' \in [Page -> TabType]
        /\ \A q \in Page : Selected(tab'[q])
    BY <1>1, <2>1, <2>6, TabStep
  <2> QED
    BY <1>1, <1>2, <1>4, <1>19, <2>2, <2>3, <2>4, <2>5, <2>7
       DEF Load, TypeInv, TypeOK
<1>20. ASSUME NEW p \in Page, TakeCommand(p)
      PROVE  TypeInv'
  <2>1. up' \in [Page -> Seq(Message)]
    BY <1>1, <1>20, HeadFacts DEF TakeCommand, Waiting
  <2>2. /\ value' \in Form \cup {Erased, Damaged, Missing}
        /\ req' \in [Page -> Message \cup {None}]
        /\ RepOK'
    BY <1>20, RegisterTypes
  <2> QED
    BY <1>1, <1>20, <2>1, <2>2 DEF TakeCommand, TypeInv, TypeOK
<1>21. ASSUME NEW p \in Page, Serve(p)
      PROVE  TypeInv'
  <2>1. /\ value' \in Form \cup {Erased, Damaged, Missing}
        /\ req' \in [Page -> Message \cup {None}]
        /\ RepOK'
    BY <1>21, RegisterTypes DEF Serve
  <2>2. down' \in [Page -> Seq(Answers)]
    BY <1>1, <1>21, ServeFacts DEF TypeInv
  <2> QED
    BY <1>1, <1>21, <2>1, <2>2 DEF Serve, TypeInv, TypeOK
<1>22. ASSUME NEW p \in Page, Scan(p)
      PROVE  TypeInv'
  <2>1. up' \in [Page -> Seq(Message)]
    BY <1>1, <1>22, HeadFacts DEF Scan, Waiting
  <2>2. down' \in [Page -> Seq(Answers)]
    <3>1. CASE UNCHANGED down
      BY <1>1, <3>1
    <3>2. ASSUME NEW found \in Found, Respond(p, "scan", WifiScanAp(found))
          PROVE  down' \in [Page -> Seq(Answers)]
      <4>1. [op |-> "scan", body |-> WifiScanAp(found)] \in Answers
        BY ScanFacts DEF Answers
      <4> QED
        BY <1>1, <3>2, <4>1, RespondFacts
    <3> QED
      BY <1>22, <3>1, <3>2 DEF Scan
  <2> QED
    BY <1>1, <1>2, <1>22, <2>1, <2>2 DEF Scan, TypeInv, TypeOK
<1>23. ASSUME NEW p \in Page, Test(p)
      PROVE  TypeInv'
  <2>1. up' \in [Page -> Seq(Message)]
    BY <1>1, <1>23, HeadFacts DEF Test, Waiting
  <2>2. [op |-> "test", body |-> None] \in Answers
    BY DEF Answers, Body
  <2>3. down' \in [Page -> Seq(Answers)]
    BY <1>1, <1>23, <2>2, RespondFacts DEF Test
  <2> QED
    BY <1>1, <1>2, <1>23, <2>1, <2>3 DEF Test, TypeInv, TypeOK
<1>24. ASSUME Reset
      PROVE  TypeInv'
  <2>1. /\ value' \in Form \cup {Erased, Damaged, Missing}
        /\ req' \in [Page -> Message \cup {None}]
        /\ RepOK'
    <3>1. CASE Page = {}
      BY <1>1, <1>24, <3>1 DEF Reset, Register!Reset, RepOK, TypeOK
    <3>2. CASE Page # {}
      BY <1>24, <3>2, RegisterTypes DEF Reset
    <3> QED
      BY <3>1, <3>2
  <2>2. up' \in [Page -> Seq(Message)]
    <3>1. <<>> \in Seq(Message)
      OBVIOUS
    <3> QED
      BY <1>24, <3>1 DEF Reset
  <2>3. link' \in [Page -> BOOLEAN]
    BY <1>24, Zenon DEF Reset
  <2> QED
    BY <1>1, <1>24, <2>1, <2>2, <2>3 DEF Reset, TypeInv, TypeOK
<1>25. ASSUME Format
      PROVE  TypeInv'
  BY <1>1, <1>25 DEF Format, Register!Format, RepOK, TypeInv, TypeOK
<1> QED
  BY <1>7, <1>8, <1>9, <1>10, <1>11, <1>12, <1>13, <1>14, <1>15, <1>16,
     <1>17, <1>18, <1>19, <1>20, <1>21, <1>22, <1>23, <1>24, <1>25
     DEF Next, Script, User, Device, Close

-----------------------------------------------------------------------------
(* What the device and the connections carry: configurations saved, on     *)
(* their way, stored and read are all of a set of forms, when every form   *)
(* that a user saves is.                                                   *)

SaveIn(S) == {m \in Message : m.op = "save" => m.config \in S}
ReadIn(S) == {a \in Answers : a.op = "read" /\ a.body \in Form => a.body \in S}

UpIn(S)    == \A p \in Page : up[p] \in Seq(SaveIn(S))
ReqIn(S)   == \A p \in Page : req[p] # None /\ req[p].op = "save" =>
                                  req[p].config \in S
DownIn(S)  == \A p \in Page : down[p] \in Seq(ReadIn(S))
ValueIn(S) == value \in Form => value \in S

Carries(S) == UpIn(S) /\ ReqIn(S) /\ DownIn(S) /\ ValueIn(S)

\* A command that is answered carries no other form.
LEMMA ServeCarries ==
    ASSUME NEW S, TypeInv, ReqIn(S), ValueIn(S), DownIn(S), NEW p \in Page,
           Serve(p)
    PROVE  ReqIn(S)' /\ ValueIn(S)' /\ DownIn(S)'
<1>1. /\ req \in [Page -> Message \cup {None}]
      /\ {Erased, Damaged, Missing, None} \cap Form = {}
  BY ConfigPageConstants DEF TypeInv, TypeOK
<1>2. ReqIn(S)'
  BY <1>1, ServeFacts DEF ReqIn
<1>3. ValueIn(S)'
  BY <1>1 DEF ValueIn, ReqIn, Serve, Register!Read, Register!Save,
     Register!Reinit, Register!Drop, Register!Waits
<1>4. DownIn(S)'
  <2> DEFINE a == [op   |-> req[p].op,
                   body |-> IF req[p].op = "read" THEN value ELSE None]
  <2>1. CASE down'[p] = down[p]
    BY <2>1, ServeFacts DEF DownIn
  <2>2. CASE /\ req[p].op \in {"read", "save", "reinit"}
             /\ req[p].op = "read" => value \in Body
             /\ down'[p] = Append(down[p], a)
    <3>1. a \in ReadIn(S)
      <4>1. a.body \in Body /\ a.op \in {"read", "save", "reinit"}
        BY <2>2 DEF Body
      <4>2. a \in Answers
        BY <4>1 DEF Answers
      <4>3. a.op = "read" /\ a.body \in Form => a.body \in S
        BY DEF ValueIn
      <4> QED
        BY <4>2, <4>3 DEF ReadIn
    <3> HIDE DEF a
    <3>2. Append(down[p], a) \in Seq(ReadIn(S))
      BY <3>1, AppendProperties DEF DownIn
    <3> QED
      BY <2>2, <3>2, ServeFacts DEF DownIn
  <2> QED
    BY <2>1, <2>2, ServeFacts
<1> QED
  BY <1>2, <1>3, <1>4

\* Other answers carry none.
LEMMA RespondCarries ==
    ASSUME NEW S, TypeOK, DownIn(S), NEW p \in Page,
           NEW op \in {"scan", "test"}, NEW body,
           [op |-> op, body |-> body] \in Answers, Respond(p, op, body)
    PROVE  DownIn(S)'
<1> DEFINE a == [op |-> op, body |-> body]
<1>1. a \in ReadIn(S)
  BY DEF ReadIn
<1>2. /\ \A q \in Page : q # p => down'[q] = down[q]
      /\ down'[p] = down[p] \/ down'[p] = Append(down[p], a)
  BY RespondFacts
<1> HIDE DEF a
<1>3. Append(down[p], a) \in Seq(ReadIn(S))
  BY <1>1, AppendProperties DEF DownIn
<1> QED
  BY <1>2, <1>3 DEF DownIn

\* Sending a message that carries no other form.
LEMMA SendCarries ==
    ASSUME NEW S, TypeOK, UpIn(S), NEW p \in Page, NEW m \in SaveIn(S),
           WsSend(p, m)
    PROVE  UpIn(S)'
<1>1. m \in Message
  BY DEF SaveIn
<1>2. Append(up[p], m) \in Seq(SaveIn(S))
  BY AppendProperties DEF UpIn
<1> QED
  BY <1>1, <1>2, SendFacts DEF UpIn

\* Every step keeps to the forms, if a save does.
LEMMA NextCarries ==
    ASSUME NEW S, TypeInv, Carries(S), [Next]_vars,
           \A p \in Page : SaveConfig(p) => FormOf(p) \in S
    PROVE  Carries(S)'
<1> USE DEF register, net
<1>1. /\ TypeOK
      /\ up \in [Page -> Seq(Message)] /\ down \in [Page -> Seq(Answers)]
      /\ UpIn(S) /\ ReqIn(S) /\ DownIn(S) /\ ValueIn(S)
  BY DEF TypeInv, TypeOK, Carries
<1>2. UNCHANGED <<value, req>> => ReqIn(S)' /\ ValueIn(S)'
  BY <1>1 DEF ReqIn, ValueIn
<1>3. UNCHANGED up => UpIn(S)'
  BY <1>1 DEF UpIn
<1>4. UNCHANGED down => DownIn(S)'
  BY <1>1 DEF DownIn
<1>5. ASSUME NEW p \in Page, Receive(p)
      PROVE  DownIn(S)'
  <2>1. Tail(down[p]) \in Seq(ReadIn(S))
    BY <1>1, <1>5, HeadTailProperties DEF DownIn, Receive
  <2> QED
    BY <1>1, <1>5, <2>1 DEF DownIn, Receive
<1>6. ASSUME NEW p \in Page, up[p] # <<>>, up' = [up EXCEPT ![p] = Tail(@)]
      PROVE  UpIn(S)' /\ Head(up[p]) \in SaveIn(S)
  <2>1. /\ Tail(up[p]) \in Seq(SaveIn(S))
        /\ Head(up[p]) \in SaveIn(S)
    BY <1>1, <1>6, HeadTailProperties DEF UpIn
  <2> QED
    BY <1>1, <1>6, <2>1 DEF UpIn
<1>7. \A op \in {"read", "reinit", "scan", "test", "close"} :
         Plain(op) \in SaveIn(S)
  BY Messages DEF SaveIn, Plain
<1>8. ASSUME NEW p \in Page, OnOpen(p) \/ OnClose(p) \/ AddWifiToList(p)
                               \/ Select(p) \/ TypePassword(p)
      PROVE  Carries(S)'
  BY <1>2, <1>3, <1>4, <1>8
     DEF OnOpen, OnClose, AddWifiToList, Select, TypePassword, Carries
<1>9. ASSUME NEW p \in Page, GetConfig(p) \/ Command(p)
      PROVE  Carries(S)'
  <2>1. UpIn(S)'
    BY <1>1, <1>7, <1>9, SendCarries DEF GetConfig, Command
  <2> QED
    BY <1>2, <1>4, <1>9, <2>1 DEF GetConfig, Command, Carries
<1>10. ASSUME NEW p \in Page,
              OnConfig(p) \/ OnSaved(p) \/ OnList(p) \/ OnOther(p)
       PROVE  Carries(S)'
  BY <1>2, <1>3, <1>5, <1>10 DEF OnConfig, OnSaved, OnList, OnOther, Carries
<1>11. ASSUME NEW p \in Page, SaveConfig(p)
       PROVE  Carries(S)'
  <2>1. SaveOf(FormOf(p)) \in SaveIn(S)
    BY <1>1, <1>11, FormIsForm, Messages DEF SaveIn, SaveOf
  <2>2. UpIn(S)'
    BY <1>1, <1>11, <2>1, SendCarries DEF SaveConfig
  <2> QED
    BY <1>2, <1>4, <1>11, <2>2 DEF SaveConfig, Carries
<1>12. ASSUME NEW p \in Page, Load(p)
       PROVE  Carries(S)'
  <2>1. UpIn(S)'
    <3>1. PICK k \in 0 .. Len(up[p]) :
              up' = [up EXCEPT ![p] = SubSeq(@, 1, k)]
      BY <1>12 DEF Load
    <3>2. SubSeq(up[p], 1, k) \in Seq(SaveIn(S))
      BY <1>1, PrefixFacts DEF UpIn
    <3> QED
      BY <1>1, <3>1, <3>2 DEF UpIn
  <2>2. DownIn(S)'
    <3>1. <<>> \in Seq(ReadIn(S))
      OBVIOUS
    <3> QED
      BY <1>1, <1>12, <3>1 DEF Load, DownIn
  <2> QED
    BY <1>2, <1>12, <2>1, <2>2 DEF Load, Carries
<1>13. ASSUME NEW p \in Page, TakeCommand(p)
       PROVE  Carries(S)'
  <2>1. UpIn(S)' /\ Head(up[p]) \in SaveIn(S)
    BY <1>6, <1>13 DEF TakeCommand, Waiting
  <2>2. ReqIn(S)'
    BY <1>1, <1>13, <2>1
       DEF TakeCommand, Register!Ask, ReqIn, SaveIn, TypeOK
  <2>3. ValueIn(S)'
    BY <1>1, <1>13 DEF TakeCommand, Register!Ask, ValueIn
  <2> QED
    BY <1>4, <1>13, <2>1, <2>2, <2>3 DEF TakeCommand, Carries
<1>14. ASSUME NEW p \in Page, Serve(p)
       PROVE  Carries(S)'
  <2>1. ReqIn(S)' /\ ValueIn(S)' /\ DownIn(S)'
    BY <1>1, <1>14, ServeCarries
  <2> QED
    BY <1>3, <1>14, <2>1 DEF Serve, Carries
<1>15. ASSUME NEW p \in Page, Scan(p) \/ Test(p)
       PROVE  Carries(S)'
  <2>1. UpIn(S)'
    BY <1>6, <1>15 DEF Scan, Test, Waiting
  <2>2. ASSUME NEW found \in Found, Respond(p, "scan", WifiScanAp(found))
        PROVE  DownIn(S)'
    <3>1. [op |-> "scan", body |-> WifiScanAp(found)] \in Answers
      BY ScanFacts DEF Answers
    <3> QED
      BY <1>1, <2>2, <3>1, RespondCarries
  <2>3. ASSUME Respond(p, "test", None)
        PROVE  DownIn(S)'
    <3>1. [op |-> "test", body |-> None] \in Answers
      BY DEF Answers, Body
    <3> QED
      BY <1>1, <2>3, <3>1, RespondCarries
  <2> QED
    BY <1>2, <1>4, <1>15, <2>1, <2>2, <2>3 DEF Scan, Test, Carries
<1>16. ASSUME Reset
       PROVE  Carries(S)'
  <2>1. UpIn(S)'
    BY <1>16 DEF Reset, UpIn
  <2>2. ReqIn(S)' /\ ValueIn(S)'
    BY <1>1, <1>16, ConfigPageConstants
       DEF Reset, Register!Reset, Register!Waits, ReqIn, ValueIn
  <2> QED
    BY <1>4, <1>16, <2>1, <2>2 DEF Reset, Carries
<1>17. ASSUME Format
       PROVE  Carries(S)'
  <2>1. ReqIn(S)' /\ ValueIn(S)'
    BY <1>1, <1>17, ConfigPageConstants
       DEF Format, Register!Format, ReqIn, ValueIn
  <2> QED
    BY <1>3, <1>4, <1>17, <2>1 DEF Format, Carries
<1>18. CASE UNCHANGED vars
  BY <1>2, <1>3, <1>4, <1>18 DEF vars, Carries
<1> QED
  BY <1>8, <1>9, <1>10, <1>11, <1>12, <1>13, <1>14, <1>15, <1>16, <1>17,
     <1>18 DEF Next, Script, User, Device, Close

\* What is carried is also of a larger set.
LEMMA CarriesMore ==
    ASSUME NEW S, NEW T, S \subseteq T, Carries(S)
    PROVE  Carries(T)
<1>1. SaveIn(S) \subseteq SaveIn(T) /\ ReadIn(S) \subseteq ReadIn(T)
  BY DEF SaveIn, ReadIn
<1>2. ASSUME NEW A, NEW B, A \subseteq B
      PROVE  Seq(A) \subseteq Seq(B)
  BY <1>2
<1>3. UpIn(T) /\ DownIn(T)
  BY <1>1, <1>2 DEF Carries, UpIn, DownIn
<1> QED
  BY <1>3 DEF Carries, ReqIn, ValueIn

-----------------------------------------------------------------------------
(* The password "undefined": while nobody saved twice it is in no form but *)
(* one that shows the answer to a save, and in nothing that is carried.    *)

Defined == {f \in Form : f.password # Undefined}

PwOK == \A p \in Page : tab[p].pw = Undefined => past[p].resaved

UndefinedOK == twice \/ (PwOK /\ Carries(Defined))

LEMMA InitUndefinedOK == Init => UndefinedOK
<1> SUFFICES ASSUME Init
             PROVE  PwOK /\ Carries(Defined)
  BY DEF UndefinedOK
<1>1. PwOK
  BY DEF Init, PwOK, NewTab, Undefined
<1>2. UpIn(Defined) /\ DownIn(Defined)
  BY DEF Init, UpIn, DownIn
<1>3. ReqIn(Defined)
  BY DEF Init, ReqIn
<1>4. ValueIn(Defined)
  BY ConfigPageConstants DEF Init, ValueIn, Defined
<1> QED
  BY <1>1, <1>2, <1>3, <1>4 DEF Carries

LEMMA NextUndefinedOK == TypeInv /\ UndefinedOK /\ [Next]_vars => UndefinedOK'
<1> SUFFICES ASSUME TypeInv, UndefinedOK, [Next]_vars, ~twice'
             PROVE  PwOK' /\ Carries(Defined)'
  BY DEF UndefinedOK
<1> USE DEF register, net
<1>1. /\ TypeOK
      /\ tab \in [Page -> TabType] /\ past \in [Page -> PastType]
  BY DEF TypeInv, TypeOK
<1>2. ~twice
  BY DEF Next, Script, User, Device, OnOpen, OnClose, GetConfig, OnConfig,
     OnSaved, OnList, OnOther, AddWifiToList, Select, TypePassword, Command,
     SaveConfig, Load, TakeCommand, Serve, Scan, Test, Close, Reset, Format,
     vars
<1>3. PwOK /\ Carries(Defined)
  BY <1>2 DEF UndefinedOK
<1>4. ASSUME NEW p \in Page, SaveConfig(p)
      PROVE  FormOf(p) \in Defined
  <2>1. ~past[p].resaved
    BY <1>4 DEF SaveConfig
  <2>2. tab[p].pw # Undefined
    BY <1>3, <2>1 DEF PwOK
  <2>3. FormOf(p) \in Form /\ FormOf(p).password = tab[p].pw
    BY <1>1, FormIsForm DEF FormOf
  <2> QED
    BY <2>2, <2>3 DEF Defined
<1>5. Carries(Defined)'
  <2>1. PICK S : S = Defined
    OBVIOUS
  <2>2. Carries(S)'
    BY <1>3, <1>4, <2>1, NextCarries
  <2> QED
    BY <2>1, <2>2 DEF Carries, UpIn, ReqIn, DownIn, ValueIn
<1>6. UNCHANGED <<tab, past>> => PwOK'
  BY <1>3 DEF PwOK
<1>7. ASSUME NEW p \in Page, OnOpen(p) \/ OnClose(p) \/ GetConfig(p)
      PROVE  PwOK'
  <2>1. past' = past
    BY <1>7 DEF OnOpen, OnClose, GetConfig
  <2>2. \A q \in Page : tab'[q].pw = tab[q].pw
    <3>1. CASE OnOpen(p)
      BY <1>1, <3>1 DEF OnOpen, TabType
    <3>2. CASE OnClose(p)
      BY <1>1, <3>2 DEF OnClose, TabType
    <3>3. CASE GetConfig(p)
      BY <1>1, <3>3 DEF GetConfig, TabType
    <3> QED
      BY <1>7, <3>1, <3>2, <3>3
  <2> QED
    BY <1>3, <2>1, <2>2 DEF PwOK
<1>8. ASSUME NEW p \in Page, OnConfig(p)
      PROVE  PwOK'
  <2> DEFINE f == Head(down[p]).body
  <2>1. f \in Form /\ f.ssid \in Name /\ f.password \in Secret
    BY <1>8 DEF OnConfig, Form
  <2>2. f.password # Undefined
    <3>1. Head(down[p]) \in ReadIn(Defined)
      BY <1>3, <1>8, HeadTailProperties DEF OnConfig, Receive, Carries, DownIn
    <3> QED
      BY <1>8, <2>1, <3>1 DEF OnConfig, ReadIn, Defined
  <2>3. ShowConfig(p, f.ssid, f.password)
    BY <1>8 DEF OnConfig
  <2>4. /\ \A q \in Page : q # p => tab'[q] = tab[q]
        /\ tab'[p].pw = f.password
    BY <1>1, <2>1, <2>3, ShowFacts
  <2>5. \A q \in Page : q # p => past'[q] = past[q]
    BY <1>1, <1>8 DEF OnConfig
  <2> QED
    BY <1>3, <2>2, <2>4, <2>5 DEF PwOK
<1>9. ASSUME NEW p \in Page, OnSaved(p)
      PROVE  PwOK'
  <2>1. \A q \in Page : q # p => tab'[q] = tab[q]
    <3>1. "" \in Name /\ Undefined \in Secret
      BY DEF Name, Secret
    <3> QED
      BY <1>1, <1>9, <3>1, ShowFacts DEF OnSaved
  <2>2. /\ \A q \in Page : q # p => past'[q] = past[q]
        /\ past'[p].resaved
    BY <1>1, <1>9 DEF OnSaved, PastType
  <2> QED
    BY <1>3, <2>1, <2>2 DEF PwOK
<1>10. ASSUME NEW p \in Page, OnList(p)
       PROVE  PwOK'
  <2> DEFINE l == Append(tab[p].lists, Head(down[p]).body)
  <2>1. tab' = [tab EXCEPT ![p] = [tab[p] EXCEPT !.lists = l]] /\ past' = past
    BY <1>1, <1>10 DEF OnList
  <2> HIDE DEF l
  <2>2. \A q \in Page : tab'[q].pw = tab[q].pw
    BY <1>1, <2>1 DEF TabType
  <2> QED
    BY <1>3, <2>1, <2>2 DEF PwOK
<1>11. ASSUME NEW p \in Page, AddWifiToList(p)
       PROVE  PwOK'
  <2>1. \A q \in Page : tab'[q].pw = tab[q].pw
    BY <1>1, <1>11, AddFacts
  <2>2. \A q \in Page : past'[q].resaved = past[q].resaved
    BY <1>1, <1>11 DEF AddWifiToList, PastType
  <2> QED
    BY <1>3, <2>1, <2>2 DEF PwOK
<1>12. ASSUME NEW p \in Page, Select(p) \/ TypePassword(p)
       PROVE  PwOK'
  <2>1. \A q \in Page : tab'[q].pw = Undefined => tab[q].pw = Undefined
    <3>1. CASE Select(p)
      <4>1. PICK i \in 1 .. Len(tab[p].opts) :
                tab' = [tab EXCEPT ![p].sel = i]
        BY <3>1 DEF Select
      <4> QED
        BY <1>1, <4>1 DEF TabType
    <3>2. CASE TypePassword(p)
      <4>1. PICK w \in Password : tab' = [tab EXCEPT ![p].pw = w]
        BY <3>2 DEF TypePassword
      <4>2. w # Undefined
        BY ConfigPageConstants
      <4> QED
        BY <1>1, <4>1, <4>2 DEF TabType
    <3> QED
      BY <1>12, <3>1, <3>2
  <2>2. \A q \in Page : past'[q].resaved = past[q].resaved
    <3>1. past' = [past EXCEPT ![p].apart = FALSE]
      BY <1>12 DEF Select, TypePassword, Keep
    <3> QED
      BY <1>1, <3>1 DEF PastType
  <2> QED
    BY <1>3, <2>1, <2>2 DEF PwOK
<1>13. ASSUME NEW p \in Page, Load(p)
       PROVE  PwOK'
  BY <1>1, <1>3, <1>13 DEF Load, PwOK, NewTab, Undefined
<1>14. ASSUME NEW p \in Page,
              \/ OnOther(p) \/ Command(p) \/ SaveConfig(p)
              \/ TakeCommand(p) \/ Serve(p) \/ Scan(p) \/ Test(p)
       PROVE  PwOK'
  BY <1>6, <1>14 DEF OnOther, Command, SaveConfig, TakeCommand, Serve, Scan,
     Test
<1>15. ASSUME Reset \/ Format \/ UNCHANGED vars
       PROVE  PwOK'
  BY <1>6, <1>15 DEF Reset, Format, vars
<1>16. PwOK'
  BY <1>7, <1>8, <1>9, <1>10, <1>11, <1>12, <1>13, <1>14, <1>15
     DEF Next, Script, User, Device, Close
<1> QED
  BY <1>5, <1>16

-----------------------------------------------------------------------------
(* Networks and passwords that belong together: a form that did not come   *)
(* apart is known, and so is everything that is carried.                   *)

FormsKnown == \A p \in Page : ~past[p].apart => FormOf(p) \in known

KnownOK ==
    /\ EmptyForm \in known /\ SavedForm \in known
    /\ FormsKnown
    /\ Carries(known)

LEMMA InitKnownOK == Init => KnownOK
<1> SUFFICES ASSUME Init
             PROVE  KnownOK
  OBVIOUS
<1>1. EmptyForm \in known /\ SavedForm \in known /\ value \in known
  BY DEF Init
<1>2. FormsKnown
  BY <1>1 DEF Init, FormsKnown, FormOf, NewTab, EmptyForm
<1>3. UpIn(known) /\ DownIn(known)
  BY DEF Init, UpIn, DownIn
<1>4. ReqIn(known) /\ ValueIn(known)
  BY <1>1 DEF Init, ReqIn, ValueIn
<1> QED
  BY <1>1, <1>2, <1>3, <1>4 DEF KnownOK, Carries

\* An answer put in a form without a list is all that the form then holds.
LEMMA ShownForm ==
    ASSUME TypeOK, NEW p \in Page, NEW f \in Form, ~Listed(p),
           ShowConfig(p, f.ssid, f.password)
    PROVE  FormOf(p)' = f
<1>1. f.ssid \in Name /\ f.password \in Secret
  BY DEF Form
<1>2. /\ tab[p].opts \in Seq(Name) /\ tab[p].sel \in Nat \ {0}
      /\ Selected(tab[p])
  BY DEF TypeOK, TabType
<1>3. /\ tab'[p].pw = f.password
      /\ tab'[p].opts[1] = f.ssid
      /\ Len(tab'[p].opts) = IF tab[p].opts = <<>>
                             THEN 1 ELSE Len(tab[p].opts)
      /\ tab[p].sel = 1 /\ Len(tab'[p].opts) = 1 => tab'[p].sel = 1
  BY <1>1, ShowFacts
<1>4. tab[p].opts # <<>> => Len(tab[p].opts) = 1
  <2>1. Len(tab[p].opts) \in Nat /\ ~(Len(tab[p].opts) > 1)
    BY <1>2, LenProperties DEF Listed
  <2>2. tab[p].opts # <<>> => Len(tab[p].opts) # 0
    BY <1>2, EmptySeq
  <2>3. \A n \in Nat : ~(n > 1) /\ n # 0 => n = 1
    OBVIOUS
  <2> QED
    BY <2>1, <2>2, <2>3, Zenon
<1>5. tab[p].sel = 1
  <2>1. Len(tab[p].opts) \in Nat /\ Len(tab[p].opts) <= 1
    BY <1>2, LenProperties DEF Listed
  <2>2. tab[p].sel = 1 \/ tab[p].sel <= Len(tab[p].opts)
    BY <1>2 DEF Selected
  <2> QED
    BY <1>2, <2>1, <2>2
<1>6. Len(tab'[p].opts) = 1 /\ tab'[p].sel = 1
  BY <1>3, <1>4, <1>5
<1>7. tab'[p].opts # <<>>
  <2> SUFFICES ASSUME tab'[p].opts = <<>>
               PROVE  FALSE
    OBVIOUS
  <2>1. Len(<<>>) = 1
    BY <1>6, Zenon
  <2>2. Len(<<>>) = 0
    OBVIOUS
  <2> QED
    BY <2>1, <2>2
<1>8. FormOf(p)' = [ssid |-> f.ssid, password |-> f.password]
  BY <1>3, <1>6, <1>7 DEF FormOf
<1> QED
  BY <1>8 DEF Form

LEMMA NextKnownOK == TypeInv /\ KnownOK /\ [Next]_vars => KnownOK'
<1> SUFFICES ASSUME TypeInv, KnownOK, [Next]_vars
             PROVE  KnownOK'
  OBVIOUS
<1> USE DEF register, net
<1>1. /\ TypeOK
      /\ tab \in [Page -> TabType] /\ past \in [Page -> PastType]
      /\ \A p \in Page : tab[p] \in TabType /\ past[p] \in PastType
      /\ FormsKnown /\ Carries(known)
  BY DEF TypeInv, TypeOK, KnownOK
<1>2. known \subseteq known'
  <2>1. ASSUME NEW p \in Page, Select(p) \/ TypePassword(p) \/ SaveConfig(p)
        PROVE  known \subseteq known'
    BY <2>1 DEF Select, TypePassword, SaveConfig, Keep
  <2> QED
    BY <2>1 DEF Next, Script, User, Device, OnOpen, OnClose, GetConfig,
       OnConfig, OnSaved, OnList, OnOther, AddWifiToList, Command, Load,
       TakeCommand, Serve, Scan, Test, Close, Reset, Format, vars
<1>3. EmptyForm \in known' /\ SavedForm \in known'
  BY <1>2 DEF KnownOK
<1>4. Carries(known)'
  <2>1. ASSUME NEW p \in Page, SaveConfig(p)
        PROVE  FormOf(p) \in known'
    BY <1>1, <2>1, Zenon DEF SaveConfig, FormsKnown
  <2>2. PICK S : S = known'
    OBVIOUS
  <2>3. Carries(S)
    BY <1>1, <1>2, <2>2, CarriesMore
  <2>4. Carries(S)'
    BY <2>1, <2>2, <2>3, NextCarries
  <2> QED
    BY <2>2, <2>4 DEF Carries, UpIn, ReqIn, DownIn, ValueIn
<1>5. ASSUME NEW p \in Page, ~past'[p].apart => FormOf(p)' \in known',
             \A q \in Page : q # p => tab'[q] = tab[q] /\ past'[q] = past[q]
      PROVE  FormsKnown'
  BY <1>1, <1>2, <1>5 DEF FormsKnown, FormOf
<1>6. ASSUME NEW p \in Page, tab'[p].sel = tab[p].sel,
             tab'[p].opts = tab[p].opts, tab'[p].pw = tab[p].pw, past' = past,
             \A q \in Page : q # p => tab'[q] = tab[q]
      PROVE  FormsKnown'
  <2>1. FormOf(p)' = FormOf(p)
    BY <1>6 DEF FormOf
  <2> QED
    BY <1>1, <1>2, <1>5, <1>6, <2>1 DEF FormsKnown
<1>7. UNCHANGED <<tab, past>> => FormsKnown'
  BY <1>1, <1>2 DEF FormsKnown, FormOf
<1>8. ASSUME NEW p \in Page, OnOpen(p)
      PROVE  FormsKnown'
  BY <1>1, <1>6, <1>8 DEF OnOpen, TabType
<1>9. ASSUME NEW p \in Page, OnClose(p)
      PROVE  FormsKnown'
  BY <1>1, <1>6, <1>9 DEF OnClose, TabType
<1>10. ASSUME NEW p \in Page, GetConfig(p)
       PROVE  FormsKnown'
  BY <1>1, <1>6, <1>10 DEF GetConfig, TabType
<1>11. ASSUME NEW p \in Page, OnConfig(p)
       PROVE  FormsKnown'
  <2> DEFINE f == Head(down[p]).body
  <2>1. f \in Form /\ f.ssid \in Name /\ f.password \in Secret
    BY <1>11 DEF OnConfig, Form
  <2>2. ShowConfig(p, f.ssid, f.password)
    BY <1>11 DEF OnConfig
  <2>3. f \in known
    <3>1. Head(down[p]) \in ReadIn(known)
      BY <1>1, <1>11, HeadTailProperties
         DEF OnConfig, Receive, Carries, DownIn
    <3> QED
      BY <1>11, <2>1, <3>1 DEF OnConfig, ReadIn
  <2>4. \A q \in Page : q # p => tab'[q] = tab[q] /\ past'[q] = past[q]
    BY <1>1, <1>11, <2>1, <2>2, ShowFacts DEF OnConfig
  <2>5. ~past'[p].apart => ~Listed(p)
    BY <1>1, <1>11 DEF OnConfig, PastType
  <2>6. ~past'[p].apart => FormOf(p)' = f
    <3> HIDE DEF f
    <3> QED
      BY <1>1, <2>1, <2>2, <2>5, ShownForm
  <2> QED
    BY <1>2, <1>5, <2>3, <2>4, <2>6
<1>12. ASSUME NEW p \in Page, OnSaved(p)
       PROVE  FormsKnown'
  <2>1. /\ SavedForm \in Form /\ "" \in Name /\ Undefined \in Secret
        /\ SavedForm.ssid = "" /\ SavedForm.password = Undefined
    BY DEF SavedForm, Form, Name, Secret
  <2>2. \A q \in Page : q # p => tab'[q] = tab[q] /\ past'[q] = past[q]
    BY <1>1, <1>12, <2>1, ShowFacts DEF OnSaved
  <2>3. ~past'[p].apart => ~Listed(p)
    BY <1>1, <1>12 DEF OnSaved, PastType
  <2>4. ~past'[p].apart => FormOf(p)' = SavedForm
    BY <1>1, <1>12, <2>1, <2>3, ShownForm DEF OnSaved
  <2> QED
    BY <1>3, <1>5, <2>2, <2>4
<1>13. ASSUME NEW p \in Page, OnList(p)
       PROVE  FormsKnown'
  <2> DEFINE l == Append(tab[p].lists, Head(down[p]).body)
  <2>1. tab' = [tab EXCEPT ![p] = [tab[p] EXCEPT !.lists = l]] /\ past' = past
    BY <1>1, <1>13 DEF OnList
  <2> HIDE DEF l
  <2> QED
    BY <1>1, <1>6, <2>1 DEF TabType
<1>14. ASSUME NEW p \in Page, AddWifiToList(p)
       PROVE  FormsKnown'
  <2>1. \A q \in Page : q # p => tab'[q] = tab[q]
    BY <1>1, <1>14, AddFacts
  <2>2. /\ \A q \in Page : q # p => past'[q] = past[q]
        /\ past'[p].apart
    BY <1>1, <1>14 DEF AddWifiToList, PastType
  <2> QED
    BY <1>5, <2>1, <2>2
<1>15. ASSUME NEW p \in Page, Select(p) \/ TypePassword(p)
       PROVE  FormsKnown'
  <2>1. FormOf(p)' \in known'
    BY <1>15 DEF Select, TypePassword, Keep
  <2>2. \A q \in Page : q # p => tab'[q] = tab[q] /\ past'[q] = past[q]
    BY <1>1, <1>15 DEF Select, TypePassword, Keep
  <2> QED
    BY <1>5, <2>1, <2>2
<1>16. ASSUME NEW p \in Page, Load(p)
       PROVE  FormsKnown'
  <2>1. /\ tab'[p] = NewTab
        /\ \A q \in Page : q # p => tab'[q] = tab[q] /\ past'[q] = past[q]
    BY <1>1, <1>16 DEF Load
  <2>2. FormOf(p)' = EmptyForm
    <3>1. NewTab.opts = <<>> /\ NewTab.pw = ""
      BY DEF NewTab
    <3>2. tab'[p].opts = <<>> /\ tab'[p].pw = ""
      BY <2>1, <3>1, Zenon
    <3> QED
      BY <3>2 DEF FormOf, EmptyForm
  <2> QED
    BY <1>3, <1>5, <2>1, <2>2
<1>17. ASSUME NEW p \in Page,
              \/ OnOther(p) \/ Command(p) \/ SaveConfig(p)
              \/ TakeCommand(p) \/ Serve(p) \/ Scan(p) \/ Test(p)
       PROVE  FormsKnown'
  BY <1>7, <1>17 DEF OnOther, Command, SaveConfig, TakeCommand, Serve, Scan,
     Test
<1>18. ASSUME Reset \/ Format \/ UNCHANGED vars
       PROVE  FormsKnown'
  BY <1>7, <1>18 DEF Reset, Format, vars
<1>19. FormsKnown'
  BY <1>8, <1>9, <1>10, <1>11, <1>12, <1>13, <1>14, <1>15, <1>16, <1>17,
     <1>18 DEF Next, Script, User, Device, Close
<1> QED
  BY <1>3, <1>4, <1>19 DEF KnownOK

-----------------------------------------------------------------------------
(* The lists: every list on its way or waiting for its timer holds what    *)
(* fits of what was found.                                                 *)

Fitting == {l \in Lists : Len(l.list) = IF l.n < ListSize THEN l.n
                                                          ELSE ListSize}
FitAnswer == {a \in Answers : a.op = "scan" => a.body \in Fitting}

ListsOK == \A p \in Page : /\ tab[p].lists \in Seq(Fitting)
                           /\ down[p] \in Seq(FitAnswer)
                           /\ past[p].threw => past[p].most > ListSize + 1

LEMMA InitListsOK == Init => ListsOK
<1> SUFFICES ASSUME Init, NEW p \in Page
             PROVE  /\ tab[p].lists \in Seq(Fitting)
                    /\ down[p] \in Seq(FitAnswer)
                    /\ past[p].threw => past[p].most > ListSize + 1
  BY DEF ListsOK
<1>1. tab[p].lists = <<>> /\ down[p] = <<>> /\ ~past[p].threw
  BY DEF Init, NewTab, NewPast
<1>2. <<>> \in Seq(Fitting) /\ <<>> \in Seq(FitAnswer)
  OBVIOUS
<1> QED
  BY <1>1, <1>2

\* The loop over a list that fits fails only when much more was found.
LEMMA LoopFacts ==
    ASSUME NEW l \in Fitting, LastWanted(l.n) > Len(l.list)
    PROVE  l.n > ListSize + 1
<1>1. /\ l.n \in Nat /\ ListSize \in Nat
      /\ Len(l.list) = IF l.n < ListSize THEN l.n ELSE ListSize
  BY ConfigPageConstants DEF Fitting, Lists
<1> QED
  BY <1>1 DEF LastWanted

LEMMA NextListsOK == TypeInv /\ ListsOK /\ [Next]_vars => ListsOK'
<1> SUFFICES ASSUME TypeInv, ListsOK, [Next]_vars
             PROVE  ListsOK'
  OBVIOUS
<1> USE DEF register, net
<1>1. /\ TypeOK
      /\ tab \in [Page -> TabType] /\ past \in [Page -> PastType]
      /\ down \in [Page -> Seq(Answers)]
      /\ \A p \in Page : tab[p] \in TabType /\ past[p] \in PastType
  BY DEF TypeInv, TypeOK
<1> DEFINE LT(q) == tab'[q].lists = tab[q].lists
           DW(q) == down'[q] = down[q]
           PT(q) == /\ past'[q].threw = past[q].threw
                    /\ past'[q].most = past[q].most
<1>2. ASSUME \A q \in Page : LT(q) \/ tab'[q].lists \in Seq(Fitting),
             \A q \in Page : DW(q) \/ down'[q] \in Seq(FitAnswer),
             \A q \in Page : PT(q) \/ (past'[q].threw =>
                                           past'[q].most > ListSize + 1)
      PROVE  ListsOK'
  BY <1>2 DEF ListsOK
<1>3. ASSUME NEW p \in Page, Receive(p)
      PROVE  /\ \A q \in Page : DW(q) \/ down'[q] \in Seq(FitAnswer)
             /\ Head(down[p]) \in FitAnswer
  <2>1. down[p] # <<>> /\ down[p] \in Seq(FitAnswer)
    BY <1>3 DEF Receive, ListsOK
  <2>2. Tail(down[p]) \in Seq(FitAnswer) /\ Head(down[p]) \in FitAnswer
    BY <2>1, HeadTailProperties
  <2> QED
    BY <1>1, <1>3, <2>2 DEF Receive
<1>4. ASSUME NEW p \in Page, NEW op, NEW body,
             [op |-> op, body |-> body] \in FitAnswer, Respond(p, op, body)
      PROVE  \A q \in Page : DW(q) \/ down'[q] \in Seq(FitAnswer)
  <2> DEFINE a == [op |-> op, body |-> body]
  <2>1. a \in Answers
    BY <1>4 DEF FitAnswer
  <2>2. /\ \A q \in Page : q # p => down'[q] = down[q]
        /\ down'[p] = down[p] \/ down'[p] = Append(down[p], a)
    BY <1>1, <1>4, <2>1, RespondFacts
  <2>3. a \in FitAnswer
    BY <1>4
  <2> HIDE DEF a
  <2>4. Append(down[p], a) \in Seq(FitAnswer)
    BY <2>3, AppendProperties DEF ListsOK
  <2> QED
    BY <2>2, <2>4
<1>5. ASSUME NEW p \in Page, OnOpen(p)
      PROVE  ListsOK'
  <2>1. \A q \in Page : LT(q)
    BY <1>1, <1>5 DEF OnOpen, TabType
  <2> QED
    BY <1>2, <1>5, <2>1 DEF OnOpen
<1>6. ASSUME NEW p \in Page, OnClose(p)
      PROVE  ListsOK'
  <2>1. \A q \in Page : LT(q)
    BY <1>1, <1>6 DEF OnClose, TabType
  <2> QED
    BY <1>2, <1>6, <2>1 DEF OnClose
<1>7. ASSUME NEW p \in Page, GetConfig(p)
      PROVE  ListsOK'
  <2>1. \A q \in Page : LT(q)
    BY <1>1, <1>7 DEF GetConfig, TabType
  <2> QED
    BY <1>2, <1>7, <2>1 DEF GetConfig
<1>8. ASSUME NEW p \in Page, OnConfig(p)
      PROVE  ListsOK'
  <2> DEFINE f == Head(down[p]).body
  <2>1. f \in Form /\ f.ssid \in Name /\ f.password \in Secret
    BY <1>8 DEF OnConfig, Form
  <2>2. ShowConfig(p, f.ssid, f.password)
    BY <1>8 DEF OnConfig
  <2>3. \A q \in Page : PT(q)
    BY <1>1, <1>8 DEF OnConfig, PastType
  <2> HIDE DEF f
  <2>4. \A q \in Page : LT(q)
    BY <1>1, <2>1, <2>2, ShowFacts
  <2>5. Receive(p)
    BY <1>8 DEF OnConfig
  <2> QED
    BY <1>2, <1>3, <2>3, <2>4, <2>5
<1>9. ASSUME NEW p \in Page, OnSaved(p)
      PROVE  ListsOK'
  <2>1. "" \in Name /\ Undefined \in Secret
    BY DEF Name, Secret
  <2>2. \A q \in Page : LT(q)
    BY <1>1, <1>9, <2>1, ShowFacts DEF OnSaved
  <2>3. \A q \in Page : PT(q)
    BY <1>1, <1>9 DEF OnSaved, PastType
  <2>4. Receive(p)
    BY <1>9 DEF OnSaved
  <2> QED
    BY <1>2, <1>3, <2>2, <2>3, <2>4
<1>10. ASSUME NEW p \in Page, OnList(p)
       PROVE  ListsOK'
  <2> DEFINE l == Append(tab[p].lists, Head(down[p]).body)
  <2>1. Receive(p) /\ Head(down[p]).op = "scan" /\ past' = past
    BY <1>10 DEF OnList
  <2>2. Head(down[p]).body \in Fitting
    BY <1>3, <2>1 DEF FitAnswer
  <2>3. l \in Seq(Fitting)
    BY <2>2, AppendProperties DEF ListsOK
  <2>4. tab' = [tab EXCEPT ![p] = [tab[p] EXCEPT !.lists = l]]
    BY <1>1, <1>10 DEF OnList
  <2> HIDE DEF l
  <2>5. \A q \in Page : LT(q) \/ tab'[q].lists \in Seq(Fitting)
    BY <1>1, <2>3, <2>4 DEF TabType
  <2> QED
    BY <1>2, <1>3, <2>1, <2>5
<1>11. ASSUME NEW p \in Page, OnOther(p)
       PROVE  ListsOK'
  BY <1>2, <1>3, <1>11 DEF OnOther
<1>12. ASSUME NEW p \in Page, AddWifiToList(p)
       PROVE  ListsOK'
  <2> DEFINE l    == Head(tab[p].lists)
             most == IF l.n > past[p].most THEN l.n ELSE past[p].most
             threw == past[p].threw \/ LastWanted(l.n) > Len(l.list)
  <2>1. tab[p].lists \in Seq(Fitting) /\ tab[p].lists # <<>>
    BY <1>12 DEF AddWifiToList, ListsOK
  <2>2. l \in Fitting /\ Tail(tab[p].lists) \in Seq(Fitting)
    BY <2>1, HeadTailProperties
  <2>3. /\ \A q \in Page : q # p => tab'[q] = tab[q]
        /\ tab'[p].lists = Tail(tab[p].lists)
    BY <1>1, <1>12, AddFacts
  <2>4. /\ \A q \in Page : q # p => past'[q] = past[q]
        /\ past'[p].most = most
        /\ past'[p].threw = threw
    BY <1>1, <1>12 DEF AddWifiToList, PastType
  <2>5. threw => most > ListSize + 1
    <3>1. /\ l.n \in Nat /\ past[p].most \in Nat /\ ListSize \in Nat
          /\ past[p].threw => past[p].most > ListSize + 1
      BY <1>1, <2>2, ConfigPageConstants
         DEF Fitting, Lists, PastType, ListsOK
    <3>2. LastWanted(l.n) > Len(l.list) => l.n > ListSize + 1
      BY <2>2, LoopFacts
    <3> HIDE DEF l
    <3> QED
      BY <3>1, <3>2
  <2> HIDE DEF l, most, threw
  <2>6. \A q \in Page : DW(q)
    BY <1>12 DEF AddWifiToList
  <2> QED
    BY <1>2, <2>2, <2>3, <2>4, <2>5, <2>6
<1>13. ASSUME NEW p \in Page, Select(p) \/ TypePassword(p)
       PROVE  ListsOK'
  <2>1. \A q \in Page : LT(q)
    <3>1. CASE Select(p)
      <4>1. PICK i \in 1 .. Len(tab[p].opts) :
                tab' = [tab EXCEPT ![p].sel = i]
        BY <3>1 DEF Select
      <4> QED
        BY <1>1, <4>1 DEF TabType
    <3>2. CASE TypePassword(p)
      <4>1. PICK w \in Password : tab' = [tab EXCEPT ![p].pw = w]
        BY <3>2 DEF TypePassword
      <4> QED
        BY <1>1, <4>1 DEF TabType
    <3> QED
      BY <1>13, <3>1, <3>2
  <2>2. past' = [past EXCEPT ![p].apart = FALSE] /\ down' = down
    BY <1>13 DEF Select, TypePassword, Keep
  <2>3. \A q \in Page : PT(q)
    BY <1>1, <2>2 DEF PastType
  <2> QED
    BY <1>2, <2>1, <2>2, <2>3
<1>14. ASSUME NEW p \in Page, Load(p)
       PROVE  ListsOK'
  <2>1. /\ tab'[p] = NewTab /\ past'[p] = NewPast /\ down'[p] = <<>>
        /\ \A q \in Page : q # p => /\ tab'[q] = tab[q] /\ past'[q] = past[q]
                                    /\ down'[q] = down[q]
    BY <1>1, <1>14 DEF Load
  <2>2. <<>> \in Seq(Fitting) /\ <<>> \in Seq(FitAnswer)
    OBVIOUS
  <2>3. NewTab.lists = <<>> /\ ~NewPast.threw
    BY DEF NewTab, NewPast
  <2> QED
    BY <1>2, <2>1, <2>2, <2>3
<1>15. ASSUME NEW p \in Page, Serve(p)
       PROVE  ListsOK'
  <2> DEFINE a == [op   |-> req[p].op,
                   body |-> IF req[p].op = "read" THEN value ELSE None]
  <2>1. /\ \A q \in Page : q # p => down'[q] = down[q]
        /\ \/ down'[p] = down[p]
           \/ /\ req[p].op \in {"read", "save", "reinit"}
              /\ req[p].op = "read" => value \in Body
              /\ down'[p] = Append(down[p], a)
    BY <1>15, ServeFacts
  <2>2. CASE down'[p] = down[p]
    BY <1>2, <1>15, <2>1, <2>2 DEF Serve
  <2>3. CASE /\ req[p].op \in {"read", "save", "reinit"}
             /\ req[p].op = "read" => value \in Body
             /\ down'[p] = Append(down[p], a)
    <3>1. a.body \in Body /\ a.op \in {"read", "save", "reinit"}
      BY <2>3 DEF Body
    <3>2. a \in FitAnswer
      BY <3>1 DEF Answers, FitAnswer
    <3> HIDE DEF a
    <3>3. Append(down[p], a) \in Seq(FitAnswer)
      BY <3>2, AppendProperties DEF ListsOK
    <3> QED
      BY <1>2, <1>15, <2>1, <2>3, <3>3 DEF Serve
  <2> QED
    BY <2>1, <2>2, <2>3
<1>16. ASSUME NEW p \in Page, Scan(p)
       PROVE  ListsOK'
  <2>1. ASSUME NEW found \in Found, Respond(p, "scan", WifiScanAp(found))
        PROVE  ListsOK'
    <3>1. WifiScanAp(found) \in Fitting
      BY ScanFacts DEF Fitting
    <3>2. [op |-> "scan", body |-> WifiScanAp(found)] \in FitAnswer
      BY <3>1 DEF FitAnswer, Answers, Fitting
    <3> QED
      BY <1>2, <1>4, <1>16, <2>1, <3>2 DEF Scan
  <2>2. CASE UNCHANGED down
    BY <1>2, <1>16, <2>2 DEF Scan
  <2> QED
    BY <1>16, <2>1, <2>2 DEF Scan
<1>17. ASSUME NEW p \in Page, Test(p)
       PROVE  ListsOK'
  <2>1. [op |-> "test", body |-> None] \in FitAnswer
    BY DEF FitAnswer, Answers, Body
  <2>2. CASE Respond(p, "test", None)
    BY <1>2, <1>4, <1>17, <2>1, <2>2 DEF Test
  <2>3. CASE UNCHANGED down
    BY <1>2, <1>17, <2>3 DEF Test
  <2> QED
    BY <1>17, <2>2, <2>3 DEF Test
<1>18. ASSUME NEW p \in Page, Command(p) \/ SaveConfig(p) \/ TakeCommand(p)
       PROVE  ListsOK'
  BY <1>2, <1>18 DEF Command, SaveConfig, TakeCommand
<1>19. CASE Reset \/ Format \/ UNCHANGED vars
  BY <1>2, <1>19 DEF Reset, Format, vars
<1> QED
  BY <1>5, <1>6, <1>7, <1>8, <1>9, <1>10, <1>11, <1>12, <1>13, <1>14, <1>15,
     <1>16, <1>17, <1>18, <1>19 DEF Next, Script, User, Device, Close

-----------------------------------------------------------------------------
(* The one read of every loading: it is in one place at a time, from the   *)
(* timer through the connection, the device and back to the form.          *)

HasRead(s) == \E i \in 1 .. Len(s) : s[i].op = "read"
OneRead(s) == \A i, j \in 1 .. Len(s) :
                  s[i].op = "read" /\ s[j].op = "read" => i = j
Reading(r) == r # None /\ r.op = "read"

\* t, h, l, r, u, d: tab, past, link, req, up and down of a page.
ReadAt(t, h, l, r, u, d) ==
    /\ t.socket = "connecting" =>
           ~l /\ ~t.due /\ ~HasRead(d) /\ h.reads = 0
    /\ t.due => ~HasRead(d) /\ h.reads = 0
    /\ t.due /\ l => ~HasRead(u) /\ ~Reading(r)
    /\ l /\ HasRead(u) => ~Reading(r) /\ ~HasRead(d) /\ h.reads = 0
    /\ l /\ Reading(r) => ~HasRead(d) /\ h.reads = 0
    /\ HasRead(d) => h.reads = 0
    /\ l => OneRead(u)
    /\ OneRead(d)
    /\ h.reads <= 1

ReadOK == \A p \in Page :
              ReadAt(tab[p], past[p], link[p], req[p], up[p], down[p])

\* Reads of an empty connection, of one less and of one more message.
LEMMA EmptyReads == ~HasRead(<<>>) /\ OneRead(<<>>)
<1>1. 1 .. Len(<<>>) = {}
  OBVIOUS
<1> QED
  BY <1>1 DEF HasRead, OneRead

LEMMA TailReads ==
    ASSUME NEW S, NEW s \in Seq(S), s # <<>>
    PROVE  /\ HasRead(Tail(s)) => HasRead(s)
           /\ OneRead(s) => OneRead(Tail(s))
           /\ Head(s).op = "read" =>
                  HasRead(s) /\ (OneRead(s) => ~HasRead(Tail(s)))
<1>1. /\ Len(s) \in Nat /\ Len(s) # 0 /\ Head(s) = s[1]
      /\ Len(Tail(s)) = Len(s) - 1
      /\ \A i \in 1 .. Len(Tail(s)) : Tail(s)[i] = s[i + 1]
  BY HeadTailProperties, EmptySeq, LenProperties
<1>2. \A i \in 1 .. Len(Tail(s)) : i + 1 \in 1 .. Len(s) /\ i + 1 # 1
  BY <1>1
<1>3. 1 \in 1 .. Len(s)
  BY <1>1
<1>4. \A i, j \in 1 .. Len(Tail(s)) : i + 1 = j + 1 => i = j
  OBVIOUS
<1>5. HasRead(Tail(s)) => HasRead(s)
  BY <1>1, <1>2 DEF HasRead
<1>6. OneRead(s) => OneRead(Tail(s))
  BY <1>1, <1>2, <1>4 DEF OneRead
<1>7. Head(s).op = "read" => HasRead(s)
  BY <1>1, <1>3 DEF HasRead
<1>8. Head(s).op = "read" /\ OneRead(s) => ~HasRead(Tail(s))
  BY <1>1, <1>2, <1>3 DEF HasRead, OneRead
<1> QED
  BY <1>5, <1>6, <1>7, <1>8

LEMMA AppendReads ==
    ASSUME NEW S, NEW s \in Seq(S), NEW a \in S
    PROVE  /\ a.op # "read" => /\ HasRead(Append(s, a)) => HasRead(s)
                               /\ OneRead(s) => OneRead(Append(s, a))
           /\ ~HasRead(s) => OneRead(Append(s, a))
<1> DEFINE e == Append(s, a)
           n == Len(s)
<1>1. /\ n \in Nat /\ Len(e) = n + 1 /\ e[n + 1] = a
      /\ \A i \in 1 .. n : e[i] = s[i]
  BY AppendProperties, LenProperties
<1> HIDE DEF e
<1>2. \A i \in 1 .. Len(e) : i \in 1 .. Len(s) \/ i = n + 1
  BY <1>1
<1>3. a.op # "read" /\ HasRead(e) => HasRead(s)
  BY <1>1, <1>2 DEF HasRead
<1>4. a.op # "read" /\ OneRead(s) => OneRead(e)
  BY <1>1, <1>2 DEF OneRead
<1>5. ~HasRead(s) => OneRead(e)
  BY <1>1, <1>2 DEF HasRead, OneRead
<1> QED
  BY <1>3, <1>4, <1>5 DEF e

LEMMA InitReadOK == Init => ReadOK
<1> SUFFICES ASSUME Init, NEW p \in Page
             PROVE  ReadAt(tab[p], past[p], link[p], req[p], up[p], down[p])
  BY DEF ReadOK
<1>1. /\ tab[p] = NewTab /\ past[p] = NewPast /\ ~link[p]
      /\ up[p] = <<>> /\ down[p] = <<>>
  BY DEF Init
<1>2. /\ NewTab.socket = "connecting" /\ ~NewTab.due
      /\ NewPast.reads = 0
  BY DEF NewTab, NewPast
<1> QED
  BY <1>1, <1>2, EmptyReads DEF ReadAt

LEMMA NextReadOK == TypeInv /\ ReadOK /\ [Next]_vars => ReadOK'
<1> SUFFICES ASSUME TypeInv, ReadOK, [Next]_vars
             PROVE  ReadOK'
  OBVIOUS
<1> USE DEF register, net
<1>1. /\ TypeOK
      /\ tab \in [Page -> TabType] /\ past \in [Page -> PastType]
      /\ link \in [Page -> BOOLEAN]
      /\ req \in [Page -> Message \cup {None}]
      /\ up \in [Page -> Seq(Message)] /\ down \in [Page -> Seq(Answers)]
      /\ \A p \in Page : /\ tab[p] \in TabType /\ past[p] \in PastType
                         /\ up[p] \in Seq(Message)
                         /\ down[p] \in Seq(Answers)
                         /\ past[p].reads \in Nat
  BY DEF TypeInv, TypeOK, PastType
<1>2. \A p \in Page : ReadAt(tab[p], past[p], link[p], req[p], up[p], down[p])
  BY DEF ReadOK
<1> DEFINE Same(q) == /\ tab'[q].socket = tab[q].socket
                      /\ tab'[q].due = tab[q].due
                      /\ past'[q].reads = past[q].reads
                      /\ link'[q] = link[q] /\ req'[q] = req[q]
                      /\ up'[q] = up[q] /\ down'[q] = down[q]
           New(q) == ReadAt(tab[q], past[q], link[q], req[q], up[q], down[q])'
<1>3. ASSUME NEW p \in Page, New(p), \A q \in Page : q # p => Same(q)
      PROVE  ReadOK'
  <2>1. \A q \in Page : q # p => New(q)
    BY <1>2, <1>3 DEF ReadAt
  <2> QED
    BY <1>3, <2>1 DEF ReadOK
<1>4. ASSUME \A q \in Page : Same(q)
      PROVE  ReadOK'
  BY <1>2, <1>4 DEF ReadOK, ReadAt
<1>5. ASSUME NEW p \in Page, OnOpen(p)
      PROVE  ReadOK'
  <2>1. /\ tab[p].socket = "connecting" /\ up[p] = <<>> /\ ~Reading(req[p])
        /\ tab'[p].socket = "open" /\ tab'[p].due /\ past' = past
        /\ req' = req /\ up' = up /\ down' = down
    BY <1>1, <1>5 DEF OnOpen, TabType, Reading
  <2>2. \A q \in Page : q # p => Same(q)
    BY <1>1, <1>5 DEF OnOpen
  <2>3. New(p)
    BY <1>2, <2>1, EmptyReads DEF ReadAt
  <2> QED
    BY <1>3, <2>2, <2>3
<1>6. ASSUME NEW p \in Page, OnClose(p)
      PROVE  ReadOK'
  <2>1. /\ tab[p].socket = "open" /\ tab'[p].socket = "closed"
        /\ tab'[p].due = tab[p].due /\ past' = past /\ link' = link
        /\ req' = req /\ up' = up /\ down' = down
    BY <1>1, <1>6 DEF OnClose, TabType
  <2>2. \A q \in Page : q # p => Same(q)
    BY <1>1, <1>6 DEF OnClose
  <2>3. New(p)
    BY <1>2, <2>1 DEF ReadAt
  <2> QED
    BY <1>3, <2>2, <2>3
<1>7. ASSUME NEW p \in Page, GetConfig(p)
      PROVE  ReadOK'
  <2> DEFINE m == Plain("read")
  <2>1. /\ tab[p].due /\ tab'[p].socket = tab[p].socket /\ ~tab'[p].due
        /\ past' = past /\ link' = link /\ req' = req /\ down' = down
    BY <1>1, <1>7 DEF GetConfig, TabType
  <2>2. m \in Message
    BY Messages
  <2>3. /\ \A q \in Page : q # p => up'[q] = up[q]
        /\ \/ up'[p] = up[p]
           \/ link[p] /\ up'[p] = Append(up[p], m)
    BY <1>1, <1>7, <2>2, SendFacts DEF GetConfig
  <2> HIDE DEF m
  <2>4. \A q \in Page : q # p => Same(q)
    BY <1>1, <1>7, <2>3 DEF GetConfig
  <2>5. ~HasRead(up[p]) => OneRead(Append(up[p], m))
    BY <1>1, <2>2, AppendReads
  <2>6. New(p)
    BY <1>2, <2>1, <2>3, <2>5 DEF ReadAt
  <2> QED
    BY <1>3, <2>4, <2>6
<1>8. ASSUME NEW p \in Page, Receive(p)
      PROVE  /\ \A q \in Page : q # p => down'[q] = down[q]
             /\ HasRead(down'[p]) => HasRead(down[p])
             /\ OneRead(down[p]) => OneRead(down'[p])
             /\ Head(down[p]).op = "read" =>
                    HasRead(down[p])
                      /\ (OneRead(down[p]) => ~HasRead(down'[p]))
  <2>1. down[p] # <<>> /\ down'[p] = Tail(down[p])
    BY <1>1, <1>8 DEF Receive
  <2> QED
    BY <1>1, <1>8, <2>1, TailReads DEF Receive
<1>9. ASSUME NEW p \in Page, OnConfig(p)
      PROVE  ReadOK'
  <2> DEFINE f == Head(down[p]).body
  <2>1. f \in Form /\ f.ssid \in Name /\ f.password \in Secret
    BY <1>9 DEF OnConfig, Form
  <2>2. ShowConfig(p, f.ssid, f.password)
    BY <1>9 DEF OnConfig
  <2>3. /\ Receive(p) /\ Head(down[p]).op = "read"
        /\ link' = link /\ req' = req /\ up' = up
        /\ past'[p].reads = past[p].reads + 1
        /\ \A q \in Page : q # p => past'[q] = past[q]
    BY <1>1, <1>9 DEF OnConfig, PastType
  <2> HIDE DEF f
  <2>4. /\ \A q \in Page : q # p => tab'[q] = tab[q]
        /\ tab'[p].socket = tab[p].socket /\ tab'[p].due = tab[p].due
    BY <1>1, <2>1, <2>2, ShowFacts
  <2>5. \A q \in Page : q # p => Same(q)
    BY <1>8, <2>3, <2>4
  <2>6. /\ HasRead(down[p]) /\ ~HasRead(down'[p]) /\ OneRead(down'[p])
        /\ past'[p].reads = 1
    BY <1>1, <1>2, <1>8, <2>3 DEF ReadAt
  <2>7. New(p)
    BY <1>2, <2>3, <2>4, <2>6 DEF ReadAt
  <2> QED
    BY <1>3, <2>5, <2>7
<1>10. ASSUME NEW p \in Page, OnSaved(p) \/ OnList(p) \/ OnOther(p)
       PROVE  ReadOK'
  <2>1. /\ Receive(p) /\ link' = link /\ req' = req /\ up' = up
    BY <1>10 DEF OnSaved, OnList, OnOther
  <2>2. \A q \in Page : past'[q].reads = past[q].reads
    <3>1. CASE OnSaved(p)
      <4>1. past' = [past EXCEPT ![p].resaved = TRUE,
                                 ![p].apart = @ \/ Listed(p)]
        BY <3>1 DEF OnSaved
      <4> QED
        BY <1>1, <4>1 DEF PastType
    <3>2. CASE OnList(p) \/ OnOther(p)
      BY <3>2 DEF OnList, OnOther
    <3> QED
      BY <1>10, <3>1, <3>2
  <2>3. \A q \in Page : /\ tab'[q].socket = tab[q].socket
                        /\ tab'[q].due = tab[q].due
    <3>1. CASE OnSaved(p)
      <4>1. "" \in Name /\ Undefined \in Secret
        BY DEF Name, Secret
      <4> QED
        BY <1>1, <3>1, <4>1, ShowFacts DEF OnSaved
    <3>2. CASE OnList(p)
      <4> DEFINE l == Append(tab[p].lists, Head(down[p]).body)
      <4>1. tab' = [tab EXCEPT ![p] = [tab[p] EXCEPT !.lists = l]]
        BY <1>1, <3>2 DEF OnList
      <4> HIDE DEF l
      <4> QED
        BY <1>1, <4>1 DEF TabType
    <3>3. CASE OnOther(p)
      BY <3>3 DEF OnOther
    <3> QED
      BY <1>10, <3>1, <3>2, <3>3
  <2>4. \A q \in Page : q # p => Same(q)
    BY <1>8, <2>1, <2>2, <2>3
  <2>5. New(p)
    BY <1>2, <1>8, <2>1, <2>2, <2>3 DEF ReadAt
  <2> QED
    BY <1>3, <2>4, <2>5
<1>11. ASSUME NEW p \in Page, AddWifiToList(p)
       PROVE  ReadOK'
  <2>1. \A q \in Page : /\ tab'[q].socket = tab[q].socket
                        /\ tab'[q].due = tab[q].due
    BY <1>1, <1>11, AddFacts
  <2>2. \A q \in Page : past'[q].reads = past[q].reads
    BY <1>1, <1>11 DEF AddWifiToList, PastType
  <2> QED
    BY <1>4, <1>11, <2>1, <2>2 DEF AddWifiToList
<1>12. ASSUME NEW p \in Page, Select(p) \/ TypePassword(p)
       PROVE  ReadOK'
  <2>1. \A q \in Page : /\ tab'[q].socket = tab[q].socket
                        /\ tab'[q].due = tab[q].due
    <3>1. CASE Select(p)
      <4>1. PICK i \in 1 .. Len(tab[p].opts) :
                tab' = [tab EXCEPT ![p].sel = i]
        BY <3>1 DEF Select
      <4> QED
        BY <1>1, <4>1 DEF TabType
    <3>2. CASE TypePassword(p)
      <4>1. PICK w \in Password : tab' = [tab EXCEPT ![p].pw = w]
        BY <3>2 DEF TypePassword
      <4> QED
        BY <1>1, <4>1 DEF TabType
    <3> QED
      BY <1>12, <3>1, <3>2
  <2>2. /\ past' = [past EXCEPT ![p].apart = FALSE]
        /\ UNCHANGED <<req, link, up, down>>
    BY <1>12 DEF Select, TypePassword, Keep
  <2>3. \A q \in Page : past'[q].reads = past[q].reads
    BY <1>1, <2>2 DEF PastType
  <2> QED
    BY <1>4, <2>1, <2>2, <2>3
<1>13. ASSUME NEW p \in Page, NEW m \in Message, m.op # "read",
              WsSend(p, m), UNCHANGED <<tab, past, link, req, down>>
       PROVE  ReadOK'
  <2>1. /\ \A q \in Page : q # p => up'[q] = up[q]
        /\ up'[p] = up[p] \/ up'[p] = Append(up[p], m)
    BY <1>1, <1>13, SendFacts
  <2>2. /\ HasRead(Append(up[p], m)) => HasRead(up[p])
        /\ OneRead(up[p]) => OneRead(Append(up[p], m))
    BY <1>1, <1>13, AppendReads
  <2>3. New(p)
    BY <1>2, <1>13, <2>1, <2>2 DEF ReadAt
  <2> QED
    BY <1>3, <1>13, <2>1, <2>3
<1>14. ASSUME NEW p \in Page, Command(p) \/ SaveConfig(p)
       PROVE  ReadOK'
  <2>1. CASE Command(p)
    <3>1. PICK op \in {"scan", "test", "reinit", "close"} :
              WsSend(p, Plain(op))
      BY <2>1 DEF Command
    <3>2. Plain(op) \in Message /\ Plain(op).op # "read"
      BY Messages DEF Plain
    <3> QED
      BY <1>13, <2>1, <3>1, <3>2 DEF Command
  <2>2. CASE SaveConfig(p)
    <3>1. SaveOf(FormOf(p)) \in Message
      BY <1>1, FormIsForm, Messages
    <3>2. SaveOf(FormOf(p)).op # "read"
      BY DEF SaveOf
    <3> QED
      BY <1>13, <2>2, <3>1, <3>2 DEF SaveConfig
  <2> QED
    BY <1>14, <2>1, <2>2
<1>15. ASSUME NEW p \in Page, Load(p)
       PROVE  ReadOK'
  <2>1. /\ tab'[p] = NewTab /\ past'[p] = NewPast /\ ~link'[p]
        /\ down'[p] = <<>> /\ req' = req
        /\ \A q \in Page : q # p => Same(q)
    BY <1>1, <1>15 DEF Load
  <2>2. NewTab.socket = "connecting" /\ ~NewTab.due /\ NewPast.reads = 0
    BY DEF NewTab, NewPast
  <2>3. New(p)
    BY <2>1, <2>2, EmptyReads DEF ReadAt
  <2> QED
    BY <1>3, <2>1, <2>3
<1>16. ASSUME NEW p \in Page, up[p] # <<>>, up' = [up EXCEPT ![p] = Tail(@)]
       PROVE  /\ \A q \in Page : q # p => up'[q] = up[q]
              /\ HasRead(up'[p]) => HasRead(up[p])
              /\ OneRead(up[p]) => OneRead(up'[p])
              /\ Head(up[p]).op = "read" =>
                     HasRead(up[p]) /\ (OneRead(up[p]) => ~HasRead(up'[p]))
  <2>1. up'[p] = Tail(up[p])
    BY <1>1, <1>16
  <2> QED
    BY <1>1, <1>16, <2>1, TailReads
<1>17. ASSUME NEW p \in Page, TakeCommand(p)
       PROVE  ReadOK'
  <2>1. /\ up[p] # <<>> /\ up' = [up EXCEPT ![p] = Tail(@)]
        /\ req'[p] = Head(up[p])
        /\ \A q \in Page : q # p => req'[q] = req[q]
        /\ UNCHANGED <<tab, past, link, down>>
    BY <1>1, <1>17 DEF TakeCommand, Waiting, Register!Ask
  <2>2. \A q \in Page : q # p => Same(q)
    BY <1>16, <2>1
  <2>3. CASE Head(up[p]).op = "read"
    BY <1>2, <1>3, <1>16, <2>1, <2>2, <2>3 DEF ReadAt
  <2>4. CASE Head(up[p]).op # "read"
    <3>1. ~Reading(req'[p])
      BY <2>1, <2>4 DEF Reading
    <3>2. New(p)
      BY <1>2, <1>16, <2>1, <3>1 DEF ReadAt
    <3> QED
      BY <1>3, <2>2, <3>2
  <2> QED
    BY <2>3, <2>4
<1>18. ASSUME NEW p \in Page, NEW a \in Answers, a.op # "read",
              down'[p] = down[p] \/ down'[p] = Append(down[p], a)
       PROVE  /\ HasRead(down'[p]) => HasRead(down[p])
              /\ OneRead(down[p]) => OneRead(down'[p])
  BY <1>1, <1>18, AppendReads
<1>19. ASSUME NEW p \in Page, Serve(p)
       PROVE  ReadOK'
  <2> DEFINE a == [op   |-> req[p].op,
                   body |-> IF req[p].op = "read" THEN value ELSE None]
  <2>1. /\ req' = [req EXCEPT ![p] = None]
        /\ \A q \in Page : q # p => down'[q] = down[q]
        /\ \/ down'[p] = down[p]
           \/ /\ link[p] /\ req[p] # None
              /\ req[p].op \in {"read", "save", "reinit"}
              /\ req[p].op = "read" => value \in Body
              /\ down'[p] = Append(down[p], a)
    BY <1>19, ServeFacts
  <2>2. UNCHANGED <<tab, past, link, up>>
    BY <1>19 DEF Serve
  <2>3. ~Reading(req'[p]) /\ \A q \in Page : q # p => Same(q)
    BY <1>1, <2>1, <2>2 DEF Reading
  <2>4. CASE down'[p] = down[p]
    <3>1. New(p)
      BY <1>2, <2>2, <2>3, <2>4 DEF ReadAt
    <3> QED
      BY <1>3, <2>3, <3>1
  <2>5. CASE /\ link[p] /\ req[p] # None
             /\ req[p].op \in {"read", "save", "reinit"}
             /\ req[p].op = "read" => value \in Body
             /\ down'[p] = Append(down[p], a)
    <3>1. a.body \in Body /\ a.op = req[p].op
      BY <2>5 DEF Body
    <3>2. a \in Answers
      BY <2>5, <3>1 DEF Answers
    <3> HIDE DEF a
    <3>3. CASE req[p].op = "read"
      <4>1. ~HasRead(down[p]) => OneRead(down'[p])
        BY <1>1, <2>5, <3>2, AppendReads
      <4>2. New(p)
        BY <1>2, <2>2, <2>3, <2>5, <3>3, <4>1 DEF ReadAt, Reading
      <4> QED
        BY <1>3, <2>3, <4>2
    <3>4. CASE req[p].op # "read"
      <4>1. /\ HasRead(down'[p]) => HasRead(down[p])
            /\ OneRead(down[p]) => OneRead(down'[p])
        BY <1>18, <2>5, <3>1, <3>2, <3>4
      <4>2. New(p)
        BY <1>2, <2>2, <2>3, <4>1 DEF ReadAt
      <4> QED
        BY <1>3, <2>3, <4>2
    <3> QED
      BY <3>3, <3>4
  <2> QED
    BY <2>1, <2>4, <2>5
<1>20. ASSUME NEW p \in Page, Scan(p) \/ Test(p)
       PROVE  ReadOK'
  <2>1. /\ up[p] # <<>> /\ up' = [up EXCEPT ![p] = Tail(@)]
        /\ UNCHANGED <<tab, past, link, req>>
    BY <1>20 DEF Scan, Test, Waiting
  <2>2. /\ \A q \in Page : q # p => down'[q] = down[q]
        /\ HasRead(down'[p]) => HasRead(down[p])
        /\ OneRead(down[p]) => OneRead(down'[p])
    <3>1. CASE UNCHANGED down
      BY <3>1
    <3>2. ASSUME NEW op \in {"scan", "test"}, NEW body,
                 [op |-> op, body |-> body] \in Answers, Respond(p, op, body)
          PROVE  /\ \A q \in Page : q # p => down'[q] = down[q]
                 /\ HasRead(down'[p]) => HasRead(down[p])
                 /\ OneRead(down[p]) => OneRead(down'[p])
      <4> DEFINE a == [op |-> op, body |-> body]
      <4>1. /\ \A q \in Page : q # p => down'[q] = down[q]
            /\ down'[p] = down[p] \/ down'[p] = Append(down[p], a)
        BY <1>1, <3>2, RespondFacts
      <4>2. a \in Answers /\ a.op # "read"
        BY <3>2
      <4> HIDE DEF a
      <4> QED
        BY <1>18, <4>1, <4>2
    <3>3. \A found \in Found :
              [op |-> "scan", body |-> WifiScanAp(found)] \in Answers
      BY ScanFacts DEF Answers
    <3>4. [op |-> "test", body |-> None] \in Answers
      BY DEF Answers, Body
    <3>5. CASE Scan(p)
      BY <3>1, <3>2, <3>3, <3>5 DEF Scan
    <3>6. CASE Test(p)
      BY <3>1, <3>2, <3>4, <3>6 DEF Test
    <3> QED
      BY <1>20, <3>5, <3>6
  <2>3. \A q \in Page : q # p => Same(q)
    BY <1>16, <2>1, <2>2
  <2>4. New(p)
    BY <1>2, <1>16, <2>1, <2>2 DEF ReadAt
  <2> QED
    BY <1>3, <2>3, <2>4
<1>21. CASE Reset
  <2>1. \A q \in Page : ~link'[q]
    BY <1>21 DEF Reset
  <2>2. UNCHANGED <<tab, past, down>>
    BY <1>21 DEF Reset
  <2> QED
    BY <1>2, <2>1, <2>2 DEF ReadOK, ReadAt
<1>22. CASE Format \/ UNCHANGED vars
  BY <1>4, <1>22 DEF Format, Register!Format, vars
<1> QED
  BY <1>5, <1>6, <1>7, <1>9, <1>10, <1>11, <1>12, <1>14, <1>15, <1>17, <1>19,
     <1>20, <1>21, <1>22 DEF Next, Script, User, Device, Close

-----------------------------------------------------------------------------

\* What holds of the types holds when nothing changes.
LEMMA StutterTypeInv == TypeInv /\ UNCHANGED vars => TypeInv'
BY DEF vars, register, net, TypeInv, TypeOK, RepOK

LEMMA InvTypeInv == Spec => []TypeInv
<1>1. TypeInv /\ [Next]_vars => TypeInv'
  BY NextTypeInv, StutterTypeInv
<1> QED
  BY InitTypeInv, <1>1, PTL DEF Spec

(***************************************************************************)
(* The types: what browsers, connections and the register hold, and a      *)
(* selection that is one of the options (Configurationpage.html:162,171).  *)
(***************************************************************************)
THEOREM PageTypeCorrect == Spec => []TypeOK
<1>1. TypeInv => TypeOK
  BY DEF TypeInv
<1> QED
  BY InvTypeInv, <1>1, PTL

(***************************************************************************)
(* The password "undefined" is stored only when somebody saved twice       *)
(* without loading the page (Configurationpage.html:161).                  *)
(***************************************************************************)
THEOREM UndefinedCorrect == Spec => []UndefinedNeedsSecondSave
<1>1. UndefinedOK => UndefinedNeedsSecondSave
  BY DEF UndefinedOK, Carries, ValueIn, Defined, UndefinedNeedsSecondSave
<1> QED
  BY InvTypeInv, InitUndefinedOK, NextUndefinedOK, <1>1, PTL DEF Spec

(***************************************************************************)
(* The device stores no network with another's password, whatever answers  *)
(* come late, browsers reload and connections break, but in a form that    *)
(* its user saved unchanged since a list was put in, or an answer put      *)
(* beside one (Configurationpage.html:161-175).                            *)
(***************************************************************************)
THEOREM StoredPairCorrect == Spec => []StoredPairIsKnown
<1>1. KnownOK => StoredPairIsKnown
  BY DEF KnownOK, Carries, ValueIn, StoredPairIsKnown
<1> QED
  BY InvTypeInv, InitKnownOK, NextKnownOK, <1>1, PTL DEF Spec

(***************************************************************************)
(* Every loading shows at most one configuration, however late it comes    *)
(* (Configurationpage.html:153).                                           *)
(***************************************************************************)
THEOREM OverwriteCorrect == Spec => []OneLateOverwrite
<1>1. ReadOK => OneLateOverwrite
  BY DEF ReadOK, ReadAt, OneLateOverwrite
<1> QED
  BY InvTypeInv, InitReadOK, NextReadOK, <1>1, PTL DEF Spec

(***************************************************************************)
(* The page's loop fails only when a scan found at least two networks more *)
(* than the list holds (Configurationpage.html:169, wifi_manager.h:105),   *)
(* the list being complete up to its size.                                 *)
(***************************************************************************)
THEOREM ScriptFailureCorrect == Spec => []ScriptFailsOnlyBeyondList
<1>1. ListsOK => ScriptFailsOnlyBeyondList
  BY DEF ListsOK, ScriptFailsOnlyBeyondList
<1> QED
  BY InvTypeInv, InitListsOK, NextListsOK, <1>1, PTL DEF Spec

=============================================================================
