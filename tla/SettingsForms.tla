---------------------------- MODULE SettingsForms ----------------------------
(***************************************************************************)
(* The forms of the settings page (pages/settings): the system's settings, *)
(* an account's record, the access policy and the own name, each filled    *)
(* from a cached answer of the server and sent as a whole or in part.      *)
(*                                                                         *)
(* A topic is what one form is about.  The forms of the system and of an   *)
(* account keep what their fields held when they were opened, as does the  *)
(* name; the policy's keeps only a choice made over the cached value.      *)
(* Of several fields that work alike there is one: "size" for the three    *)
(* sizes, "guard" for the switch and the two numbers.                      *)
(***************************************************************************)
EXTENDS Naturals, FiniteSets, FiniteSetsExt

CONSTANTS
    Account,  \* the accounts that may be edited
    Base,     \* 1024 in the code
    Top,      \* the last unit formatBytes writes, which parseHumanBytes does not read
    Size,     \* sizes that are tried
    Samples,  \* sizes that are written and read back
    Enabled,  \* which of "fail", "lose", "elsewhere" happen
    None,
    MaxActs   \* bound of what the administrators do

VARIABLES
    server, \* topic -> field -> value
    cached, \* the same, as it was read last
    fetch,  \* topic -> where the request of its query stands, and the answer
    form,   \* the form that is open
    saves,  \* saves under way
    stale,  \* history: topic -> the fields written since `cached' was read
    acts

vars == <<server, cached, fetch, form, saves, stale, acts>>

Topic == Account \cup {"system", "policy", "profile"}
Chosen == {"policy", "profile"}

Field(t) == IF t = "system" THEN {"size", "proxies", "guard"}
            ELSE IF t \in Account THEN {"admin", "scope", "username"} ELSE {"choice"}

-----------------------------------------------------------------------------
(* Sizes *)

RoundDiv(a, b) == (2 * a + b) \div (2 * b)

UnitSize[i \in 0 .. Top] == IF i = 0 THEN 1 ELSE Base * UnitSize[i - 1]

\* Three figures, at least all before the point.
FormatBytes(n) ==
    LET u == Max({i \in 0 .. Top : n >= UnitSize[i]})
        one == UnitSize[u]
    IN  [unit |-> u, hundredths |-> IF u = 0 \/ n >= 100 * one THEN 100 * RoundDiv(n, one)
                                    ELSE IF n >= 10 * one THEN 10 * RoundDiv(10 * n, one)
                                    ELSE RoundDiv(100 * n, one)]

\* A unit that is not listed ends in the letter of the smallest.
ParseHumanBytes(text, fallback) ==
    IF text.hundredths = 0 THEN fallback
    ELSE RoundDiv(text.hundredths * (IF text.unit = Top THEN 1 ELSE UnitSize[text.unit]), 100)

\* What a field says that nobody touched.
Displayed(n) == ParseHumanBytes(FormatBytes(n), n)

\* What the constants are, for the instances.
FormsBounds ==
    /\ Base \in Nat /\ Base > 100 /\ Top \in Nat \ {0}
    /\ Size \subseteq Nat \ {0} /\ Samples \subseteq 1 .. UnitSize[Top] - 1
    /\ None \notin Account

-----------------------------------------------------------------------------
(* The values *)

Words == {"a", "b"}
Value(f) == CASE f = "size" -> Size
              [] f \in {"guard", "admin"} -> BOOLEAN
              [] f = "proxies" -> Words \cup {"b, loosely"}
              [] OTHER -> Words

\* validateSystemSettings: what the server makes of the text with the proxies.
Normal(f, v) == IF f = "proxies" /\ v = "b, loosely" THEN "b" ELSE v
Stored(f) == {Normal(f, v) : v \in Value(f)}

-----------------------------------------------------------------------------
(* The query cache *)

Act == acts < MaxActs /\ acts' = acts + 1

\* One query reads all accounts, one the policy with the name.
Together(t) == IF t \in Account THEN Account ELSE IF t \in Chosen THEN Chosen ELSE {t}

NoFetch == [step |-> "idle", answer |-> None, missed |-> {}]
Sent == [NoFetch EXCEPT !.step = "sent"]
Due == [NoFetch EXCEPT !.step = "due"]

\* What is on the page: the account is everywhere, the rest on its panel.
Observed == Chosen \cup (IF form.topic = None THEN Account ELSE Together(form.topic))

\* Read at once, or when it comes to be shown.
Invalidate(ts) ==
    fetch' = [t \in Topic |-> IF t \notin ts THEN fetch[t]
                              ELSE IF t \in Observed THEN Sent ELSE Due]

ServeRead(t) ==
    /\ fetch[t].step = "sent"
    /\ fetch' = [u \in Topic |-> IF u \in Together(t) /\ fetch[u].step = "sent"
                    THEN [step |-> "served", answer |-> server[u], missed |-> {}]
                    ELSE fetch[u]]
    /\ UNCHANGED <<server, cached, form, saves, stale, acts>>

ReadArrives(t) ==
    /\ fetch[t].step = "served"
    /\ LET ts == {u \in Together(t) : fetch[u].step = "served"}
       IN  /\ cached' = [u \in Topic |-> IF u \in ts THEN fetch[u].answer ELSE cached[u]]
           /\ stale' = [u \in Topic |-> IF u \in ts THEN fetch[u].missed ELSE stale[u]]
           /\ fetch' = [u \in Topic |-> IF u \in ts THEN NoFetch ELSE fetch[u]]
    /\ UNCHANGED <<server, form, saves, acts>>

-----------------------------------------------------------------------------
(* A form *)

\* edited: the fields the reader changed; foreign: those written since by others, and
\* before, unknown to the cache; saved: a save succeeded, and nothing was changed since.
NoForm == [topic |-> None, typed |-> << >>, edited |-> {}, foreign |-> {}, saved |-> FALSE]

Unchosen(t) == [f \in Field(t) |-> None]

\* useState: from the present answer, or with no choice made.
Initial(t) ==
    IF t = "policy" THEN Unchosen(t)
    ELSE [f \in Field(t) |-> IF f = "size" THEN Displayed(cached[t][f]) ELSE cached[t][f]]

\* A panel reads its answer when it is shown, unless it is young enough.
Shown(t) ==
    LET idle == {u \in Together(t) : fetch[u].step = "idle"}
        due == {u \in Together(t) : fetch[u].step = "due"}
    IN  \/ fetch' = [u \in Topic |-> IF u \in idle \cup due THEN Sent ELSE fetch[u]]
        \/ due = {} /\ fetch' = fetch

\* The panel or the row goes away; its saves go on without it.
Orphans(ss) == {[s EXCEPT !.mine = FALSE] : s \in ss}
Unmounted == saves' = Orphans(saves)

\* The answer to a save of an account's form closes that, whichever is open by now.
Closes(s) == s.topic \in Account /\ form.topic \in Account
Closing(s, ss) == IF Closes(s) THEN Orphans(ss) ELSE ss

\* The request and its one retry have failed: what was cached stays.  The panel
\* of the system shows a message in place of its form.
ReadFails(t) ==
    /\ "fail" \in Enabled /\ fetch[t].step = "sent"
    /\ fetch' = [u \in Topic |-> IF u \in Together(t) THEN NoFetch ELSE fetch[u]]
    /\ IF t = "system" /\ form.topic = t THEN form' = NoForm /\ Unmounted
       ELSE /\ form' = IF form.topic \in Together(t) THEN [form EXCEPT !.saved = FALSE] ELSE form
            /\ UNCHANGED saves
    /\ UNCHANGED <<server, cached, stale, acts>>

\* Slip for UntouchedStays: the form of another account is the same component.
SlipOpen(t) ==
    /\ t # form.topic /\ Act
    /\ form' = [NoForm EXCEPT !.topic = t, !.foreign = stale[t],
                    !.typed = IF {t, form.topic} \subseteq Account THEN form.typed
                              ELSE Initial(t)]
    /\ Unmounted
    /\ Shown(t)
    /\ UNCHANGED <<server, cached, stale>>

\* Another tab, or the form of another account, which has its account as its key.
Open(t) ==
    /\ t # form.topic /\ Act
    /\ form' = [NoForm EXCEPT !.topic = t, !.typed = Initial(t), !.foreign = stale[t]]
    /\ Unmounted
    /\ Shown(t)
    /\ UNCHANGED <<server, cached, stale>>

Edit(f, v) ==
    /\ form.topic # None /\ f \in Field(form.topic) /\ v # form.typed[f] /\ Act
    /\ form' = [form EXCEPT !.typed[f] = v, !.edited = @ \cup {f}, !.saved = FALSE]
    /\ UNCHANGED <<server, cached, fetch, saves, stale>>

\* The fields of a request; a field that is not in it is None.
Payload ==
    LET t == form.topic
        typed == form.typed
    IN  [f \in Field(t) |-> IF typed[f] = None \/ (f = "username" /\ typed[f] = cached[t][f])
                            THEN None ELSE typed[f]]

Dirty ==
    /\ form.topic # None
    /\ \E f \in Field(form.topic) :
        form.typed[f] # None /\ form.typed[f] # cached[form.topic][f]

Pending == \E s \in saves : s.mine

Save ==
    /\ Dirty /\ ~Pending /\ Act
    /\ saves' = saves \cup {[topic |-> form.topic, body |-> Payload, mine |-> TRUE,
                             step |-> "sent", edited |-> form.edited,
                             foreign |-> form.foreign]}
    /\ UNCHANGED <<server, cached, fetch, form, stale>>

\* Fields fs of t are written on the server: whoever has read them does not know.
Wrote(t, fs, own) ==
    /\ stale' = [stale EXCEPT ![t] = @ \cup fs]
    /\ fetch' = IF fetch[t].step = "served" THEN [fetch EXCEPT ![t].missed = @ \cup fs] ELSE fetch
    /\ form' = IF form.topic = t /\ ~own THEN [form EXCEPT !.foreign = @ \cup fs] ELSE form

\* So do the saves under way.
Outdated(ss, t, fs) ==
    {IF s.topic = t THEN [s EXCEPT !.foreign = @ \cup fs] ELSE s : s \in ss}

\* The handlers set the fields that are given.
ServeSave(s) ==
    /\ s.step = "sent"
    /\ \/ LET t == s.topic
              after == [f \in Field(t) |->
                            IF s.body[f] = None THEN server[t][f] ELSE Normal(f, s.body[f])]
              fs == {f \in Field(t) : after[f] # server[t][f]}
          IN  /\ server' = [server EXCEPT ![t] = after]
              /\ Wrote(t, fs, s.mine)
              /\ saves' = Outdated(saves \ {s}, t, fs) \cup {[s EXCEPT !.step = "done"]}
       \/ /\ "fail" \in Enabled
          /\ saves' = (saves \ {s}) \cup {[s EXCEPT !.step = "refused"]}
          /\ UNCHANGED <<server, fetch, form, stale>>
    /\ UNCHANGED <<cached, acts>>

\* Slip for FormsSettle: the answer is not read again.
SlipSaveArrives(s) ==
    /\ s.step = "done"
    /\ saves' = Closing(s, saves \ {s})
    /\ form' = IF Closes(s) THEN NoForm ELSE IF ~s.mine THEN form
               ELSE [form EXCEPT !.typed = IF s.topic \in Chosen THEN Unchosen(s.topic) ELSE @,
                                 !.saved = form.typed = [f \in Field(s.topic) |-> s.body[f]]]
    /\ UNCHANGED <<server, cached, fetch, stale, acts>>

\* A choice is forgotten, also one that was made since.
SaveArrives(s) ==
    /\ s.step = "done"
    /\ saves' = Closing(s, saves \ {s})
    /\ form' = IF Closes(s) THEN NoForm ELSE IF ~s.mine THEN form
               ELSE [form EXCEPT !.typed = IF s.topic \in Chosen THEN Unchosen(s.topic) ELSE @,
                                 !.saved = form.typed = [f \in Field(s.topic) |-> s.body[f]]]
    /\ Invalidate(IF s.topic \in Chosen THEN Topic ELSE Together(s.topic))
    /\ UNCHANGED <<server, cached, stale, acts>>

\* The message is shown, and the form stays as it is.
SaveFails(s) ==
    /\ s.step = "refused" \/ ("lose" \in Enabled /\ s.step = "done")
    /\ saves' = saves \ {s}
    /\ UNCHANGED <<server, cached, fetch, form, stale, acts>>

\* Another administrator.
Elsewhere(t, f, v) ==
    /\ "elsewhere" \in Enabled /\ v # server[t][f] /\ Act
    /\ server' = [server EXCEPT ![t][f] = v]
    /\ Wrote(t, {f}, FALSE)
    /\ saves' = Outdated(saves, t, {f})
    /\ UNCHANGED cached

-----------------------------------------------------------------------------
AtFirst(t, size) ==
    [f \in Field(t) |-> CASE f = "size" -> size [] f \in {"guard", "admin"} -> FALSE
                          [] OTHER -> "a"]

Init ==
    /\ \E size \in Size : server = [t \in Topic |-> AtFirst(t, size)]
    /\ cached = server
    /\ fetch = [t \in Topic |-> NoFetch]
    /\ form = NoForm
    /\ saves = {}
    /\ stale = [t \in Topic |-> {}]
    /\ acts = 0

Next ==
    \/ \E t \in Topic :
        \/ ServeRead(t) \/ ReadArrives(t) \/ ReadFails(t) \/ Open(t)
        \/ \E f \in Field(t) : \E v \in Stored(f) : Elsewhere(t, f, v)
    \/ form.topic # None /\ \E f \in Field(form.topic) : \E v \in Value(f) : Edit(f, v)
    \/ Save
    \/ \E s \in saves : ServeSave(s) \/ SaveArrives(s) \/ SaveFails(s)

Spec == Init /\ [][Next]_vars

-----------------------------------------------------------------------------
(* Properties *)

\* SystemPanel.tsx:54, UsersPanel.tsx:192: the forms send fields nobody touched.  What is
\* on the server changes by that only as the display of a size rounds, or where the server
\* was written since the form was filled: by others, or by a form of this tab that is gone.
UntouchedStays ==
    [][\A s \in saves : ServeSave(s) =>
        \A f \in Field(s.topic) : server'[s.topic][f] # server[s.topic][f] =>
            \/ f \in s.edited \cup s.foreign
            \/ f = "size" /\ server'[s.topic][f] = Displayed(server[s.topic][f])]_vars

\* SystemPanel.tsx:63: what was saved and read again is not offered to be saved once more,
\* unless others wrote it, the server keeps the proxies in another form than was typed, or
\* the reading failed.
NothingLeftToSave ==
    form.saved /\ ~Pending /\ fetch[form.topic].step = "idle" /\ form.foreign = {}
        => ~Dirty \/ \E f \in Field(form.topic) : form.typed[f] # Normal(f, form.typed[f])

\* format.ts:3: a size that is displayed and read back is off by less than a hundredth part,
\* and does not move when that is done again.  (The samples are looked at once.)
SizesSettle ==
    acts = 0 => \A n \in Samples :
        LET m == Displayed(n)
        IN  /\ 100 * m < 101 * n /\ 99 * n < 100 * m
            /\ m < UnitSize[Top] => Displayed(m) = m
=============================================================================
