----------------------------- MODULE Preferences -----------------------------
(***************************************************************************)
(* The user's preferences (src/src/snowlink/config.py) and their copies:   *)
(* the file, the one MainWindow, the share controller and the View page    *)
(* hold, the one of the Settings page and the fields of its form           *)
(* (ui/pages/settings.py, ui/main_window.py, ui/share_controller.py,       *)
(* ui/pages/view.py), and what a share listens on and Home shows of it.    *)
(*                                                                         *)
(* Of the fields, pick stands for those chosen from a list of what the     *)
(* machine has (adapter, address, screen, sound device), port for those    *)
(* typed; the window's size and place and the address of the other         *)
(* computer, which whoever uses it last writes, ride along and are left    *)
(* out.  The file is replaced as a whole (tmp.replace): a crash leaves the *)
(* old one or the new one.                                                 *)
(***************************************************************************)
EXTENDS Naturals

VARIABLES
  app,        \* closed or open
  stored,     \* config.toml, as a launch would load it
  prefs,      \* _prefs of MainWindow, which the share controller and View hold too
  own,        \* _prefs of SettingsPage
  same,       \* own and prefs are one object, as after a save
  form,       \* the fields of the Settings page
  listening,  \* address and port of the running share
  home,       \* address and port on the Home page
  saved,      \* what Settings last said it has written
  redialed    \* Reconnect was used since

prefVars == <<app, stored, prefs, own, same, form, listening, home, saved, redialed>>

Picks == {"first", "second", "none"}   \* none: nothing was ever picked
Ports == {"default", "other"}
Preference == [pick : Picks, port : Ports]
NotSharing == [pick |-> "off", port |-> "off"]
Defaults == [pick |-> "none", port |-> "default"]

PrefTypeOK ==
  /\ app \in {"closed", "open"} /\ stored \in Preference /\ prefs \in Preference
  /\ own \in Preference /\ same \in BOOLEAN /\ form \in Preference
  /\ listening \in Preference \cup {NotSharing} /\ home \in Preference
  /\ saved \in Preference /\ redialed \in BOOLEAN

AsSaved(p) == p.pick = saved.pick /\ (p.port = saved.port \/ redialed)

PrefInit ==
  /\ app = "closed" /\ stored = Defaults /\ prefs = Defaults /\ own = Defaults /\ same = FALSE
  /\ form = Defaults /\ listening = NotSharing /\ home = Defaults
  /\ saved = Defaults /\ redialed = FALSE

\* refresh_devices() lists what the machine has now, found, and selects the first;
\* _apply_to_form() selects the item the preferences name, and without it the name of its
\* adapter, the preferred one or the first: any.
Selected(p, found) ==
  IF p.pick \in found THEN {p.pick} ELSE IF found = {} THEN {"none"} ELSE found
Filled(p, found) == {[p EXCEPT !.pick = i] : i \in Selected(p, found)}
Listed == SUBSET {"first", "second"}

\* MainWindow and SettingsPage each load the file.
Launch ==
  /\ app = "closed" /\ app' = "open"
  /\ prefs' = stored /\ own' = stored /\ same' = FALSE
  /\ \E found \in Listed : form' \in Filled(stored, found)
  /\ listening' = NotSharing /\ home' = stored
  /\ UNCHANGED <<stored, saved, redialed>>

Edit ==
  /\ app = "open"
  /\ \/ \E i \in {"first", "second"} : form' = [form EXCEPT !.pick = i]
     \/ \E p \in Ports : form' = [form EXCEPT !.port = p]
  /\ UNCHANGED <<app, stored, prefs, own, same, listening, home, saved, redialed>>

\* "Refresh adapters / devices" alone does not apply the preferences again.
Refresh ==
  /\ app = "open"
  /\ \E found \in Listed, i \in Picks :
       i \in Selected(Defaults, found) /\ form' = [form EXCEPT !.pick = i]
  /\ UNCHANGED <<app, stored, prefs, own, same, listening, home, saved, redialed>>

Reload ==
  /\ app = "open" /\ own' = stored /\ same' = FALSE
  /\ \E found \in Listed : form' \in Filled(stored, found)
  /\ UNCHANGED <<app, stored, prefs, listening, home, saved, redialed>>

\* What _collect() reads, written by save_preferences().
Written ==
  /\ app = "open" /\ own' = form /\ stored' = form /\ saved' = form /\ redialed' = FALSE
  /\ UNCHANGED <<app, form, listening>>

\* Mutation: the window is not told.
SaveQuietly == Written /\ same' = FALSE /\ UNCHANGED <<prefs, home>>
\* _save() and _on_prefs_changed(): everybody holds the page's object from now on.
Save == Written /\ prefs' = form /\ same' = TRUE /\ home' = form
\* save_preferences() raises: only the page's copy has changed.
SaveFails ==
  /\ app = "open" /\ own' = form /\ same' = FALSE
  /\ UNCHANGED <<app, stored, prefs, form, listening, home, saved, redialed>>

\* Whoever holds the object sees the change.
Assign(p) == prefs' = p /\ own' = IF same THEN p ELSE own

\* _reconnect_from_history() sets the port of the entry for this computer, too.
Reconnect ==
  /\ app = "open" /\ redialed' = TRUE /\ \E p \in Ports : Assign([prefs EXCEPT !.port = p])
  /\ UNCHANGED <<app, stored, same, form, listening, home, saved>>

\* start_sharing() reads its preferences once; without an address picked, or found, it
\* fails.  Home shows them, and what the share reports.
StartShare ==
  /\ app = "open" /\ listening = NotSharing
  /\ listening' = prefs /\ home' = prefs
  /\ UNCHANGED <<app, stored, prefs, own, same, form, saved, redialed>>
ShareReports ==
  /\ app = "open" /\ listening # NotSharing /\ home' = listening
  /\ UNCHANGED <<app, stored, prefs, own, same, form, listening, saved, redialed>>
ShareOver ==
  /\ app = "open" /\ listening # NotSharing /\ listening' = NotSharing /\ home' = prefs
  /\ UNCHANGED <<app, stored, prefs, own, same, form, saved, redialed>>

\* _persist_preferences(), whose failures nobody sees.
Exit ==
  /\ app = "open" /\ app' = "closed" /\ stored' \in {stored, prefs} /\ listening' = NotSharing
  /\ UNCHANGED <<prefs, own, same, form, home, saved, redialed>>
Crash ==
  /\ app = "open" /\ app' = "closed" /\ listening' = NotSharing
  /\ UNCHANGED <<stored, prefs, own, same, form, home, saved, redialed>>

PrefNext ==
  \/ Launch \/ Edit \/ Refresh \/ Reload \/ Save \/ SaveFails \/ Reconnect
  \/ StartShare \/ ShareReports \/ ShareOver \/ Exit \/ Crash

PrefSpec == PrefInit /\ [][PrefNext]_prefVars

-----------------------------------------------------------------------------
\* What Settings has said it saved is what the next launch loads and what a share listens
\* on, although three copies of it exist, two of which are written to the file, and
\* however the program ended; but for the port, once Reconnect has changed it.
SavedSurvives ==
  [][/\ app = "closed" /\ app' = "open" => AsSaved(prefs')
     /\ listening = NotSharing /\ listening' # NotSharing => AsSaved(listening')]_prefVars

\* Claimed by settings.py:46, refuted by TLC: a port saved while a share waits is shown on
\* Home at once, though the share goes on listening on its own.
HomeTrue == listening # NotSharing => home = listening
\* Claimed by main_window.py:164, refuted by TLC: Reconnect sets the port of the next share.
SettingsDecides ==
  [][listening = NotSharing /\ listening' # NotSharing => listening'.port = saved.port]_prefVars
=============================================================================
