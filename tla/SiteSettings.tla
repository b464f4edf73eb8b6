----------------------------- MODULE SiteSettings -----------------------------
(***************************************************************************)
(* The site settings of the web client: SiteSettingsProvider, which loads  *)
(* them once for the whole application, and SiteSettingsPage, whose form   *)
(* saves a title and a logo (web/src/pages/admin/site-settings.tsx).       *)
(*                                                                         *)
(* Settings are a version and whether they have a logo; every update of    *)
(* the row makes a new version (updated_at).  The form is keyed by it: new *)
(* settings mount a new form.  Leaving the page unmounts the form, but not *)
(* the handler that waits for an answer.                                   *)
(***************************************************************************)
EXTENDS Naturals, SequencesExt

CONSTANTS
  LogoFiles,     \* files the administrator may choose
  BadFiles,      \* the ones validateLogo refuses
  NoLogo,        \* no file chosen
  MaxVersion,    \* bound: versions of the settings
  MaxChecks      \* bound: validations on their way

ASSUME SiteSettingsAssumption ==
  BadFiles \subseteq LogoFiles /\ NoLogo \notin LogoFiles /\ MaxVersion \in Nat \ {0}

VARIABLES
  site,          \* the provider: settings and status
  siteForm,      \* the state of SiteSettingsForm, or that it is not mounted
  siteChecks,    \* validations of chosen files on their way
  siteNet,       \* calls in flight
  siteRow,       \* the row of the site_settings table
  siteChoice     \* the file chosen last and not withdrawn since

siteVars == <<site, siteForm, siteChecks, siteNet, siteRow, siteChoice>>

Settings(version, logo) == [version |-> version, has_logo |-> logo]
DefaultSettings == Settings(0, FALSE)

SettingsForm(mounted) ==
  [mounted |-> mounted, title |-> "same", logoFile |-> NoLogo, removeLogo |-> FALSE,
   saving |-> FALSE, error |-> FALSE]

SiteCall(op, logo, remove, mounted) ==
  [op |-> op, logo |-> logo, remove |-> remove, mine |-> mounted,
   done |-> FALSE, answer |-> DefaultSettings]

SiteInit ==
  /\ site = [settings |-> DefaultSettings, status |-> "loading"]
  /\ siteForm = SettingsForm(FALSE)
  /\ siteChecks = <<>>
  /\ siteNet = <<SiteCall("load", NoLogo, FALSE, FALSE)>>
  /\ siteRow \in {Settings(1, logo) : logo \in BOOLEAN}
  /\ siteChoice = NoLogo

\* What an unmounted form leaves behind: its handlers set no state any more.
Orphaned(net) == [i \in DOMAIN net |-> [net[i] EXCEPT !.mine = FALSE]]

-----------------------------------------------------------------------------
(* The provider.                                                           *)

\* refresh() from the alert of the page.
refresh ==
  /\ site.status = "error"
  /\ site' = [site EXCEPT !.status = "loading"]
  /\ siteNet' = Append(siteNet, SiteCall("load", NoLogo, FALSE, FALSE))
  /\ UNCHANGED <<siteForm, siteChecks, siteRow, siteChoice>>

\* refresh or replaceSettings puts settings into the provider: a new version, and
\* with it a new form.
TakeSettings(settings, net) ==
  /\ site' = [settings |-> settings, status |-> "ready"]
  /\ siteForm' = SettingsForm(siteForm.mounted)
  /\ siteChecks' = <<>>
  /\ siteChoice' = NoLogo
  /\ siteNet' = Orphaned(net)

\* Faulty variant: the form does not wait for the settings.
OpenForm_Anytime ==
  /\ ~siteForm.mounted
  /\ siteForm' = SettingsForm(TRUE)
  /\ UNCHANGED <<site, siteChecks, siteNet, siteRow, siteChoice>>

\* The page is opened; it shows the form only when the settings are there.
OpenForm ==
  /\ ~siteForm.mounted /\ site.status = "ready"
  /\ siteForm' = SettingsForm(TRUE)
  /\ UNCHANGED <<site, siteChecks, siteNet, siteRow, siteChoice>>

LeaveForm ==
  /\ siteForm.mounted
  /\ siteForm' = SettingsForm(FALSE)
  /\ siteChecks' = <<>>
  /\ siteNet' = Orphaned(siteNet)
  /\ siteChoice' = NoLogo
  /\ UNCHANGED <<site, siteRow>>

-----------------------------------------------------------------------------
(* The form; a fieldset disables all of it while saving.                   *)

FormReady == siteForm.mounted /\ ~siteForm.saving

EditTitle(title) ==
  /\ FormReady
  /\ siteForm' = [siteForm EXCEPT !.title = title]
  /\ UNCHANGED <<site, siteChecks, siteNet, siteRow, siteChoice>>

\* fileValidationTokenRef.current += 1: what is being validated is out of date.
Withdrawn(checks) == [i \in DOMAIN checks |-> [checks[i] EXCEPT !.current = FALSE]]

\* handleFileChange up to the validation.
ChooseLogo(file) ==
  /\ FormReady /\ Len(siteChecks) < MaxChecks
  /\ siteForm' = [siteForm EXCEPT !.error = FALSE]
  /\ siteChecks' = Append(Withdrawn(siteChecks), [file |-> file, current |-> TRUE])
  /\ siteChoice' = file
  /\ UNCHANGED <<site, siteNet, siteRow>>

\* Faulty variant: the token is not compared.
StillCurrent_Always(check) == TRUE

StillCurrent(check) == check.current

\* Choosing a file undoes the removal of the logo.
UseLogo(form, file) == [form EXCEPT !.logoFile = file, !.removeLogo = FALSE]

\* handleFileChange after the validation; validations end in any order.
LogoChecked(i) ==
  LET check == siteChecks[i]
  IN /\ siteForm' = CASE ~StillCurrent(check) -> siteForm
                      [] StillCurrent(check) /\ check.file \in BadFiles
                           -> [siteForm EXCEPT !.error = TRUE]
                      [] OTHER -> UseLogo(siteForm, check.file)
     /\ siteChecks' = RemoveAt(siteChecks, i)
     /\ UNCHANGED <<site, siteNet, siteRow, siteChoice>>

handleRemoveLogo ==
  /\ FormReady
  /\ siteForm.logoFile # NoLogo \/ (site.settings.has_logo /\ ~siteForm.removeLogo)
  /\ siteForm' = IF siteForm.logoFile # NoLogo
                 THEN [siteForm EXCEPT !.error = FALSE, !.logoFile = NoLogo]
                 ELSE [siteForm EXCEPT !.error = FALSE, !.removeLogo = TRUE]
  /\ siteChecks' = Withdrawn(siteChecks)
  /\ siteChoice' = NoLogo
  /\ UNCHANGED <<site, siteNet, siteRow>>

UndoRemoval ==
  /\ FormReady /\ siteForm.removeLogo
  /\ siteForm' = [siteForm EXCEPT !.removeLogo = FALSE]
  /\ UNCHANGED <<site, siteChecks, siteNet, siteRow, siteChoice>>

hasChanges ==
  siteForm.title = "changed" \/ siteForm.logoFile # NoLogo \/ siteForm.removeLogo

\* handleSubmit up to the call; its own checks repeat those of the button.
SaveSettings ==
  /\ FormReady /\ hasChanges /\ siteForm.title # "invalid"
  /\ siteRow.version + Len(siteNet) < MaxVersion
  /\ siteForm' = [siteForm EXCEPT !.saving = TRUE, !.error = FALSE]
  /\ siteChecks' = Withdrawn(siteChecks)
  /\ siteChoice' = NoLogo
  /\ siteNet' = Append(siteNet, SiteCall("save", siteForm.logoFile, siteForm.removeLogo, TRUE))
  /\ UNCHANGED <<site, siteRow>>

-----------------------------------------------------------------------------
(* Calls on their way.                                                     *)

\* SiteSettingsHandler.Get and Update.  A file and its removal together are refused.
BothLogo(call) == call.logo # NoLogo /\ call.remove

ServeSite(i) ==
  LET call == siteNet[i]
      logo == (siteRow.has_logo \/ call.logo # NoLogo) /\ ~call.remove
      next == IF call.op = "save" THEN Settings(siteRow.version + 1, logo) ELSE siteRow
  IN /\ ~call.done /\ ~BothLogo(call)
     /\ siteRow' = next
     /\ siteNet' = [siteNet EXCEPT ![i].done = TRUE, ![i].answer = next]
     /\ UNCHANGED <<site, siteForm, siteChecks, siteChoice>>

SiteAnswered(i) ==
  /\ siteNet[i].done
  /\ TakeSettings(siteNet[i].answer, RemoveAt(siteNet, i))
  /\ UNCHANGED siteRow

\* A call fails, executed or not.
SiteFails(i) ==
  LET call == siteNet[i]
  IN /\ siteNet' = RemoveAt(siteNet, i)
     /\ site' = IF call.op = "load" THEN [site EXCEPT !.status = "error"] ELSE site
     /\ siteForm' = IF call.mine THEN [siteForm EXCEPT !.error = TRUE, !.saving = FALSE]
                                 ELSE siteForm
     /\ UNCHANGED <<siteChecks, siteRow, siteChoice>>

SiteNext ==
  \/ refresh \/ OpenForm \/ LeaveForm
  \/ \E title \in {"same", "changed", "invalid"} : EditTitle(title)
  \/ \E file \in LogoFiles : ChooseLogo(file)
  \/ \E i \in DOMAIN siteChecks : LogoChecked(i)
  \/ handleRemoveLogo \/ UndoRemoval \/ SaveSettings
  \/ \E i \in DOMAIN siteNet : ServeSite(i) \/ SiteAnswered(i) \/ SiteFails(i)

-----------------------------------------------------------------------------
(* Properties.                                                             *)

Saves(net) == Cardinality({i \in DOMAIN net : net[i].op = "save"})

\* The settings shown never go back to an older version because of a load: only
\* the late answer of a save that another save overtook can do that (the form of
\* one save was left and opened again before the answer).  No load is on its way
\* once a form can be used.
LoadNeverReverts ==
  [][site'.settings.version < site.settings.version => Saves(siteNet') < Saves(siteNet)]_siteVars

\* A file only becomes the logo to be saved when it is the last one chosen and
\* was not withdrawn by removing the logo, saving or leaving the form: the
\* validation of an earlier choice may end later (fileValidationTokenRef).
LastChoiceWins ==
  [][siteForm'.logoFile \in {siteForm.logoFile, NoLogo, siteChoice}]_siteVars

=============================================================================
