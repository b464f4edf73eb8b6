------------------------------ MODULE WebClient ------------------------------
(***************************************************************************)
(* The pages of the web client under the routes of web/src/App.tsx.  A tab *)
(* shows one of them at a time.  They share no state in the browser but    *)
(* the cookies and the site settings, whose modules have the tabs and the  *)
(* form that meet there, and each reaches rows of its own on the server:   *)
(* so the client is one of its pages, any of them, from the moment it is   *)
(* opened.                                                                 *)
(***************************************************************************)
EXTENDS RedeemPage, Converter, CredentialsPage, SiteSettings, FaqPage, BatchPages,
        BatchNewPage, LogsPage, AdminSession

CONSTANT Routes     \* the routes that may be opened

ASSUME RoutesAssumption ==
  Routes \subseteq {"redeem", "convert", "credentials", "settings", "faq", "batches",
                    "batches/new", "logs", "login"}

VARIABLE route      \* the route the tab has opened

clientVars == <<route, redeemVars, convVars, credVars, siteVars, faqVars, batchVars, newVars,
                logsVars, sessionVars>>

\* What a page that is not opened would find matters to nobody: one way is enough.
ClientInit ==
  /\ route \in Routes
  /\ RedeemInit /\ ConvertInit /\ CredentialsInit /\ SiteInit /\ FaqInit
  /\ BatchPagesInit /\ BatchNewInit /\ LogsInit /\ AdminSessionInit
  /\ route = "redeem" \/ redeemPage.canStore
  /\ route = "settings" \/ siteRow.has_logo
  /\ route = "batches/new" \/ newStock.level = 0
  /\ route = "logs" \/ \A id \in LogIds : logStatus[id] = "failed"

\* What the other pages hold does not change.
But(others) == UNCHANGED <<route, others>>

ClientNext ==
  \/ /\ route = "redeem" /\ RedeemNext
     /\ But(<<convVars, credVars, siteVars, faqVars, batchVars, newVars, logsVars, sessionVars>>)
  \/ /\ route = "convert" /\ ConvertNext
     /\ But(<<redeemVars, credVars, siteVars, faqVars, batchVars, newVars, logsVars, sessionVars>>)
  \/ /\ route = "credentials" /\ CredentialsNext
     /\ But(<<redeemVars, convVars, siteVars, faqVars, batchVars, newVars, logsVars, sessionVars>>)
  \/ /\ route = "settings" /\ SiteNext
     /\ But(<<redeemVars, convVars, credVars, faqVars, batchVars, newVars, logsVars, sessionVars>>)
  \/ /\ route = "faq" /\ FaqNext
     /\ But(<<redeemVars, convVars, credVars, siteVars, batchVars, newVars, logsVars, sessionVars>>)
  \/ /\ route = "batches" /\ BatchPagesNext
     /\ But(<<redeemVars, convVars, credVars, siteVars, faqVars, newVars, logsVars, sessionVars>>)
  \/ /\ route = "batches/new" /\ BatchNewNext
     /\ But(<<redeemVars, convVars, credVars, siteVars, faqVars, batchVars, logsVars, sessionVars>>)
  \/ /\ route = "logs" /\ LogsNext
     /\ But(<<redeemVars, convVars, credVars, siteVars, faqVars, batchVars, newVars, sessionVars>>)
  \/ /\ route = "login" /\ AdminSessionNext
     /\ But(<<redeemVars, convVars, credVars, siteVars, faqVars, batchVars, newVars, logsVars>>)

\* Nothing that is to happen fairly can happen in a page that was not opened.
ClientSpec ==
  ClientInit /\ [][ClientNext]_clientVars /\ RedeemFairness /\ AdminSessionFairness

-----------------------------------------------------------------------------
\* The shape of every page's state: calls in flight and values shown keep to what
\* the pages declare and to the limits of their lists.
ClientTypeOK ==
  /\ route \in Routes
  /\ RedeemTypeOK
  /\ conv.format \in ConvFormats /\ conv.error \in BOOLEAN /\ convReads \in Seq(ConvTexts)
  /\ credRows \subseteq CredIds /\ cred.selected \subseteq CredIds
  /\ siteRow.version \in 0..MaxVersion /\ siteForm.logoFile \in LogoFiles \union {NoLogo}
  /\ DOMAIN faqTable.rows \subseteq 1..faqTable.last /\ faq.form.text \in FaqTexts \union {BlankFaq}
  /\ batchRow.disabled \subseteq CodeIds /\ batchView.state \in CodeTabs
  /\ newForm.wrong \in Faults /\ newStock.level \in 0..MaxStock
  /\ logs.query.webhook \in LogFilters /\ logs.query.page \in Nat \ {0}
  /\ sessions \subseteq 1..lastSession
  /\ \A t \in Tabs : adminTab[t].view \in {"closed", "gate", "login", "admin"}

=============================================================================
