------------------------------- MODULE Converter -------------------------------
(***************************************************************************)
(* The account converter of the redeem page (web/src/lib/converter.ts and  *)
(* ConvertTab in web/src/pages/redeem.tsx).  It runs in the browser alone: *)
(* a text is parsed as JSON or as one JSON value per line, every account   *)
(* is rewritten for sub2api, and the result is downloaded in one of three  *)
(* forms.                                                                  *)
(*                                                                         *)
(* A JSON value is a record: its type and its entries, a function from the *)
(* keys of an object (or the positions of an array) to fields.  A field is *)
(* what String makes of it and what it holds: objects may be nested, and   *)
(* are copied whole.  A text is the value it is as a whole and the values  *)
(* of its lines, of type "invalid" where JSON.parse throws and "blank" for *)
(* an empty line.                                                          *)
(***************************************************************************)
EXTENDS Naturals, FiniteSets, SequencesExt, Lists

CONSTANTS
  ConvTexts,   \* texts the user may enter: [blank, huge, root, lines]
  JwtClaims,   \* claims of the access tokens that decode, by token
  ValidDates   \* texts Date can read

ASSUME ConverterAssumption ==
  \A text \in ConvTexts : /\ text.lines \in Seq(ToSet(text.lines))
                         /\ text.root.items \in Seq(ToSet(text.root.items))

VARIABLES
  conv,        \* the state of ConvertTab
  convReads,   \* files being read
  convJobs     \* archives being generated

convVars == <<conv, convReads, convJobs>>

TokenKeys == {"access_token", "id_token", "refresh_token"}
ConvFormats == {"single_zip", "merged_zip", "merged_json"}

-----------------------------------------------------------------------------
(* Parsing.                                                                *)

\* typeof v === "object" && v !== null, which arrays satisfy too.
IsObject(value) == value.type \in {"object", "array"}

Refused == [accounts |-> <<>>, format |-> "none"]
Entries(values) == [i \in DOMAIN values |-> values[i].entries]

ParseRoot(root) ==
  CASE root.type = "array" /\ root.items # <<>> /\ \A v \in ToSet(root.items) : IsObject(v)
         -> [accounts |-> Entries(root.items), format |-> "JSON array"]
    [] root.type = "object" -> [accounts |-> <<root.entries>>, format |-> "JSON object"]
    [] OTHER -> Refused

ParseLines(lines) ==
  LET filled == Picked(lines, {n \in DOMAIN lines : lines[n].type # "blank"})
  IN IF filled # <<>> /\ \A line \in ToSet(filled) : IsObject(line)
     THEN [accounts |-> Entries(filled), format |-> "JSONL"]
     ELSE Refused

\* Only a text that is not JSON as a whole is read line by line.
detectAndParse(text) ==
  CASE text.blank \/ text.huge -> Refused
    [] ~text.blank /\ ~text.huge /\ text.root.type # "invalid" -> ParseRoot(text.root)
    [] OTHER -> ParseLines(text.lines)

-----------------------------------------------------------------------------
(* Conversion.                                                             *)

StringField(text) == [type |-> "string", text |-> text, inner |-> <<>>]
NullField == [type |-> "null", text |-> "", inner |-> <<>>]
ObjectField(entries) == [type |-> "object", text |-> "[object Object]", inner |-> entries]

\* String(cpa[key] ?? "").
FieldOf(cpa, key) == IF key \in DOMAIN cpa THEN cpa[key].text ELSE ""

decodeJWT(token) == IF token \in DOMAIN JwtClaims THEN JwtClaims[token] ELSE <<>>

parseExpired(expired) == IF expired \in ValidDates THEN expired ELSE "null"

FirstOf(value, other) == IF value # "" THEN value ELSE other

\* The keys whose fields the loop copies into extra, with all they hold.
ExtraKeys(cpa) == DOMAIN cpa \ TokenKeys

\* One account of sub2api.  Its name carries the time, and the index when there
\* is no address; extra may be overwritten by keys of the source.
convertOne(cpa, index) ==
  LET jwt == decodeJWT(FieldOf(cpa, "access_token"))
      email == FirstOf(FieldOf(cpa, "email"), FieldOf(jwt, "email"))
      own == [email |-> StringField(email), converted_from |-> StringField("cpa")]
  IN [name |-> FirstOf(FieldOf(cpa, "email"), ToString(index)),
      credentials |-> [access_token |-> FieldOf(cpa, "access_token"),
                       id_token |-> FieldOf(cpa, "id_token"),
                       refresh_token |-> FieldOf(cpa, "refresh_token"),
                       chatgpt_account_id |-> FieldOf(cpa, "account_id"),
                       chatgpt_user_id |-> FieldOf(jwt, "chatgpt_user_id"),
                       client_id |-> FieldOf(jwt, "client_id"),
                       email |-> email,
                       expires_at |-> parseExpired(FieldOf(cpa, "expired")),
                       plan_type |-> FirstOf(FieldOf(cpa, "plan_type"),
                                             FieldOf(jwt, "chatgpt_plan_type"))],
      extra |-> [k \in ExtraKeys(cpa) \cup DOMAIN own |->
                   IF k \in ExtraKeys(cpa) THEN cpa[k] ELSE own[k]]]

convertAll(accounts) == [i \in DOMAIN accounts |-> convertOne(accounts[i], i)]

\* An address that is no string does not name a file.
Identifier(cpa) ==
  IF "email" \in DOMAIN cpa /\ cpa["email"].type = "string"
  THEN FirstOf(cpa["email"].text, "account") ELSE "account"

\* Faulty variant: the file is named after the account alone.
SingleName_NoNumber(accounts, i) == Identifier(accounts[i])

\* The name of the file of one account; its number tells equal addresses apart.
SingleName(accounts, i) == <<i, Identifier(accounts[i])>>

\* A file is a function from names to the accounts under that name.  JSZip keeps
\* the last of several files with one name.
createSingleZip(accounts) ==
  LET named(n) == {i \in DOMAIN accounts : SingleName(accounts, i) = n}
  IN [n \in {SingleName(accounts, i) : i \in DOMAIN accounts}
        |-> <<convertAll(accounts)[Max(named(n))]>>]

\* createMergedZip and createMergedJson put all accounts into one file.
buildMerged(accounts) == [n \in {"sub2api_merged"} |-> convertAll(accounts)]

ConvertedFile(format, accounts) ==
  IF format = "single_zip" THEN createSingleZip(accounts) ELSE buildMerged(accounts)

-----------------------------------------------------------------------------
(* The form.                                                               *)

JsonValue(type, entries, items) == [type |-> type, entries |-> entries, items |-> items]
EmptyText == [blank |-> TRUE, huge |-> FALSE, root |-> JsonValue("invalid", <<>>, <<>>),
              lines |-> <<>>]

NoPreview == [format |-> "none", total |-> 0]

FreshConvert == [text |-> EmptyText, format |-> "single_zip", preview |-> NoPreview,
                 loading |-> FALSE, error |-> FALSE]

ConvertInit == conv = FreshConvert /\ convReads = <<>> /\ convJobs = <<>>

\* Typing, or pasting: neither touches the preview of the text before.
EnterText(text) ==
  /\ conv' = [conv EXCEPT !.text = text]
  /\ UNCHANGED <<convReads, convJobs>>

PasteRefused ==
  /\ conv' = [conv EXCEPT !.error = TRUE]
  /\ UNCHANGED <<convReads, convJobs>>

\* handleFileChange and handleDrop start a FileReader.
ChooseFile(text) ==
  /\ convReads = <<>>
  /\ convReads' = <<text>>
  /\ UNCHANGED <<conv, convJobs>>

\* onload; or onerror, which a dropped file does not have.
FileRead ==
  /\ convReads # <<>>
  /\ conv' \in {[conv EXCEPT !.text = convReads[1]], [conv EXCEPT !.error = TRUE], conv}
  /\ convReads' = <<>>
  /\ UNCHANGED convJobs

detect ==
  LET parsed == detectAndParse(conv.text)
      found == parsed # Refused
  IN /\ conv' = [conv EXCEPT !.error = ~found /\ ~conv.text.blank,
                             !.preview = IF found THEN [format |-> parsed.format,
                                                        total |-> Len(parsed.accounts)]
                                                  ELSE NoPreview]
     /\ UNCHANGED <<convReads, convJobs>>

ChooseFormat(format) ==
  /\ conv' = [conv EXCEPT !.format = format]
  /\ UNCHANGED <<convReads, convJobs>>

\* handleDownload.  The button needs a preview, and the text is parsed again:
\* it may have changed since.
handleDownload ==
  LET parsed == detectAndParse(conv.text)
  IN /\ ~conv.loading /\ conv.preview # NoPreview
     /\ \/ /\ parsed = Refused
           /\ conv' = [conv EXCEPT !.error = TRUE]
           /\ UNCHANGED convJobs
        \/ /\ parsed # Refused
           /\ conv' = [conv EXCEPT !.loading = TRUE, !.error = FALSE]
           /\ convJobs' = <<[accounts |-> parsed.accounts, mounted |-> TRUE,
                             file |-> ConvertedFile(conv.format, parsed.accounts)]>>
     /\ UNCHANGED convReads

\* triggerDownload, or a failure of the archive; loading ends in both cases.
ConversionEnds ==
  /\ convJobs # <<>>
  /\ \E failed \in BOOLEAN :
       conv' = IF convJobs[1].mounted
               THEN [conv EXCEPT !.loading = FALSE, !.error = @ \/ failed]
               ELSE conv
  /\ convJobs' = <<>>
  /\ UNCHANGED convReads

\* The panel is hidden and shown again: a new ConvertTab; the archive goes on.
RemountConvert ==
  /\ conv' = FreshConvert
  /\ convReads' = <<>>
  /\ convJobs' = [i \in DOMAIN convJobs |-> [convJobs[i] EXCEPT !.mounted = FALSE]]

ConvertNext ==
  \/ \E text \in ConvTexts : EnterText(text) \/ ChooseFile(text)
  \/ PasteRefused \/ FileRead \/ detect
  \/ \E format \in ConvFormats : ChooseFormat(format)
  \/ convJobs = <<>> /\ handleDownload
  \/ ConversionEnds \/ RemountConvert

-----------------------------------------------------------------------------
(* Properties.                                                             *)

PlacesIn(file) == UNION {{<<n, k>> : k \in DOMAIN file[n]} : n \in DOMAIN file}

\* A download holds as many accounts as the text had when the button was pressed,
\* also when several accounts have the same address: no file of the archive
\* replaces another.
NoAccountDropped ==
  \A job \in ToSet(convJobs) : Cardinality(PlacesIn(job.file)) = Len(job.accounts)

=============================================================================
