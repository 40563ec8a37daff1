------------------------------- MODULE Ingest -------------------------------
(***************************************************************************)
(* How the parser turns a subscription payload into a report               *)
(* (ingest_with_timestamp): lines, base64 bundles, Clash YAML and sing-box *)
(* JSON.  What one entry says is abstract here: the node it describes, or  *)
(* Bad.  A node is its functional identity, so entries that differ only in *)
(* their label describe the same node.                                     *)
(*                                                                         *)
(* A payload is [form, wrap, items]: what it is once base64 is undone,      *)
(* whether it comes in base64, and its lines or `proxies`.                 *)
(***************************************************************************)
EXTENDS Naturals, Sequences, SequencesExt

CONSTANTS
  Bad,           \* an entry that does not parse
  MaxEntries,    \* MAX_ENTRIES, 100 000 in the code
  MaxFailures    \* MAX_FAILURES, 10 000 in the code

Form == {"binary",    \* not UTF-8
         "lines",     \* text, one entry per line
         "clash",     \* YAML with a proxies list, one of its lines being just `proxies:`,
                      \* `proxy-groups:` or `rules:`
         "unmarked",  \* YAML with a proxies list and no such line: `proxies: [...]`
         "no proxies",\* YAML with such a line and no proxies list
         "singbox"}   \* JSON with outbounds or inbounds

Wrap == {"plain",     \* as it is
         "base64",
         "refused"}   \* base64 that decode_bundle refuses: more than 8 MiB once decoded, or
                      \* with a comment among its lines

\* A line: blank or a comment, a URI of a supported scheme, or other text.
Skipped  == [text |-> "skipped", node |-> Bad]
Other    == [text |-> "other", node |-> Bad]
Entry(n) == [text |-> "uri", node |-> n]    \* also an item of a proxies list

Line(nodes) == {Skipped, Other} \cup {Entry(n) : n \in nodes \cup {Bad}}
IsPayload(doc, nodes) == doc \in [form: Form, wrap: Wrap, items: Seq(Line(nodes))]

\* The lines as they arrive.  Base64, YAML and JSON show no supported scheme.
Surface(doc) ==
  IF doc.wrap = "plain" /\ doc.form \in {"lines", "binary"} THEN doc.items ELSE <<Other>>

CollectEntries(lines) ==
  LET upto[k \in 0..Len(lines)] ==
        IF k = 0 THEN <<>>
        ELSE IF lines[k].text = "skipped" THEN upto[k - 1] ELSE Append(upto[k - 1], lines[k])
  IN  upto[Len(lines)]
is_supported_scheme(l) == l.text = "uri"
AnySupported(lines) == \E i \in DOMAIN lines : is_supported_scheme(lines[i])

\* The report: entries scanned, nodes in order, duplicates, failures recorded.
EmptyReport == [scanned |-> 0, nodes |-> <<>>, duplicates |-> 0, failures |-> 0]

RecordFailure(r) ==
  [r EXCEPT !.failures = IF @ < MaxFailures THEN @ + 1 ELSE @]

\* One entry.  `seen` holds the nodes of the report: both begin empty.
Scan(r, entry) ==
  LET s == [r EXCEPT !.scanned = @ + 1] IN
  CASE entry.node = Bad               -> RecordFailure(s)
    [] entry.node \in ToSet(r.nodes)  -> [s EXCEPT !.duplicates = @ + 1]
    [] OTHER                          -> [s EXCEPT !.nodes = Append(@, entry.node)]

Take(entries) == SubSeq(entries, 1, IF Len(entries) < MaxEntries THEN Len(entries) ELSE MaxEntries)

ParseEntries(r, entries) ==
  LET taken == Take(entries)
      after[k \in 0..Len(taken)] == IF k = 0 THEN r ELSE Scan(after[k - 1], taken[k])
  IN  after[Len(taken)]

\* The containers: Clash documents have a parser, the others end in one failure.
DetectContainer(doc) == doc.form \in {"clash", "no proxies", "singbox"}
IngestContainer(doc) ==
  IF doc.form = "clash" THEN ParseEntries(EmptyReport, doc.items) ELSE RecordFailure(EmptyReport)

\* Mutant of Ingest: containers are looked for before base64 is undone, not after.
IngestRawOnly(doc) ==
  LET entries == CollectEntries(Surface(doc)) IN
  IF doc.form = "binary" /\ doc.wrap = "plain" THEN RecordFailure(EmptyReport)
  ELSE IF entries = <<>> \/ AnySupported(entries) THEN ParseEntries(EmptyReport, entries)
  ELSE IF DetectContainer(doc) /\ doc.wrap = "plain" THEN IngestContainer(doc)
  ELSE IF doc.wrap = "base64" /\ doc.form = "lines" /\ AnySupported(doc.items)
       THEN ParseEntries(EmptyReport, CollectEntries(doc.items))
  ELSE ParseEntries(RecordFailure(EmptyReport), entries)

\* With no supported scheme in sight the text may be a container, or base64 of
\* lines or of a container.  When it is neither, or decode_bundle refuses it, the
\* failure is recorded and the lines are parsed all the same.
Ingest(doc) ==
  LET entries == CollectEntries(Surface(doc)) IN
  IF doc.form = "binary" /\ doc.wrap = "plain" THEN RecordFailure(EmptyReport)
  ELSE IF entries = <<>> \/ AnySupported(entries) THEN ParseEntries(EmptyReport, entries)
  ELSE IF DetectContainer(doc) /\ doc.wrap # "refused" THEN IngestContainer(doc)
  ELSE IF doc.wrap = "base64" /\ doc.form = "lines" /\ AnySupported(doc.items)
       THEN ParseEntries(EmptyReport, CollectEntries(doc.items))
  ELSE ParseEntries(RecordFailure(EmptyReport), entries)

-----------------------------------------------------------------------------
(* What a report must say, stated without its control flow.                *)

\* What the code can read: decode_bundle has its limits, and a Clash document is
\* known by one of its lines.
Readable(doc) == doc.wrap # "refused" /\ doc.form \in {"lines", "clash"}

\* The entries a payload holds, however it is wrapped.
Content(doc) ==
  CASE doc.form = "lines"                 -> Take(CollectEntries(doc.items))
    [] doc.form \in {"clash", "unmarked"} -> Take(doc.items)
    [] OTHER                              -> <<>>

\* The nodes a payload describes within the limit.
Described(doc) == {e.node : e \in ToSet(Content(doc))} \ {Bad}
=============================================================================
