------------------------------ MODULE Markdown ------------------------------
(***************************************************************************)
(* Memories as Markdown (internal/cli/markdown.go, internal/importers/      *)
(* markdown.go): `dkm export --format md` writes a corpus as documents that *)
(* people read and edit, `dkm import markdown` makes memories of the        *)
(* sections of any documents.  A document is a sequence of lines and a line *)
(* is what the two programs tell apart; blank lines, which both trim, and   *)
(* wording are left out.                                                    *)
(***************************************************************************)
EXTENDS Naturals, FiniteSets, SequencesExt

CONSTANTS
  MaxProject, \* the projects are numbered in the order of their identities
  Clashing,   \* the projects that projectFilename gives one file name
  Here,       \* the project an import is made into
  Corpora,    \* corpora, as memories have been saved
  Documents,  \* documents people have written
  MaxTrips

ASSUME ProjectAssumption == MaxProject \in Nat /\ Clashing \subseteq 1 .. MaxProject /\ Here \in 1 .. MaxProject
ASSUME TripAssumption == MaxTrips \in Nat

VARIABLES
  library,  \* the memories of the user, oldest first
  docs,     \* the documents, by file
  exported, \* history: the memories that docs were written from, as read
  trips     \* how many imports may follow

markdownVars == <<library, docs, exported, trips>>

-----------------------------------------------------------------------------
(* Lines, documents and memories *)

\* A title has or has not an ADR number in front of its wording.
Text(t) == [is |-> "text", text |-> t]
Heading(l, t) == [is |-> "heading", level |-> l, text |-> t]
Fence == [is |-> "fence"]
Comment == [is |-> "comment"]   \* a whole one
Opening == [is |-> "opening"]   \* a comment that is not closed on its line
Banner == [is |-> "banner"]     \* dkm-export
Meta(r) == [is |-> "meta", kind |-> r.kind, visibility |-> r.visibility, files |-> r.files]

KindOrder == <<"lesson", "decision", "preference", "fact">>

\* A file of the export itself, which is what a memory without files is about
\* when it comes back.
ExportFile == "export"

\* The members of a set of numbers up to n, in order; and the lines at them.
Ascending(S, n) == SelectSeq([i \in 1 .. n |-> i], LAMBDA i : i \in S)
LinesAt(S, doc) ==
  LET at == Ascending(S, Len(doc)) IN [k \in 1 .. Len(at) |-> doc[at[k]]]

Where(l, doc) == {i \in 1 .. Len(doc) : doc[i].is = l}

\* The lines from which on a code block is open, with those that open and close.
FencedLines(doc) ==
  {i \in 1 .. Len(doc) :
     doc[i].is = "fence" \/ Cardinality({j \in Where("fence", doc) : j < i}) % 2 = 1}

Balanced(doc) == Cardinality(Where("fence", doc)) % 2 = 0

\* A memory is equal to another of its user when project, title and body are.
SameText(a, b) == a.project = b.project /\ a.title = b.title /\ a.body = b.body

-----------------------------------------------------------------------------
(* Export *)

\* BUG (a mutant of DemoteHeadings): headings stay as they are.
DemoteHeadingsNot(body) == body

\* Two levels down, below the ## that separates memories.
DemoteHeadings(body) ==
  LET fenced == FencedLines(body)
  IN  [i \in 1 .. Len(body) |->
         IF body[i].is = "heading" /\ i \notin fenced
         THEN [body[i] EXCEPT !.level = @ + 2] ELSE body[i]]

\* Nothing that the heading does not say.
Bare(r) == r.body = <<>> \/ r.body = <<Text(r.title)>>

RenderMemory(r) ==
  <<Heading(2, r.title)>> \o (IF Bare(r) THEN <<>> ELSE DemoteHeadings(r.body)) \o <<Meta(r)>>

\* By kind, and newest first within one.
Sorted(records) ==
  LET Of(k) == Reverse(SelectSeq(records, LAMBDA r : r.kind = k))
  IN  FlattenSeq([i \in 1 .. 4 |-> Of(KindOrder[i])])

ProjectTitle(p) == [adr |-> FALSE, name |-> "project"]

RenderMarkdown(p, records) ==
  <<Heading(1, ProjectTitle(p)), Banner, Text(ProjectTitle(p))>>
    \o LET sorted == Sorted(records)
       IN  FlattenSeq([i \in 1 .. Len(sorted) |-> RenderMemory(sorted[i])])

OfProject(p, records) == SelectSeq(records, LAMBDA r : r.project = p)
Projects(records) == {records[i].project : i \in 1 .. Len(records)}

ProjectFilename(p) == IF p \in Clashing THEN 0 ELSE p

\* One file per project, a later one over an earlier one of its name, and an index.
IndexTitle == [adr |-> FALSE, name |-> "index"]
Index == <<Heading(1, IndexTitle), Text(IndexTitle), Fence, Text(IndexTitle), Fence>>
IndexFile == "README"
Overwritten(records) ==
  {p \in Projects(records) : \E q \in Projects(records) : q > p /\ ProjectFilename(q) = ProjectFilename(p)}
WriteMarkdownExport(records) ==
  LET files == Projects(records) \ Overwritten(records)
  IN  {RenderMarkdown(p, OfProject(p, records)) : p \in files} \cup {Index}

\* One document, the projects one after the other.
ExportDocument(records) ==
  LET ps == Ascending(Projects(records), MaxProject)
  IN  {FlattenSeq([i \in 1 .. Len(ps) |-> RenderMarkdown(ps[i], OfProject(ps[i], records))])}

-----------------------------------------------------------------------------
(* Import *)

HeadingLevels(doc) ==
  LET fenced == FencedLines(doc)
  IN  [i \in 1 .. Len(doc) |->
         IF doc[i].is = "heading" /\ doc[i].level <= 6 /\ i \notin fenced THEN doc[i].level ELSE 0]

\* Sections begin at the headings of the shallowest level of the document and,
\* where it has them, of the next.
Breaks(doc) ==
  LET levels == HeadingLevels(doc)
      used == ToSet(levels) \ {0}
      top == CHOOSE l \in used : \A k \in used : l <= k
      split == IF top + 1 \in used THEN top + 1 ELSE top
  IN  IF used = {} THEN {} ELSE {i \in 1 .. Len(doc) : levels[i] \in 1 .. split}

NoTitle == [adr |-> FALSE, name |-> ""]

\* What a document without headings is called: its first line.
FirstLine(doc) == IF doc[1].is \in {"text", "heading"} THEN doc[1].text ELSE NoTitle

SectionsFrom(doc, breaks, starts) ==
  LET at == Ascending(starts, Len(doc))
      title(i) == IF i \in breaks THEN doc[i].text
                  ELSE IF breaks = {} THEN FirstLine(doc) ELSE NoTitle
      from(k) == IF at[k] \in breaks THEN at[k] + 1 ELSE at[k]
      to(k) == IF k = Len(at) THEN Len(doc) ELSE at[k + 1] - 1
  IN  [k \in 1 .. Len(at) |-> [title |-> title(at[k]), body |-> SubSeq(doc, from(k), to(k))]]

\* BUG (a mutant of SplitSections): what is above the first heading is left out.
SplitSectionsHeaded(doc) ==
  LET breaks == Breaks(doc) IN SectionsFrom(doc, breaks, breaks)

SplitSections(doc) ==
  LET breaks == Breaks(doc) IN SectionsFrom(doc, breaks, breaks \cup {1})

\* Comments are cut out wherever they are, from an opening to the next end.
Closers(doc) == Where("comment", doc) \cup Where("meta", doc) \cup Where("banner", doc)
StripHTMLComments(doc) ==
  LET closers == Closers(doc)
      within(i) == \E j \in Where("opening", doc) :
                     /\ j <= i /\ closers \cap j .. (i - 1) = {}
                     /\ \E k \in closers : k > i
  IN  LinesAt({i \in 1 .. Len(doc) : i \notin closers /\ ~within(i)}, doc)

\* BUG (a mutant of Skipped): the banner's section is a memory like others.
SkippedEmpty(s) == StripHTMLComments(s.body) = <<>>

\* Nothing is made of the section with an export's banner and of an empty one.
Skipped(s) == Where("banner", s.body) # {} \/ StripHTMLComments(s.body) = <<>>

\* The first metadata is the section's.
ParseDKMMeta(body) ==
  LET at == Where("meta", body)
  IN  IF at = {} THEN [kind |-> "fact", visibility |-> "private", files |-> {}]
      ELSE LET m == body[CHOOSE i \in at : \A j \in at : i <= j]
           IN  [kind |-> m.kind, visibility |-> m.visibility, files |-> m.files]

\* A decision loses its ADR number; a section without a title is named after its file.
MemoryOf(s) ==
  LET meta == ParseDKMMeta(s.body)
  IN  [kind |-> meta.kind, visibility |-> meta.visibility, project |-> Here,
       files |-> IF meta.files = {} THEN {ExportFile} ELSE meta.files,
       title |-> IF s.title = NoTitle THEN [adr |-> FALSE, name |-> ExportFile]
                 ELSE IF meta.kind = "decision" THEN [s.title EXCEPT !.adr = FALSE] ELSE s.title,
       body |-> StripHTMLComments(s.body)]

ScanMarkdown(doc) ==
  LET sections == SelectSeq(SplitSections(doc), LAMBDA s : ~Skipped(s))
  IN  [k \in 1 .. Len(sections) |-> MemoryOf(sections[k])]

\* Save, for each memory: one that is there already is not created.
SaveAll(memories, records) ==
  FoldLeft(LAMBDA rs, m : IF \E i \in 1 .. Len(rs) : SameText(rs[i], m) THEN rs ELSE Append(rs, m),
           records, memories)

-----------------------------------------------------------------------------
MarkdownInit ==
  /\ trips = MaxTrips /\ exported = <<>>
  /\ \/ library \in Corpora /\ docs = {}
     \/ library = <<>> /\ docs \in {{d} : d \in Documents}

\* Export, to be read, edited and imported again, into the account it is of or
\* another.
ExportTo(written) ==
  /\ library # <<>> /\ docs = {} /\ trips > 0
  /\ docs' = written /\ exported' = library
  /\ library' \in {library, <<>>}
  /\ UNCHANGED trips

ExportFiles == ExportTo(WriteMarkdownExport(library))
ExportOne == ExportTo(ExportDocument(library))

\* The files of an import in any order.
ImportMarkdown ==
  \E doc \in docs :
    /\ library' = SaveAll(ScanMarkdown(doc), library)
    /\ docs' = docs \ {doc}
    /\ trips' = IF docs' = {} THEN trips - 1 ELSE trips
    /\ UNCHANGED exported

MarkdownNext == ExportFiles \/ ExportOne \/ ImportMarkdown

-----------------------------------------------------------------------------
(* Properties *)

\* What a memory is when it comes back.
Back(r) ==
  MemoryOf([title |-> r.title, body |-> Append(DemoteHeadings(r.body), Meta(r))])

\* Memories in whose words dkm does not find markers of its own, or a code block
\* that nothing closes.
Unmarked(r) == \A l \in {"meta", "banner"} : Where(l, r.body) = {}
Plainly(records) == \A r \in records : Unmarked(r) /\ Balanced(r.body)

Imported == docs = {} /\ exported # <<>>

(***************************************************************************)
(* Whatever a document has in it, cutting it in sections leaves no line out *)
(* and never cuts a code block in two.                                      *)
(***************************************************************************)
SectionsWhole ==
  \A doc \in docs :
    LET s == SplitSections(doc)
    IN  /\ FlattenSeq([k \in 1 .. Len(s) |-> s[k].body]) = LinesAt(1 .. Len(doc) \ Breaks(doc), doc)
        /\ \A k \in 1 .. Len(s) - 1 : Balanced(s[k].body)

(***************************************************************************)
(* A corpus that is exported and imported comes back with its kinds,        *)
(* visibilities, files and text, whatever headings and comments are in it,  *)
(* except memories that say no more than their title and those of a project *)
(* whose file another project's took.                                       *)
(***************************************************************************)
RoundTrip ==
  Imported /\ Plainly(ToSet(exported)) =>
    \A r \in ToSet(exported) :
      \/ Bare(r) \/ Back(r).body = <<>> \/ r.project \in Overwritten(exported)
      \/ \E m \in ToSet(library) :
           SameText(m, Back(r)) /\ (m = Back(r) \/ m \in ToSet(exported) \/ \E q \in ToSet(exported) \ {r} : m = Back(q))

(***************************************************************************)
(* And nothing else: an import into the account adds a memory only where    *)
(* the way through Markdown changed the text or the project, and the index. *)
(***************************************************************************)
NothingElse ==
  Imported /\ Plainly(ToSet(exported)) =>
    \A m \in ToSet(library) \ ToSet(exported) :
      m.title = IndexTitle \/ \E r \in ToSet(exported) : m = Back(r) /\ ~Bare(r)

(***************************************************************************)
(* A corpus survives the way through Markdown: documents are cut whole,     *)
(* every memory comes back, and none is added.                              *)
(***************************************************************************)
MarkdownFaithful == SectionsWhole /\ RoundTrip /\ NothingElse

=============================================================================
