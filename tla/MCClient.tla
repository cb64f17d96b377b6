------------------------------ MODULE MCClient ------------------------------
(***************************************************************************)
(* Six things the program does on a developer's machine: the hooks of a     *)
(* session, agent setup, the Markdown round trip, export and import, the    *)
(* import of transcripts, and the IDs it draws.  They share no state, so a  *)
(* behaviour runs one of them, and the others stay in one of their initial  *)
(* states.                                                                  *)
(***************************************************************************)
EXTENDS HookBuffer, Connect, MCMarkdown, MCTransfer, MCTranscripts, Ulid

VARIABLE part

NoConnect == wanted = [f \in File |-> {}] /\ ConnectInit
AnyCorpus == CHOOSE c \in Corpora : TRUE
NoMarkdown == library = AnyCorpus /\ docs = {} /\ MarkdownInit
NoTransfer == file = <<>> /\ target = [w \in Wording |-> 0] /\ TransferInit /\ source = <<Mine, Mine, NoSourceRow>>
AnyHistory == CHOOSE h \in Histories : TRUE
NoTranscripts == history = AnyHistory /\ TranscriptsInit

ClientInit ==
  /\ UlidInit
  /\ \/ part = "hooks" /\ HookInit /\ NoConnect /\ NoMarkdown /\ NoTransfer /\ NoTranscripts
     \/ part = "connect" /\ HookInit /\ ConnectInit /\ NoMarkdown /\ NoTransfer /\ NoTranscripts
     \/ part = "markdown" /\ HookInit /\ NoConnect /\ MarkdownInit /\ NoTransfer /\ NoTranscripts
     \/ part = "transfer" /\ HookInit /\ NoConnect /\ NoMarkdown /\ TransferInit /\ NoTranscripts
     \/ part = "transcripts" /\ HookInit /\ NoConnect /\ NoMarkdown /\ NoTransfer /\ TranscriptsInit
     \/ part = "ids" /\ HookInit /\ NoConnect /\ NoMarkdown /\ NoTransfer /\ NoTranscripts

ClientNext ==
  /\ UNCHANGED part
  /\ \/ part = "hooks" /\ HookNext /\ UNCHANGED <<connectVars, markdownVars, transferVars, transcriptVars, ulidVars>>
     \/ part = "connect" /\ ConnectNext /\ UNCHANGED <<hookVars, markdownVars, transferVars, transcriptVars, ulidVars>>
     \/ part = "markdown" /\ MarkdownNext /\ UNCHANGED <<hookVars, connectVars, transferVars, transcriptVars, ulidVars>>
     \/ part = "transfer" /\ TransferNext /\ UNCHANGED <<hookVars, connectVars, markdownVars, transcriptVars, ulidVars>>
     \/ part = "transcripts" /\ TranscriptsNext /\ UNCHANGED <<hookVars, connectVars, markdownVars, transferVars, ulidVars>>
     \/ part = "ids" /\ UlidNext /\ UNCHANGED <<hookVars, connectVars, markdownVars, transferVars, transcriptVars>>

ClientSpec ==
  ClientInit /\ [][ClientNext]_<<part, hookVars, connectVars, markdownVars, transferVars, transcriptVars, ulidVars>>
=============================================================================
