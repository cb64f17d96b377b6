--------------------------- MODULE MCTranscripts ---------------------------
(* Two transcripts, each of which may change its directory, have a broken    *)
(* line, one too long to scan, nothing to store, or entries of both tools.  *)
EXTENDS Transcripts
Said(who, what) == TranscriptEntry([Silent EXCEPT !.role = who, !.says = what], Silent)
Started(d) == TranscriptEntry([Silent EXCEPT !.cwd = d], Silent)
Nested == TranscriptEntry([Silent EXCEPT !.role = "event"], [Silent EXCEPT !.role = "model", !.says = "c", !.cwd = "home"])
Files == {<<Started("home"), Said("user", "a"), BrokenLine, Nested, Said("assistant", "d")>>,
          <<Said("tool", "b"), Started("gone"), Nested, Said("summary", "e")>>,
          <<Said("user", "a"), LongLine>>, <<Started("home")>>, <<Said("human", "f")>>}
MCHistories == Files \X Files
=============================================================================
