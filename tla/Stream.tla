------------------------------- MODULE Stream -------------------------------
(***************************************************************************)
(* What a stdio stream of libc/core promises: reads and writes at one file *)
(* position, with the text-mode translation of this libc, and no trace of  *)
(* a buffer.  Pushed-back bytes are read again and step the position back. *)
(***************************************************************************)
EXTENDS Integers, SequencesExt

CONSTANT Byte  \* the byte values

VARIABLES
  text,     \* whether the stream is in text mode
  content,  \* the bytes of the file
  pos,      \* the file position
  ahead,    \* the bytes still to be read from here, pushed-back ones first
  eof,      \* the end-of-file indicator
  mode,     \* "r", "w" or "r+"; "closed" after fclose
  ret       \* what the last call returned

streamVars == <<text, content, pos, ahead, eof, mode, ret>>

EOF == -1
NL == 10
CR == 13
SUB == 26

From(s, i) == SubSeq(s, i + 1, Len(s))

(* s with the bytes w written at position i.                               *)
Overwrite(s, i, w) == SubSeq(s, 1, i) \o w \o From(s, i + Len(w))

Raw(c) == IF text /\ c = NL THEN <<CR, NL>> ELSE <<c>>

(* How many of the bytes s a text stream skips before the next character.  *)
Skipped(s) ==
  IF text THEN CHOOSE i \in 0 .. Len(s) : /\ \A j \in 1 .. i : s[j] = CR
                                          /\ i = Len(s) \/ s[i + 1] # CR
  ELSE 0

(* The next character of the input s, or EOF at its end and at Ctrl-Z; and *)
(* how many bytes reading it consumes.                                     *)
NextChar(s) ==
  IF Skipped(s) = Len(s) \/ (text /\ s[Skipped(s) + 1] = SUB) THEN EOF
  ELSE s[Skipped(s) + 1]
Consumed(s) == IF Skipped(s) = Len(s) THEN Len(s) ELSE Skipped(s) + 1

Refused == ret' = EOF /\ UNCHANGED <<text, content, pos, ahead, eof, mode>>

Getc ==
  \/ (mode = "w" \/ eof) /\ Refused
  \/ /\ mode \in {"r", "r+"} /\ ~ eof
     /\ ret' = NextChar(ahead) /\ eof' = (ret' = EOF)
     /\ ahead' = From(ahead, Consumed(ahead)) /\ pos' = pos + Consumed(ahead)
     /\ UNCHANGED <<text, content, mode>>

Putc(c) ==
  \/ mode = "r" /\ Refused
  \/ /\ mode \in {"w", "r+"}
     /\ content' = Overwrite(content, pos, Raw(c)) /\ pos' = pos + Len(Raw(c))
     /\ ahead' = From(content', pos') /\ ret' = c
     /\ UNCHANGED <<text, eof, mode>>

Ungetc(c) ==
  \/ Refused
  \/ /\ mode \in {"r", "r+"} /\ pos > 0
     /\ ahead' = <<c>> \o ahead /\ pos' = pos - 1 /\ eof' = FALSE /\ ret' = c
     /\ UNCHANGED <<text, content, mode>>

Seek(to) ==
  /\ mode # "closed" /\ to \in 0 .. Len(content)
  /\ pos' = to /\ ahead' = From(content, to) /\ eof' = FALSE /\ ret' = 0
  /\ UNCHANGED <<text, content, mode>>

Tell == ret' = pos /\ UNCHANGED <<text, content, pos, ahead, eof, mode>>

(* fflush shows nothing to the client; clearerr clears the indicator.      *)
Flush == ret' = 0 /\ UNCHANGED <<text, content, pos, ahead, eof, mode>>
Clear == eof' = FALSE /\ UNCHANGED <<text, content, pos, ahead, mode, ret>>

Close == /\ mode' = "closed" /\ pos' = 0 /\ ahead' = << >> /\ eof' = FALSE
         /\ ret' = (IF mode = "closed" THEN EOF ELSE 0) /\ UNCHANGED <<text, content>>

Init ==
  /\ text \in BOOLEAN /\ content \in Seq(Byte) /\ pos = 0 /\ ahead = content /\ eof = FALSE
  /\ mode \in {"r", "w", "r+"} /\ ret = 0

Next == \/ Getc \/ Tell \/ Flush \/ Clear \/ Close
        \/ \E c \in Byte : Putc(c) \/ Ungetc(c)
        \/ \E to \in 0 .. Len(content) : Seek(to)
        \/ \E off \in -1 .. 1 : Seek(pos + off)

Spec == Init /\ [][Next]_streamVars
=============================================================================
