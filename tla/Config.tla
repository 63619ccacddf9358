------------------------------- MODULE Config -------------------------------
(***************************************************************************)
(* The configuration: Config::load, which reads the file line by line,     *)
(* lStrip and rStrip, which trim what is on both sides of the first '=',   *)
(* and the lookup of Config::getString.                                    *)
(*                                                                         *)
(* A text is a sequence of characters.  The characters that the program    *)
(* tells apart are the end of a line, '=', blanks (tab and return are      *)
(* blanks, too) and letters in two cases.  The beginnings of comments and  *)
(* sections, '#', ';' and '[', are left out.  Names fit into ItemName and  *)
(* contents into ItemContent.                                              *)
(***************************************************************************)
EXTENDS Naturals, Sequences

CONSTANTS
  Files,       \* what may be in xfly.conf
  LineMax      \* fgets(linebuf, 500): at most 499 characters at a time

NL == "\n"
Blanks == {NL, " "}
Chars == {NL, " ", "=", "k", "K"}

ASSUME ConfigAssumption ==
  /\ Files \subseteq Seq(Chars)
  /\ LineMax \in Nat \ {0}

VARIABLES
  file,                 \* the file
  pos,                  \* characters of it that have been read
  eof,                  \* feof(fp)
  m_configItemList

vars == <<file, pos, eof, m_configItemList>>

-----------------------------------------------------------------------------
(* lStrip and rStrip                                                       *)

(* lStrip: p is the index (from 0) at which its first loop stops.          *)
lStrip(str) ==
  LET p == CHOOSE q \in 0 .. Len(str) :
             /\ \A k \in 1 .. q : str[k] \in Blanks
             /\ q < Len(str) => str[q + 1] \notin Blanks IN
    IF p = Len(str) THEN << >> ELSE SubSeq(str, p + 1, Len(str))

(* Mutated form: the character at the beginning is taken for a blank.      *)
rStrip_first(str) ==
  LET stop == {q \in 2 .. Len(str) :
                 str[q] \notin Blanks /\ \A k \in q + 1 .. Len(str) : str[k] \in Blanks} IN
    IF stop = {} THEN << >> ELSE SubSeq(str, 1, CHOOSE q \in stop : TRUE)

(* rStrip: tmp goes back from the end over blanks, at most to the first    *)
(* character; if that is one, too, nothing is left.                        *)
rStrip(str) ==
  LET tmp == CHOOSE q \in 1 .. Len(str) :
               /\ \A k \in q + 1 .. Len(str) : str[k] \in Blanks
               /\ str[q] \notin Blanks \/ q = 1 IN
    IF str = << >> \/ str[tmp] \in Blanks THEN << >> ELSE SubSeq(str, 1, tmp)

-----------------------------------------------------------------------------
(* load                                                                    *)

(* Characters fgets takes: to the end of the line, the end of the file, or *)
(* the end of linebuf.                                                     *)
Unread == Len(file) - pos
LineEnds == {n \in 1 .. LineMax : n <= Unread /\ file[pos + n] = NL}

Taken ==
  IF LineEnds # {} THEN CHOOSE n \in LineEnds : \A m \in LineEnds : n <= m
  ELSE IF Unread < LineMax THEN Unread ELSE LineMax

(* The list of lineInvalid, "\0#;\n\t[ ", ends with its first character:   *)
(* strchr finds nothing in it, and no line is invalid but the empty one.   *)
lineInvalid(line) == line = << >>

Equals(line) == {k \in 1 .. Len(line) : line[k] = "="}
pEqual(line) == CHOOSE k \in Equals(line) : \A m \in Equals(line) : k <= m

ConfigItem(line) ==
  [ItemName    |-> rStrip(lStrip(SubSeq(line, 1, pEqual(line) - 1))),
   ItemContent |-> rStrip(lStrip(SubSeq(line, pEqual(line) + 1, Len(line))))]

Init ==
  /\ file \in Files
  /\ pos = 0
  /\ eof = FALSE
  /\ m_configItemList = << >>

(* Mutated form: feof is asked behind the work on a line and not after     *)
(* an fgets that finds nothing.                                            *)
AtEnd_afterLine == LineEnds = {} /\ Unread \in 1 .. LineMax - 1

(* fgets has tried to read behind the end.                                 *)
AtEnd == LineEnds = {} /\ Unread < LineMax

(* Mutated form: the position moves on by a whole buffer every round.      *)
ReadLine_block ==
  /\ ~ eof
  /\ pos' = pos + LineMax
  /\ eof' = AtEnd
  /\ LET line == SubSeq(file, pos + 1, pos + Taken) IN
       m_configItemList' =
         IF lineInvalid(line) \/ Equals(line) = {} THEN m_configItemList
         ELSE Append(m_configItemList, ConfigItem(line))
  /\ UNCHANGED file

(* One round of the loop.                                                  *)
ReadLine ==
  /\ ~ eof
  /\ pos' = pos + Taken
  /\ eof' = AtEnd
  /\ LET line == SubSeq(file, pos + 1, pos + Taken) IN
       m_configItemList' =
         IF lineInvalid(line) \/ Equals(line) = {} THEN m_configItemList
         ELSE Append(m_configItemList, ConfigItem(line))
  /\ UNCHANGED file

Next == ReadLine

Spec == Init /\ [][Next]_vars

(* load runs on.                                                           *)
FairSpec == Spec /\ WF_vars(ReadLine)

-----------------------------------------------------------------------------
(* The lookup                                                              *)

Lower(c) == IF c = "K" THEN "k" ELSE c
strcasecmp(s, t) ==
  Len(s) = Len(t) /\ \A k \in 1 .. Len(s) : Lower(s[k]) = Lower(t[k])

nullptr == "nullptr"

Matches(name) ==
  {n \in 1 .. Len(m_configItemList) : strcasecmp(m_configItemList[n].ItemName, name)}

(* Mutated form: the last item wins.                                       *)
getString_last(name) ==
  IF Matches(name) = {} THEN nullptr
  ELSE m_configItemList[CHOOSE n \in Matches(name) : \A m \in Matches(name) : n >= m].ItemContent

(* getString: the first item of that name.  getIntDefault looks for the    *)
(* same one; its atoi is left out.                                         *)
getString(name) ==
  IF Matches(name) = {} THEN nullptr
  ELSE m_configItemList[CHOOSE n \in Matches(name) : \A m \in Matches(name) : n <= m].ItemContent

-----------------------------------------------------------------------------
(* Properties                                                              *)

TypeOK ==
  /\ file \in Files
  /\ pos \in 0 .. Len(file)
  /\ eof \in BOOLEAN
  /\ m_configItemList \in Seq([ItemName : Seq(Chars), ItemContent : Seq(Chars)])

(* What the file means, without the program's way of reading it: a line is *)
(* a stretch of the file between ends of lines, its name and its content   *)
(* are what is left of the first '=' and right of it, without the blanks   *)
(* around them.  A line that begins with a blank says nothing: lineInvalid *)
(* has blanks in its list of characters (xfly_conf.cpp:67).                *)
LineSpans ==
  {span \in (1 .. Len(file) + 1) \X (0 .. Len(file)) :
     /\ span[1] <= span[2]
     /\ span[1] = 1 \/ file[span[1] - 1] = NL
     /\ span[2] = Len(file) \/ file[span[2] + 1] = NL
     /\ \A k \in span[1] .. span[2] : file[k] # NL}

Skipped(span) == file[span[1]] \in Blanks

IsTrimmed(str, a, b) ==      \* str is the part from a to b without blanks around it
  LET ink == {k \in a .. b : file[k] \notin Blanks} IN
    IF ink = {} THEN str = << >>
    ELSE \E first, last \in ink :
           /\ \A k \in ink : first <= k /\ k <= last
           /\ str = SubSeq(file, first, last)

(* The line says: the setting called name is content.                      *)
Says(span, name, content) ==
  /\ ~ Skipped(span)
  /\ \E at \in span[1] .. span[2] :
       /\ file[at] = "="
       /\ \A k \in span[1] .. at - 1 : file[k] # "="
       /\ \E s \in {SubSeq(file, a, b) : a, b \in 1 .. Len(file)} \cup {<< >>} :
            IsTrimmed(s, span[1], at - 1) /\ strcasecmp(s, name)
       /\ IsTrimmed(content, at + 1, span[2])

LinesFit == \A span \in LineSpans : span[2] - span[1] + 1 < LineMax

(* No line that is to be skipped looks like a setting.  The program skips  *)
(* none of them and would take it for one.                                 *)
SkippedAreSilent ==
  \A span \in LineSpans : Skipped(span) => \A k \in span[1] .. span[2] : file[k] # "="

Names == {<< >>, <<"k">>, <<"k", "k">>, <<"k", " ", "k">>}

Sayings(name) ==
  {span \in LineSpans :
     \E s \in {SubSeq(file, a, b) : a, b \in 1 .. Len(file)} \cup {<< >>} : Says(span, name, s)}

(* If no line is too long for linebuf and no line that is to be skipped    *)
(* looks like a setting, a setting has the content that the first line     *)
(* with its name gives it, and none if there is no such line: reading,     *)
(* cutting, trimming and looking up work together.                         *)
LookupAsWritten ==
  (eof /\ LinesFit /\ SkippedAreSilent) =>
    \A name \in Names :
      IF Sayings(name) = {} THEN getString(name) = nullptr
      ELSE \E span \in Sayings(name) :
             /\ \A other \in Sayings(name) : span[1] <= other[1]
             /\ Says(span, name, getString(name))

(* load ends, with every character of the file read, whether or not the    *)
(* last line ends in '\n' and however long the lines are.                  *)
LoadEnds == <>[](eof /\ pos = Len(file))
=============================================================================
