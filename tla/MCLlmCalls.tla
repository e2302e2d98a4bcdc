---------------------------- MODULE MCLlmCalls ----------------------------
(* Small instances of LlmCalls: so many calls of each kind, one question.  *)
EXTENDS LlmCalls, TLC

CONSTANTS Chats, Threads, Compressions, Others

AllCalls == Chats \cup Threads \cup Compressions \cup Others
KindOf == [c \in AllCalls |-> CASE c \in Chats -> "chat"
                                [] c \in Threads -> "thread"
                                [] c \in Compressions -> "compress"
                                [] OTHER -> "other"]
OneQuestion == {"q"}
QuestionOf == [c \in AllCalls |-> "q"]

CallSymmetry == Permutations(Chats) \cup Permutations(Threads)
                \cup Permutations(Compressions) \cup Permutations(Others)
=============================================================================
