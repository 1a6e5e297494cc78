-------------------------- MODULE InstalledSource --------------------------
(***************************************************************************)
(* The Homebrew source of the standard prefix: bin/brew, Library/Homebrew   *)
(* and the Git checkout they belong to.  It is not the wrapper's: brew      *)
(* update, git and the user change it file by file, and HEAD at a moment of *)
(* its own, while reviewedBrewSource, the copy and the comparison read it.  *)
(***************************************************************************)
EXTENDS Naturals

CONSTANTS
  Commit,      \* the commits HEAD may be at
  Release,     \* the reviewed ones (reviewedBrewRevisions)
  Legacy,      \* brewRevision: also recognized by the digest of its files
  NoCheckout,  \* HEAD of a prefix without a usable checkout
  File,        \* the files of bin/brew and Library/Homebrew
  Tracked,     \* those git status reports on: not portable Ruby, nor ignored files
  Content,     \* what a file may contain; a digest is the content itself
  Absent,      \* the content of a file that is not there
  Tree,        \* the tracked files of each commit
  MaxChanges   \* bound on what other processes change

ASSUME SourceIsTyped ==
  /\ Legacy \in Release /\ Release \subseteq Commit /\ NoCheckout \notin Commit
  /\ Tracked \subseteq File
  /\ Absent \in Content
  /\ Tree \in [Commit -> [Tracked -> Content]]
  /\ MaxChanges \in Nat

VARIABLES
  head,      \* the commit HEAD names
  source,    \* what each file contains
  pastHead,  \* history: the commits HEAD named before
  past,      \* history: what each file contained before
  restored,  \* history: HEAD or a file went back to what it was before
  moved,     \* history: something changed since a command was selected
  changes    \* what other processes changed so far, here or elsewhere

installed == <<head, source, pastHead, past, restored, moved>>

SourceTypeOK ==
  /\ head \in Commit \cup {NoCheckout}
  /\ source \in [File -> Content]
  /\ pastHead \subseteq Commit \cup {NoCheckout}
  /\ past \in [File -> SUBSET Content]
  /\ restored \in BOOLEAN
  /\ moved \in BOOLEAN
  /\ changes \in Nat

\* A prefix in any state: on a reviewed release, off it, modified, or without Git.
SourceInit ==
  /\ head \in Commit \cup {NoCheckout}
  /\ source \in [File -> Content]
  /\ pastHead = {}
  /\ past = [f \in File |-> {}]
  /\ restored = FALSE
  /\ moved = FALSE
  /\ changes = 0

\* git status of the reviewed paths reports nothing.
Clean == head \in Commit /\ \A f \in Tracked : source[f] = Tree[head][f]

Count == changes < MaxChanges /\ changes' = changes + 1

\* One file is written, created or removed, by a checkout or by anyone else.
ChangeFile(f, c) ==
  /\ Count
  /\ c # source[f]
  /\ source' = [source EXCEPT ![f] = c]
  /\ past' = [past EXCEPT ![f] = @ \cup {source[f]}]
  /\ restored' = (restored \/ c \in past[f])
  /\ moved' = TRUE
  /\ UNCHANGED <<head, pastHead>>

\* HEAD moves: a checkout has written its files before, or writes none.
MoveHead(r) ==
  /\ Count
  /\ r # head
  /\ head' = r
  /\ pastHead' = pastHead \cup {head}
  /\ restored' = (restored \/ r \in pastHead)
  /\ moved' = TRUE
  /\ UNCHANGED <<source, past>>

SourceChanges ==
  \/ \E f \in File, c \in Content : ChangeFile(f, c)
  \/ \E r \in Commit \cup {NoCheckout} : MoveHead(r)

\* What is there now was not there before, unless something was put back.
Fresh ==
  ~restored => head \notin pastHead /\ \A f \in File : source[f] \notin past[f]

=============================================================================
