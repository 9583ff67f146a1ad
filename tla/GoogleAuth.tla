----------------------------- MODULE GoogleAuth -----------------------------
(***************************************************************************)
(* The OAuth2 token of the Google agent (internal/google/auth.go): the     *)
(* command sekia-google auth, which waits for the callback of the browser  *)
(* and writes the token file, and PersistentTokenSource, which the pollers *)
(* and the command handler of the agent share and which writes the file    *)
(* again whenever the token was refreshed.  A file is truncated, then      *)
(* written.                                                                *)
(***************************************************************************)
EXTENDS Naturals, Sequences, FiniteSets

CONSTANTS
  Callers,       \* the goroutines of the agent that call Token
  Free,          \* no caller
  Torn,          \* what is in a file that was truncated and not written
  MaxCallbacks,  \* bounds: requests of the browser,
  MaxTokens      \* and tokens that Google issues

ASSUME CallersAssumption == Free \notin Callers
ASSUME TornAssumption == Torn \notin Nat
ASSUME AuthBoundsAssumption == MaxCallbacks \in Nat /\ MaxTokens \in Nat \ {0}

VARIABLES
  flow,       \* runCallbackServer and the command: the next step
  callbacks,  \* requests of the browser so far
  results,    \* the channel of capacity 1
  blocked,    \* handlers that wait to send their result
  good,       \* the result that was received has a code
  granted,    \* the token of the flow, 0: none
  issued,     \* Google: tokens so far; the newest is the largest
  disk,       \* the token file, 0: there is none
  agentUp,    \* the agent runs
  lock,       \* mu: who holds it
  at,         \* Token: what each caller is at
  memory,     \* the token that the source holds
  lastToken,  \* the one that was compared last
  valid,      \* the token that the source holds has not expired
  unsaved     \* history: a save was cut short or failed, or two processes wrote

authVars == <<flow, callbacks, results, blocked, good, granted, issued, disk, agentUp, lock,
              at, memory, lastToken, valid, unsaved>>
flowVars == <<flow, callbacks, results, blocked, good, granted>>
sourceVars == <<agentUp, lock, at, memory, lastToken, valid>>

AuthTypeOK ==
  /\ flow \in {"none", "listen", "shut", "exchange", "truncate", "write", "ended", "failed"}
  /\ callbacks \in 0..MaxCallbacks /\ blocked \in 0..MaxCallbacks
  /\ results \in Seq(BOOLEAN) /\ Len(results) <= 1 /\ good \in BOOLEAN
  /\ granted \in 0..MaxTokens /\ issued \in 0..MaxTokens
  /\ disk \in 0..MaxTokens \cup {Torn}
  /\ agentUp \in BOOLEAN /\ lock \in Callers \cup {Free}
  /\ at \in [Callers -> {"idle", "source", "compare", "write"}]
  /\ memory \in 0..MaxTokens /\ lastToken \in 0..MaxTokens /\ valid \in BOOLEAN
  /\ unsaved \in BOOLEAN

AuthInit ==
  /\ flow = "none" /\ callbacks = 0 /\ results = <<>> /\ blocked = 0 /\ good = FALSE
  /\ granted = 0 /\ issued = 0 /\ disk = 0
  /\ agentUp = FALSE /\ lock = Free /\ at = [c \in Callers |-> "idle"]
  /\ memory = 0 /\ lastToken = 0 /\ valid = FALSE /\ unsaved = FALSE

-----------------------------------------------------------------------------
(***************************************************************************)
(* sekia-google auth.                                                      *)
(***************************************************************************)
StartFlow ==
  /\ flow = "none"
  /\ flow' = "listen"
  /\ UNCHANGED <<callbacks, results, blocked, good, granted, issued, disk, sourceVars, unsaved>>

\* A request for "/": denied, another state, no code, or a code.  The second one
\* that comes before the first was received has to wait.
Callback(ok) ==
  /\ flow = "listen" /\ callbacks < MaxCallbacks
  /\ callbacks' = callbacks + 1
  /\ IF results = <<>>
     THEN results' = <<ok>> /\ UNCHANGED blocked
     ELSE blocked' = blocked + 1 /\ UNCHANGED results
  /\ UNCHANGED <<flow, good, granted, issued, disk, sourceVars, unsaved>>

\* Of a handler that waits it does not matter any more what it sends.
Unblock ==
  /\ blocked > 0 /\ results = <<>>
  /\ results' = <<FALSE>> /\ blocked' = blocked - 1
  /\ UNCHANGED <<flow, callbacks, good, granted, issued, disk, sourceVars, unsaved>>

\* The first result ends the wait, whatever it says; the server shuts down.
ReceiveResult ==
  /\ flow = "listen" /\ results # <<>>
  /\ good' = Head(results) /\ results' = <<>>
  /\ flow' = "shut"
  /\ UNCHANGED <<callbacks, blocked, granted, issued, disk, sourceVars, unsaved>>

\* Five minutes are over.
GiveUp ==
  /\ flow = "listen"
  /\ flow' = "failed"
  /\ UNCHANGED <<callbacks, results, blocked, good, granted, issued, disk, sourceVars, unsaved>>

\* Mutated: the shutdown of the server waits for all handlers.
ServerDownWaits ==
  /\ flow = "shut" /\ blocked = 0
  /\ flow' = IF good THEN "exchange" ELSE "failed"
  /\ UNCHANGED <<callbacks, results, blocked, good, granted, issued, disk, sourceVars, unsaved>>

\* Shutdown ends with the last handler, or after two seconds.
ServerDown ==
  /\ flow = "shut"
  /\ flow' = IF good THEN "exchange" ELSE "failed"
  /\ UNCHANGED <<callbacks, results, blocked, good, granted, issued, disk, sourceVars, unsaved>>

\* The code is exchanged for a token, or not.
ExchangeCode ==
  /\ flow = "exchange"
  /\ \/ /\ issued < MaxTokens
        /\ issued' = issued + 1 /\ granted' = issued + 1 /\ flow' = "truncate"
     \/ flow' = "failed" /\ UNCHANGED <<issued, granted>>
  /\ UNCHANGED <<callbacks, results, blocked, good, disk, sourceVars, unsaved>>

\* SaveTokenToFile by the command, while the agent may run and write as well; it may
\* fail before it opens the file.
TruncateFile ==
  /\ flow = "truncate"
  /\ disk' \in {Torn, disk} /\ flow' = "write"
  /\ unsaved' = (unsaved \/ agentUp)
  /\ UNCHANGED <<callbacks, results, blocked, good, granted, issued, sourceVars>>

WriteFile ==
  /\ flow = "write"
  /\ \/ disk' = granted /\ flow' = "ended" /\ UNCHANGED unsaved
     \/ flow' = "failed" /\ unsaved' = TRUE /\ UNCHANGED disk
  /\ UNCHANGED <<callbacks, results, blocked, good, granted, issued, sourceVars>>

Flow == ReceiveResult \/ GiveUp \/ ServerDown \/ ExchangeCode \/ TruncateFile \/ WriteFile

-----------------------------------------------------------------------------
(***************************************************************************)
(* PersistentTokenSource.                                                  *)
(***************************************************************************)

\* NewPersistentTokenSource: without a token that parses the agent does not start.
NewTokenSource ==
  /\ ~agentUp /\ disk \notin {0, Torn}
  /\ agentUp' = TRUE
  /\ memory' = disk /\ lastToken' = disk /\ valid' \in BOOLEAN
  /\ unsaved' = (flow \in {"truncate", "write"})
  /\ UNCHANGED <<flowVars, issued, disk, lock, at>>

Expire ==
  /\ agentUp /\ valid
  /\ valid' = FALSE
  /\ UNCHANGED <<flowVars, issued, disk, agentUp, lock, at, memory, lastToken, unsaved>>

Lock(c) ==
  /\ agentUp /\ at[c] = "idle" /\ lock = Free
  /\ lock' = c /\ at' = [at EXCEPT ![c] = "source"]
  /\ UNCHANGED <<flowVars, issued, disk, agentUp, memory, lastToken, valid, unsaved>>

Unlocked(c) == lock' = Free /\ at' = [at EXCEPT ![c] = "idle"]

\* source.Token: the token that it holds, or a new one, or an error.
SourceToken(c) ==
  /\ agentUp /\ at[c] = "source"
  /\ \/ /\ valid
        /\ at' = [at EXCEPT ![c] = "compare"]
        /\ UNCHANGED <<issued, memory, valid, lock>>
     \/ /\ ~valid /\ issued < MaxTokens
        /\ issued' = issued + 1 /\ memory' = issued + 1 /\ valid' = TRUE
        /\ at' = [at EXCEPT ![c] = "compare"]
        /\ UNCHANGED lock
     \/ /\ ~valid
        /\ Unlocked(c) /\ UNCHANGED <<issued, memory, valid>>
  /\ UNCHANGED <<flowVars, disk, agentUp, lastToken, unsaved>>

\* Mutated: the new token is remembered and not saved.
CompareOnly(c) ==
  /\ agentUp /\ at[c] = "compare"
  /\ Unlocked(c) /\ lastToken' = memory
  /\ UNCHANGED <<flowVars, issued, disk, agentUp, memory, valid, unsaved>>

\* A token that changed is saved, unless the file cannot be opened.
Compare(c) ==
  /\ agentUp /\ at[c] = "compare"
  /\ IF memory # lastToken
     THEN disk' \in {Torn, disk} /\ at' = [at EXCEPT ![c] = "write"] /\ UNCHANGED lock
     ELSE Unlocked(c) /\ UNCHANGED disk
  /\ UNCHANGED <<flowVars, issued, agentUp, memory, lastToken, valid, unsaved>>

\* A save that fails is not tried again: the token counts as saved.
SaveToken(c) ==
  /\ agentUp /\ at[c] = "write"
  /\ \/ disk' = memory /\ UNCHANGED unsaved
     \/ unsaved' = TRUE /\ UNCHANGED disk
  /\ lastToken' = memory
  /\ Unlocked(c)
  /\ UNCHANGED <<flowVars, issued, agentUp, memory, valid>>

\* The agent stops or dies, wherever its goroutines are.
EndAgent ==
  /\ agentUp
  /\ agentUp' = FALSE
  /\ lock' = Free /\ at' = [c \in Callers |-> "idle"]
  /\ unsaved' = (unsaved \/ \E c \in Callers : at[c] = "write")
  /\ UNCHANGED <<flowVars, issued, disk, memory, lastToken, valid>>

AuthNext ==
  \/ StartFlow \/ \E ok \in BOOLEAN : Callback(ok)
  \/ Unblock \/ Flow
  \/ NewTokenSource \/ Expire \/ EndAgent
  \/ \E c \in Callers : Lock(c) \/ SourceToken(c) \/ Compare(c) \/ SaveToken(c)

AuthSpec == AuthInit /\ [][AuthNext]_authVars

-----------------------------------------------------------------------------
(***************************************************************************)
(* Properties.                                                             *)
(***************************************************************************)

\* Nothing is lost of a refreshed token while one process writes at a time and no
\* save fails: with the lock free the file holds the token that the agent uses, so
\* that a restart goes on with it; and whenever a restart finds half a file, some
\* save was cut short, has failed, or is under way.
TokenKept ==
  /\ agentUp /\ lock = Free /\ ~unsaved => disk = memory
  /\ disk = Torn => unsaved \/ lock # Free \/ flow = "write"

\* The command comes to an end however many callbacks come, also such as block
\* their handlers (runCallbackServer).
FlowEnds == []<>(flow \in {"none", "ended", "failed"})
=============================================================================
