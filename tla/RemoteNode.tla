----------------------------- MODULE RemoteNode -----------------------------
(***************************************************************************)
(* What a call on a node of the stand can do (framework/helpers/remote.py).*)
(* A node is local (a child process, the local file system) or remote (ssh *)
(* and sftp).  An outcome says whether the node was changed and whether    *)
(* the caller sees an exception: the two do not always go together.        *)
(***************************************************************************)

Outcome == [effect : BOOLEAN, raises : BOOLEAN]

Done == [effect |-> TRUE, raises |-> FALSE]
Refused == [effect |-> FALSE, raises |-> TRUE]
\* The command did its work and the caller is told otherwise: it was killed
\* at its time limit, or the session was lost while its output was read.
DoneButRaised == [effect |-> TRUE, raises |-> TRUE]
Swallowed == [effect |-> FALSE, raises |-> FALSE]

\* LocalNode.run_cmd: a result, a bad exit status, or the process killed when
\* the time is over, before or after it changed anything.
LocalRunCmd == {Done, Refused, DoneButRaised}

\* RemoteNode.run_cmd: a result, a bad exit status, or any error of the ssh
\* session; the remote process is not killed then.
RemoteRunCmd == {Done, Refused, DoneButRaised}

\* copy_file: a local error reaches the caller, an error of sftp is only
\* logged (making the directory is a command and does raise).  The file is
\* truncated when it is opened: without an effect it need not be the old one.
LocalCopyFile == {Done, Refused}
RemoteCopyFile == {Done, Refused, Swallowed}

\* remove_file: a missing file is not an error; nothing is removed while the
\* flag DEBUG_FILES is set; sftp errors are only logged, except those of
\* opening the sftp session.
LocalRemoveFile(debug) == IF debug THEN {Swallowed} ELSE {Done, Refused}
RemoteRemoveFile(debug) ==
  IF debug THEN {Swallowed} ELSE {Done, Refused, Swallowed}

RunCmd(local) == IF local THEN LocalRunCmd ELSE RemoteRunCmd
CopyFile(local) == IF local THEN LocalCopyFile ELSE RemoteCopyFile
RemoveFile(local, debug) ==
  IF local THEN LocalRemoveFile(debug) ELSE RemoteRemoveFile(debug)

=============================================================================
