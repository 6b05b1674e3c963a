----------------------------- MODULE ReadConfig -----------------------------
(***************************************************************************)
(* How the program takes its nickname and address from the configuration   *)
(* file, with cJSON.  The outcome is "ok", "error" or "crash"; names are   *)
(* two keys that stand for "nickname" and "local_ip".                      *)
(***************************************************************************)
EXTENDS Json

CONSTANTS NicknameKey, LocalIpKey

(* read_config: the file's bytes, with a 0 after them, to cJSON_Parse. *)
read_config(file, m) == cJSON_ParseWithLengthOpts(CString(file) \o <<0>>, m, FALSE)

Outcome(how, m) == [how |-> how, m |-> m]

(* Faulty: the tree is not deleted when a member is missing. *)
TakeFieldsLeak(m, nickname, local_ip) ==
  LET copy == cJSON_strdup(m, Chars(m.heap, m.heap[nickname].valuestring))
  IN IF nickname = NULL \/ local_ip = NULL THEN Outcome("error", m)
     ELSE IF m.heap[nickname].valuestring = NULL THEN Outcome("crash", m)
     ELSE IF copy.ret = NULL THEN Outcome("error", cJSON_Delete(copy, m.ret))
     ELSE IF m.heap[local_ip].valuestring = NULL THEN Outcome("crash", copy)
     ELSE Outcome("ok", cJSON_Delete(copy, m.ret))

(* read_out_config, from the root m.ret on.  A member that is no string    *)
(* has no text to copy: strlen or strncpy reads through NULL.              *)
TakeFields(m, nickname, local_ip) ==
  LET copy == cJSON_strdup(m, Chars(m.heap, m.heap[nickname].valuestring))
  IN IF nickname = NULL \/ local_ip = NULL THEN Outcome("error", cJSON_Delete(m, m.ret))
     ELSE IF m.heap[nickname].valuestring = NULL THEN Outcome("crash", m)
     ELSE IF copy.ret = NULL THEN Outcome("error", cJSON_Delete(copy, m.ret))
     ELSE IF m.heap[local_ip].valuestring = NULL THEN Outcome("crash", copy)
     ELSE Outcome("ok", cJSON_Delete(copy, m.ret))

AfterRead(m) ==
  IF m.ret = NULL THEN Outcome("error", m)
  ELSE TakeFields(m, get_object_item(m, m.ret, NicknameKey, FALSE),
                     get_object_item(m, m.ret, LocalIpKey, FALSE))

read_out_config(file, m) == AfterRead(read_config(file, m))
=============================================================================
