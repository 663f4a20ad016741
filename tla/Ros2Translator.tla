--------------------------- MODULE Ros2Translator ---------------------------
(***************************************************************************)
(* The topics and payloads of the ROS 2 gateway.                           *)
(***************************************************************************)
EXTENDS MessageTranslator

CONSTANT RosNamespace  \* ros_namespace_ and topic_prefix_, normalized

build_ros2_topic(service, instance, event) ==
  RosNamespace \o <<format_service_id(service), format_service_id(instance), <<"event">>,
                    format_service_id(event)>>

convert_someip_to_ros2_bytes(msg) == msg.payload
convert_ros2_bytes_to_someip(bytes, msg) == [msg EXCEPT !.payload = bytes]

\* rclcpp: no segment of a topic starts with a digit, so each is a word.
TopicIsValid(topic) == \A k \in DOMAIN topic : Len(topic[k]) = 1
=============================================================================
